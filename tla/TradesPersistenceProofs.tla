---------------------- MODULE TradesPersistenceProofs ----------------------
(***************************************************************************)
(* The steps of the workers and the faults keep the invariant of           *)
(* TradesInvariant, and what follows from it.                              *)
(*                                                                         *)
(* Persist is a statement of persistTrades; Statement says each of them of *)
(* the worker's record before and after it (x and y) and of the tables.    *)
(* What holds whatever fails is shown for all statements first (SafeInv),  *)
(* then what is exact while nothing has failed: for each statement, which  *)
(* trades it has seen (the sets ...Left shrink) and which rows it has      *)
(* changed for them.                                                       *)
(***************************************************************************)
EXTENDS TradesInvariant

(* The steps of a worker: x is its record before the step and y after it. *)

\* The record at another statement, and within one between its read and its write.
After(x, at, i) == [at |-> at, job |-> x.job, i |-> i, seen |-> "none", row |-> NoRow]

Mid(x, at, seen, row) == [at |-> at, job |-> x.job, i |-> x.i, seen |-> seen, row |-> row]

\* The worker w goes on, and nothing but its record and the tables changes.
Moves(w, x, y) ==
    /\ w \in Workers /\ x = work[w] /\ x.at # "idle"
    /\ work' = [work EXCEPT ![w] = y]
    /\ UNCHANGED <<engineVars, jobs, dropped, faults>>

\* The next trade of the loop, or the statement after it.
Round(x, y, loop, after) ==
    y = IF x.i < Len(x.job.trades) THEN After(x, loop, x.i + 1) ELSE After(x, after, 1)

\* The statements of persistTrades in order: the upsert of the order, the Trade rows, the
\* makers' rows, the positions, CRE, the volume.
OrderWritten(x, y) ==
    /\ x.at = "order"
    /\ y = After(x, AfterOrder(x.job), 1)
    /\ dbStatus' = [dbStatus EXCEPT ![x.job.order] = x.job.status]
    /\ UNCHANGED <<dbTrades, positions, volume, sent>>

TradesWritten(x, y) ==
    /\ x.at = "trades"
    /\ y = After(x, "maker", 1)
    /\ dbTrades' = dbTrades \union ToSet(x.job.trades)
    /\ UNCHANGED <<dbStatus, positions, volume, sent>>

MakerRead(x, y, m) ==
    /\ x.at = "maker"
    /\ m = x.job.trades[x.i].maker
    /\ y = Mid(x, "makerRow", IF m \in Orders THEN dbStatus[m] ELSE "none", x.row)
    /\ UNCHANGED dbVars

MakerWritten(x, y, t) ==
    /\ x.at = "makerRow"
    /\ t = x.job.trades[x.i]
    /\ Round(x, y, "maker", "buyer")
    /\ dbStatus' = IF x.seen \in {"none", "FILLED"} THEN dbStatus
                   ELSE [dbStatus EXCEPT ![t.maker] = MakerStatus(t.qty, order[t.maker].qty)]
    /\ UNCHANGED <<dbTrades, positions, volume, sent>>

RowRead(x, y, from, to, a) ==
    /\ x.at = from
    /\ \/ LongRows(a, ChainOf(x.job)) = {} /\ y = Mid(x, to, x.seen, NoRow)
       \/ \E i \in LongRows(a, ChainOf(x.job)) :
              y = Mid(x, to, x.seen, [id |-> i, amt |-> positions[i].amt])
    /\ UNCHANGED dbVars

\* A new row for the account a.
RowOf(x, a, side, amt) ==
    [acct |-> a, chain |-> ChainOf(x.job), side |-> side, open |-> TRUE, amt |-> amt]

BuyerWritten(x, y, t, a) ==
    /\ x.at = "buyerRow"
    /\ t = x.job.trades[x.i] /\ a = BuyerAcct(t)
    /\ y = After(x, "seller", x.i)
    /\ \/ a = NoAcct /\ UNCHANGED positions
       \/ a # NoAcct /\ x.row = NoRow /\ positions' = Append(positions, RowOf(x, a, "LONG", t.qty))
       \/ x.row # NoRow /\ positions' = [positions EXCEPT ![x.row.id].amt = x.row.amt + t.qty]
    /\ UNCHANGED <<dbStatus, dbTrades, volume, sent>>

SellerWritten(x, y, t, a) ==
    /\ x.at = "sellerRow"
    /\ t = x.job.trades[x.i] /\ a = SellerAcct(t)
    /\ \/ a = NoAcct /\ UNCHANGED positions /\ Round(x, y, "buyer", "cre")
       \/ /\ a # NoAcct /\ x.row = NoRow
          /\ positions' = Append(positions, RowOf(x, a, "SHORT", t.qty))
          /\ Round(x, y, "buyer", "cre")
       \/ /\ x.row # NoRow
          /\ positions' = AfterSale(x.row, t.qty)
          /\ IF t.qty > x.row.amt THEN y = Mid(x, "short", x.seen, x.row) ELSE Round(x, y, "buyer", "cre")
    /\ UNCHANGED <<dbStatus, dbTrades, volume, sent>>

ShortWritten(x, y, t, a) ==
    /\ x.at = "short"
    /\ t = x.job.trades[x.i] /\ a = SellerAcct(t)
    /\ positions' = Append(positions, RowOf(x, a, "SHORT", t.qty - x.row.amt))
    /\ Round(x, y, "buyer", "cre")
    /\ UNCHANGED <<dbStatus, dbTrades, volume, sent>>

CreCalled(x, y) ==
    /\ x.at = "cre"
    /\ y = After(x, "volume", 1)
    /\ sent' = [o \in Orders |-> sent[o] + UserSends(x.job, o) + AgentSends(x.job, o)]
    /\ UNCHANGED <<dbStatus, dbTrades, positions, volume>>

VolumeAdded(x, y) ==
    /\ x.at = "volume"
    /\ y = After(x, "done", 1)
    /\ volume' = volume + VolumeDelta(x.job)
    /\ UNCHANGED <<dbStatus, dbTrades, positions, sent>>

JobDone(x, y) ==
    /\ x.at = "done"
    /\ y = Idle
    /\ UNCHANGED dbVars

\* What one statement of persistTrades does.
Statement(x, y) ==
    \/ OrderWritten(x, y) \/ TradesWritten(x, y)
    \/ (\E m : MakerRead(x, y, m)) \/ (\E t : MakerWritten(x, y, t))
    \/ (\E a : a = BuyerAcct(x.job.trades[x.i]) /\ RowRead(x, y, "buyer", "buyerRow", a))
    \/ (\E t, a : BuyerWritten(x, y, t, a))
    \/ (\E a : a = SellerAcct(x.job.trades[x.i]) /\ RowRead(x, y, "seller", "sellerRow", a))
    \/ (\E t, a : SellerWritten(x, y, t, a)) \/ (\E t, a : ShortWritten(x, y, t, a))
    \/ CreCalled(x, y) \/ VolumeAdded(x, y) \/ JobDone(x, y)

\* Every step of a worker is one of these.
LEMMA PersistMoves ==
    ASSUME WorkInv, NEW w \in Workers, Persist(w), NEW x, x = work[w]
    PROVE  \E y : Moves(w, x, y) /\ Statement(x, y)
<1>0. /\ work \in [Workers -> WorkType] /\ x \in WorkType /\ WorkOK(x)
      /\ UNCHANGED <<engineVars, jobs, dropped, faults>>
  BY DEF WorkInv, Persist, faultVars
<1>type. x \in WorkType
  BY <1>0
<1>a. PICK A, B, C, D : x \in [at : A, job : B, i : Nat, seen : C, row : D]
  BY <1>type, ZenonT(60) DEF WorkType
<1>1. ASSUME NEW at, NEW i, Step(w, at, i)
      PROVE  work' = [work EXCEPT ![w] = After(x, at, i)]
  <2>1. PICK j : j = x.job
    OBVIOUS
  <2>2. PICK r : r = [Idle EXCEPT !.at = at, !.job = j, !.i = i]
    OBVIOUS
  <2>3. work' = [work EXCEPT ![w] = r]
    BY <1>1, <2>1, <2>2, Zenon DEF Step
  <2>4. r = [at |-> at, job |-> j, i |-> i, seen |-> "none", row |-> NoRow]
    BY <2>2 DEF Idle
  <2>. QED
    BY <2>1, <2>3, <2>4 DEF After
<1>2. ASSUME NEW y, work' = [work EXCEPT ![w] = y], x.at # "idle" PROVE Moves(w, x, y)
  BY <1>0, <1>2 DEF Moves
<1>3. ASSUME NEW loop, NEW after, NextRound(w, loop, after)
      PROVE  \E y : Round(x, y, loop, after) /\ work' = [work EXCEPT ![w] = y]
  BY <1>1, <1>3 DEF NextRound, Round, JobOf
<1>4. CASE WriteOrder(w)
  <2>1. work' = [work EXCEPT ![w] = After(x, AfterOrder(x.job), 1)]
    BY <1>1, <1>4 DEF WriteOrder, JobOf
  <2>2. x.at # "idle" /\ OrderWritten(x, After(x, AfterOrder(x.job), 1))
    BY <1>4 DEF WriteOrder, OrderWritten, JobOf
  <2>. QED
    BY <1>2, <2>1, <2>2 DEF Statement
<1>5. CASE WriteTrades(w)
  <2>1. work' = [work EXCEPT ![w] = After(x, "maker", 1)]
    BY <1>1, <1>5 DEF WriteTrades, JobOf
  <2>2. x.at # "idle" /\ TradesWritten(x, After(x, "maker", 1))
    BY <1>5 DEF WriteTrades, TradesWritten, JobOf, RowsOf
  <2>. QED
    BY <1>2, <2>1, <2>2 DEF Statement
<1>6. CASE ReadMaker(w)
  <2>1. PICK m : m = x.job.trades[x.i].maker
    OBVIOUS
  <2>2. PICK y : y = [x EXCEPT !.at = "makerRow", !.seen = IF m \in Orders THEN dbStatus[m] ELSE "none"]
    OBVIOUS
  <2>3. work' = [work EXCEPT ![w] = y]
    BY <1>0, <1>6, <2>1, <2>2 DEF ReadMaker, TradeAt, JobOf
  <2>5. y = Mid(x, "makerRow", IF m \in Orders THEN dbStatus[m] ELSE "none", x.row)
    BY <1>a, <2>2 DEF Mid
  <2>4. x.at # "idle" /\ MakerRead(x, y, m)
    BY <1>6, <2>1, <2>5 DEF ReadMaker, MakerRead
  <2>. QED
    BY <1>2, <2>3, <2>4 DEF Statement
<1>7. CASE WriteMaker(w)
  <2>1. PICK y : Round(x, y, "maker", "buyer") /\ work' = [work EXCEPT ![w] = y]
    BY <1>3, <1>7 DEF WriteMaker
  <2>2. PICK t : t = x.job.trades[x.i]
    OBVIOUS
  <2>3. x.at # "idle" /\ MakerWritten(x, y, t)
    BY <1>7, <2>1, <2>2 DEF WriteMaker, MakerWritten, TradeAt, JobOf
  <2>. QED
    BY <1>2, <2>1, <2>3 DEF Statement
<1>8. ASSUME NEW from, NEW to, NEW a, ReadLong(w, from, to, a)
      PROVE  \E y : RowRead(x, y, from, to, a) /\ work' = [work EXCEPT ![w] = y]
  <2>1. CASE LongRows(a, ChainOf(x.job)) = {} /\ work' = [work EXCEPT ![w].at = to, ![w].row = NoRow]
    <3>1. PICK y : y = [x EXCEPT !.at = to, !.row = NoRow]
      OBVIOUS
    <3>2. work' = [work EXCEPT ![w] = y]
      BY <1>0, <2>1, <3>1
    <3>4. y = Mid(x, to, x.seen, NoRow)
      BY <1>a, <3>1 DEF Mid
    <3>3. RowRead(x, y, from, to, a)
      BY <1>8, <2>1, <3>4 DEF ReadLong, RowRead
    <3>. QED
      BY <3>2, <3>3
  <2>2. ASSUME NEW i \in LongRows(a, ChainOf(x.job)),
               work' = [work EXCEPT ![w].at = to, ![w].row = [id |-> i, amt |-> positions[i].amt]]
        PROVE  \E y : RowRead(x, y, from, to, a) /\ work' = [work EXCEPT ![w] = y]
    <3>1. PICK y : y = [x EXCEPT !.at = to, !.row = [id |-> i, amt |-> positions[i].amt]]
      OBVIOUS
    <3>2. work' = [work EXCEPT ![w] = y]
      BY <1>0, <2>2, <3>1
    <3>4. y = Mid(x, to, x.seen, [id |-> i, amt |-> positions[i].amt])
      BY <1>a, <3>1 DEF Mid
    <3>3. RowRead(x, y, from, to, a)
      BY <1>8, <2>2, <3>4 DEF ReadLong, RowRead
    <3>. QED
      BY <3>2, <3>3
  <2>. QED
    BY <1>8, <2>1, <2>2 DEF ReadLong, JobOf
<1>9. CASE ReadBuyer(w)
  <2>1. PICK a : a = BuyerAcct(x.job.trades[x.i])
    OBVIOUS
  <2>2. ReadLong(w, "buyer", "buyerRow", a)
    BY <1>9, <2>1 DEF ReadBuyer, BuyerAcct, TradeAt, JobOf
  <2>3. PICK y : RowRead(x, y, "buyer", "buyerRow", a) /\ work' = [work EXCEPT ![w] = y]
    BY <1>8, <2>2
  <2>4. x.at # "idle"
    BY <2>3 DEF RowRead
  <2>. QED
    BY <1>2, <2>1, <2>3, <2>4 DEF Statement
<1>10. CASE WriteBuyer(w)
  <2>1. PICK t : t = x.job.trades[x.i]
    OBVIOUS
  <2>2. PICK a : a = BuyerAcct(t)
    OBVIOUS
  <2>3. PICK y : y = After(x, "seller", x.i)
    OBVIOUS
  <2>4. work' = [work EXCEPT ![w] = y]
    BY <1>1, <1>10, <2>3 DEF WriteBuyer
  <2>5. x.at # "idle" /\ BuyerWritten(x, y, t, a)
    BY <1>10, <2>1, <2>2, <2>3 DEF WriteBuyer, BuyerWritten, TradeAt, JobOf, BuyerAcct, NewRow, RowOf
  <2>. QED
    BY <1>2, <2>4, <2>5 DEF Statement
<1>11. CASE ReadSeller(w)
  <2>1. PICK a : a = SellerAcct(x.job.trades[x.i])
    OBVIOUS
  <2>2. ReadLong(w, "seller", "sellerRow", a)
    BY <1>11, <2>1 DEF ReadSeller, SellerAcct, TradeAt, JobOf
  <2>3. PICK y : RowRead(x, y, "seller", "sellerRow", a) /\ work' = [work EXCEPT ![w] = y]
    BY <1>8, <2>2
  <2>4. x.at # "idle"
    BY <2>3 DEF RowRead
  <2>. QED
    BY <1>2, <2>1, <2>3, <2>4 DEF Statement
<1>12. CASE WriteSeller(w)
  <2>1. PICK t : t = x.job.trades[x.i]
    OBVIOUS
  <2>2. PICK a : a = SellerAcct(t)
    OBVIOUS
  <2>3. /\ x.at = "sellerRow"
        /\ \/ a = NoAcct /\ UNCHANGED positions /\ NextRound(w, "buyer", "cre")
           \/ /\ a # NoAcct /\ x.row = NoRow
              /\ positions' = Append(positions, RowOf(x, a, "SHORT", t.qty))
              /\ NextRound(w, "buyer", "cre")
           \/ /\ x.row # NoRow
              /\ positions' = AfterSale(x.row, t.qty)
              /\ IF t.qty > x.row.amt THEN work' = [work EXCEPT ![w].at = "short"]
                 ELSE NextRound(w, "buyer", "cre")
        /\ UNCHANGED <<dbStatus, dbTrades, volume, sent>>
    BY <1>12, <2>1, <2>2 DEF WriteSeller, TradeAt, JobOf, SellerAcct, NewRow, RowOf
  <2>4. CASE NextRound(w, "buyer", "cre")
    <3>1. PICK y : Round(x, y, "buyer", "cre") /\ work' = [work EXCEPT ![w] = y]
      BY <1>3, <2>4
    <3>2. CASE x.row # NoRow /\ positions' = AfterSale(x.row, t.qty) /\ t.qty > x.row.amt
                   /\ work' = [work EXCEPT ![w].at = "short"]
      <4>1. PICK z : z = [x EXCEPT !.at = "short"]
        OBVIOUS
      <4>2. work' = [work EXCEPT ![w] = z]
        BY <1>0, <3>2, <4>1
      <4>4. z = Mid(x, "short", x.seen, x.row)
        BY <1>a, <4>1 DEF Mid
      <4>3. SellerWritten(x, z, t, a)
        BY <2>1, <2>2, <2>3, <3>2, <4>4 DEF SellerWritten
      <4>. QED
        BY <1>2, <2>3, <4>2, <4>3 DEF Statement
    <3>3. CASE ~(x.row # NoRow /\ positions' = AfterSale(x.row, t.qty) /\ t.qty > x.row.amt
                   /\ work' = [work EXCEPT ![w].at = "short"])
      <4>1. SellerWritten(x, y, t, a)
        BY <2>1, <2>2, <2>3, <3>1, <3>3 DEF SellerWritten
      <4>. QED
        BY <1>2, <2>3, <3>1, <4>1 DEF Statement
    <3>. QED
      BY <3>2, <3>3
  <2>5. CASE ~NextRound(w, "buyer", "cre")
    <3>1. x.row # NoRow /\ positions' = AfterSale(x.row, t.qty) /\ t.qty > x.row.amt
              /\ work' = [work EXCEPT ![w].at = "short"]
      BY <2>3, <2>5
    <3>2. PICK y : y = [x EXCEPT !.at = "short"]
      OBVIOUS
    <3>3. work' = [work EXCEPT ![w] = y]
      BY <1>0, <3>1, <3>2
    <3>5. y = Mid(x, "short", x.seen, x.row)
      BY <1>a, <3>2 DEF Mid
    <3>4. SellerWritten(x, y, t, a)
      BY <2>1, <2>2, <2>3, <3>1, <3>5 DEF SellerWritten
    <3>. QED
      BY <1>2, <2>3, <3>3, <3>4 DEF Statement
  <2>. QED
    BY <2>4, <2>5
<1>13. CASE WriteShort(w)
  <2>1. PICK t : t = x.job.trades[x.i]
    OBVIOUS
  <2>2. PICK a : a = SellerAcct(t)
    OBVIOUS
  <2>3. PICK y : Round(x, y, "buyer", "cre") /\ work' = [work EXCEPT ![w] = y]
    BY <1>3, <1>13 DEF WriteShort
  <2>4. x.at # "idle" /\ ShortWritten(x, y, t, a)
    BY <1>13, <2>1, <2>2, <2>3
       DEF WriteShort, ShortWritten, TradeAt, JobOf, SellerAcct, NewRow, RowOf, Uncovered
  <2>. QED
    BY <1>2, <2>3, <2>4 DEF Statement
<1>14. CASE Cre(w)
  <2>1. work' = [work EXCEPT ![w] = After(x, "volume", 1)]
    BY <1>1, <1>14 DEF Cre
  <2>2. x.at # "idle" /\ CreCalled(x, After(x, "volume", 1))
    BY <1>14, Zenon DEF Cre, CreCalled, JobOf
  <2>. QED
    BY <1>2, <2>1, <2>2 DEF Statement
<1>15. CASE AddVolume(w)
  <2>1. work' = [work EXCEPT ![w] = After(x, "done", 1)]
    BY <1>1, <1>15 DEF AddVolume
  <2>2. x.at # "idle" /\ VolumeAdded(x, After(x, "done", 1))
    BY <1>15, Zenon DEF AddVolume, VolumeAdded, JobOf
  <2>. QED
    BY <1>2, <2>1, <2>2 DEF Statement
<1>16. CASE Done(w)
  <2>1. work' = [work EXCEPT ![w] = Idle]
    BY <1>16 DEF Done
  <2>2. x.at # "idle" /\ JobDone(x, Idle)
    BY <1>16 DEF Done, JobDone
  <2>. QED
    BY <1>2, <2>1, <2>2 DEF Statement
<1>. QED
  BY <1>4, <1>5, <1>6, <1>7, <1>9, <1>10, <1>11, <1>12, <1>13, <1>14, <1>15, <1>16 DEF Persist

\* What the engine and the route say stays as it is.
LEMMA EngineSame ==
    ASSUME UNCHANGED engineVars
    PROVE  /\ order' = order /\ Recorded' = Recorded /\ AllTrades' = AllTrades /\ direct' = direct
           /\ \A o : /\ TradesOf(o)' = TradesOf(o) /\ Made(o)' = Made(o) /\ Result(o)' = Result(o)
                     /\ ByContract(o)' = ByContract(o)
           /\ \A j : JobOK(j)' <=> JobOK(j)
           /\ \A t : BuyerAcct(t)' = BuyerAcct(t) /\ SellerAcct(t)' = SellerAcct(t)
           /\ \A j : ChainOf(j)' = ChainOf(j)
<1>1. /\ order' = order /\ rem' = rem /\ status' = status /\ trades' = trades
      /\ platformFilled' = platformFilled /\ direct' = direct
  BY DEF engineVars, bookVars, routeVars
<1>2. Recorded' = Recorded /\ \A o : Made(o)' = Made(o) /\ Result(o)' = Result(o)
  BY <1>1 DEF Recorded, Made, Result, ResultStatus
<1>3. \A o : TradesOf(o)' = TradesOf(o)
  BY <1>1 DEF TradesOf, ContractTrade, ResultTrades, PlatformTrade, PlatformPrice, BookTrades
<1>4. AllTrades' = AllTrades
  BY <1>2, <1>3 DEF AllTrades
<1>5. ASSUME NEW j PROVE JobOK(j)' <=> JobOK(j)
  <2>1. PICK o : o = j.order
    OBVIOUS
  <2>2. TradesOf(o)' = TradesOf(o) /\ Made(o)' = Made(o) /\ Result(o)' = Result(o)
    BY <1>2, <1>3
  <2>. QED
    BY <1>2, <2>1, <2>2 DEF JobOK
<1>6. \A t : BuyerAcct(t)' = BuyerAcct(t) /\ SellerAcct(t)' = SellerAcct(t)
  BY <1>1 DEF BuyerAcct, SellerAcct, Buyer, Seller, Acct
<1>7. (\A j : ChainOf(j)' = ChainOf(j)) /\ \A o : ByContract(o)' = ByContract(o)
  BY <1>1 DEF ChainOf, ByContract
<1>. QED
  BY <1>1, <1>2, <1>3, <1>4, <1>5, <1>6, <1>7

----------------------------------------------------------------------------
\* What is known of the worker that takes the step.
Running(w, x, y) ==
    /\ BooksInv /\ ListInv /\ JobsInv /\ WorkInv /\ TablesInv
    /\ taker = NoOrder
    /\ Moves(w, x, y)

\* The people of the orders.
LEMMA WhoIs ==
    ASSUME BooksInv, NEW o \in Orders
    PROVE  order[o] \in OrderInput /\ order[o].who \in Parties /\ order[o].who \in Party
<1>1. order[o] \in OrderInput
  BY DEF BooksInv, ShelfInv, TypeOK
<1>2. order[o].who \in Parties
  BY <1>1 DEF OrderInput
<1>. QED
  BY <1>1, <1>2, PartyAssumption

\* The accounts of a trade are ones that a row can have.
LEMMA AcctsAre ==
    ASSUME BooksInv, NEW t, Known(t)
    PROVE  /\ BuyerAcct(t) \in RowAccts
           /\ SellerAcct(t) \in RowAccts
<1>1. ASSUME NEW o \in Orders \union {Platform, Contract}
      PROVE  Acct(o) \in RowAccts
  <2>1. CASE o \in {Platform, Contract}
    BY <2>1 DEF Acct, RowAccts
  <2>2. CASE o \notin {Platform, Contract}
    <3>1. order[o].who \in Parties /\ Acct(o) = order[o].who.acct
      BY <1>1, <2>2, WhoIs DEF Acct
    <3>. QED
      BY <3>1 DEF RowAccts
  <2>. QED
    BY <2>1, <2>2
<1>2. t.taker \in Orders /\ t.maker \in Orders \union {Platform, Contract}
  BY DEF Known, Recorded
<1>3. Buyer(t) \in Orders \union {Platform, Contract} /\ Seller(t) \in Orders \union {Platform, Contract}
  BY <1>2 DEF Buyer, Seller
<1>. QED
  BY <1>1, <1>3 DEF BuyerAcct, SellerAcct

\* What is known of the worker's record and of its job.
LEMMA RunningFacts ==
    ASSUME NEW w, NEW x, NEW y, Running(w, x, y)
    PROVE  /\ w \in Workers /\ x = work[w] /\ x.at # "idle"
           /\ work \in [Workers -> WorkType] /\ work' = [work EXCEPT ![w] = y]
           /\ x \in WorkType /\ WorkOK(x) /\ x.job \in JobType /\ JobOK(x.job) /\ JobOK(x.job)'
           /\ x.job.trades \in Seq(JobTrade) /\ Len(x.job.trades) \in Nat
           /\ x.job.order \in Recorded /\ x.job.order \in Orders
           /\ ChainOf(x.job) \in {"main", "tenderly"}
           /\ \A t \in ToSet(x.job.trades) :
                 /\ Known(t) /\ t \in AllTrades /\ t.taker = x.job.order
                 /\ t.qty \in Nat /\ t.price \in Nat
           /\ UNCHANGED engineVars /\ jobs' = jobs /\ dropped' = dropped /\ faults' = faults
           /\ BooksInv' /\ ListInv' /\ JobsInv' /\ taker' = NoOrder
<1>1. /\ BooksInv /\ ListInv /\ JobsInv /\ WorkInv /\ TablesInv /\ taker = NoOrder
      /\ w \in Workers /\ x = work[w] /\ x.at # "idle" /\ work' = [work EXCEPT ![w] = y]
      /\ UNCHANGED engineVars /\ jobs' = jobs /\ dropped' = dropped /\ faults' = faults
  BY DEF Running, Moves
<1>2. work \in [Workers -> WorkType] /\ x \in WorkType /\ WorkOK(x)
  BY <1>1 DEF WorkInv
<1>3. JobOK(x.job)
  BY <1>1, <1>2 DEF WorkOK
<1>4. /\ x.job \in JobType /\ x.job.order \in Recorded /\ x.job.order \in Orders
      /\ x.job.trades \in Seq(JobTrade) /\ Len(x.job.trades) \in Nat
  BY <1>3 DEF JobOK, JobType, Recorded
<1>5. \A t \in ToSet(x.job.trades) : Known(t) /\ t.taker = x.job.order /\ t \in AllTrades
  BY <1>1, <1>3, KnownTrades
<1>6. \A t \in ToSet(x.job.trades) : t.qty \in Nat /\ t.price \in Nat
  BY <1>5 DEF Known, JobTrade
<1>7. ChainOf(x.job) \in {"main", "tenderly"}
  BY <1>1, <1>4, WhoIs DEF ChainOf, Party
<1>8. \A j : JobOK(j)' <=> JobOK(j)
  BY <1>1, EngineSame
<1>9. JobsInv'
  BY <1>1, <1>8 DEF JobsInv
<1>10. taker' = NoOrder /\ trades' = trades
  BY <1>1 DEF engineVars, bookVars
<1>11. BooksInv' /\ ListInv'
  BY <1>1, <1>10, BooksSame, ListSame
<1>. QED
  BY <1>1, <1>2, <1>3, <1>4, <1>5, <1>6, <1>7, <1>8, <1>9, <1>10, <1>11

\* The trade it is at.
LEMMA RunningTrade ==
    ASSUME NEW w, NEW x, NEW y, Running(w, x, y), x.at \in Looping, NEW t, t = x.job.trades[x.i]
    PROVE  /\ x.i \in 1..Len(x.job.trades) /\ x.i \in Nat
           /\ t \in ToSet(x.job.trades) /\ Known(t) /\ t \in AllTrades
           /\ t.qty \in Nat /\ t.price \in Nat
           /\ BuyerAcct(t) \in RowAccts
           /\ SellerAcct(t) \in RowAccts
           /\ ToSet(x.job.trades) \subseteq dbTrades
<1>1. x \in WorkType /\ WorkOK(x) /\ x.job.trades \in Seq(JobTrade) /\ Len(x.job.trades) \in Nat
  BY RunningFacts
<1>2. t \in ToSet(x.job.trades)
  BY <1>1, AtTrade
<1>3. Known(t) /\ t \in AllTrades /\ t.qty \in Nat /\ t.price \in Nat
  BY <1>2, RunningFacts
<1>4. BooksInv
  BY DEF Running
<1>5. x.i \in 1..Len(x.job.trades) /\ x.i \in Nat /\ ToSet(x.job.trades) \subseteq dbTrades
  BY <1>1 DEF WorkOK, Written
<1>. QED
  BY <1>2, <1>3, <1>4, <1>5, AcctsAre

\* A record at another statement of the same job.
LEMMA AfterFits ==
    ASSUME NEW w, NEW x, NEW y, Running(w, x, y), NEW at, NEW i \in Nat, y = After(x, at, i),
           at \in (Written \ {"short"}) \union {"trades"},
           IF at \in Looping THEN i \in 1..Len(x.job.trades) ELSE i \in {0, 1},
           at = "trades" => x.job.trades # << >>,
           at \in Written => ToSet(x.job.trades) \subseteq dbTrades'
    PROVE  y \in WorkType /\ WorkOK(y)' /\ y.job = x.job /\ y.at # "idle"
<1>1. x.job \in JobType /\ JobOK(x.job)'
  BY RunningFacts
<1>2. /\ y.at = at /\ y.job = x.job /\ y.i = i /\ y.seen = "none" /\ y.row = NoRow
      /\ y = [at |-> at, job |-> x.job, i |-> i, seen |-> "none", row |-> NoRow]
  BY DEF After
<1>3. y \in WorkType
  BY <1>1, <1>2 DEF WorkType, NoRow, Written
<1>4. WorkOK(y)'
  BY <1>1, <1>2 DEF WorkOK, Written, Looping
<1>. QED
  BY <1>2, <1>3, <1>4 DEF Written, Looping

\* The next round of a loop, or what follows it.
LEMMA RoundFits ==
    ASSUME NEW w, NEW x, NEW y, Running(w, x, y), x.at \in Looping, dbTrades' = dbTrades,
           NEW loop \in {"maker", "buyer"}, NEW after \in {"buyer", "cre"}, Round(x, y, loop, after)
    PROVE  y \in WorkType /\ WorkOK(y)' /\ y.job = x.job /\ y.at # "idle"
<1>1. x.i \in 1..Len(x.job.trades) /\ ToSet(x.job.trades) \subseteq dbTrades' /\ Len(x.job.trades) \in Nat
  BY RunningTrade, RunningFacts
<1>2. CASE x.i < Len(x.job.trades)
  <2>1. y = After(x, loop, x.i + 1)
    BY <1>2 DEF Round
  <2>2. /\ x.i + 1 \in Nat /\ loop \in (Written \ {"short"}) \union {"trades"}
        /\ IF loop \in Looping THEN x.i + 1 \in 1..Len(x.job.trades) ELSE x.i + 1 \in {0, 1}
        /\ loop = "trades" => x.job.trades # << >>
    BY <1>1, <1>2 DEF Written, Looping
  <2>. QED
    BY <1>1, <2>1, <2>2, AfterFits
<1>3. CASE ~(x.i < Len(x.job.trades))
  <2>1. y = After(x, after, 1)
    BY <1>3 DEF Round
  <2>2. /\ 1 \in Nat /\ after \in (Written \ {"short"}) \union {"trades"}
        /\ IF after \in Looping THEN 1 \in 1..Len(x.job.trades) ELSE 1 \in {0, 1}
        /\ after = "trades" => x.job.trades # << >>
    BY <1>1, <1>3 DEF Written, Looping
  <2>. QED
    BY <1>1, <2>1, <2>2, AfterFits
<1>. QED
  BY <1>2, <1>3

----------------------------------------------------------------------------
\* The tables after a step of a worker.
LEMMA TablesStep ==
    ASSUME NEW w, NEW x, NEW y, Running(w, x, y),
           dbStatus' \in [Orders -> Status \union {"none"}],
           \A o \in Orders : dbStatus'[o] # "none" => o \in Recorded,
           \A o \in Orders : dbStatus'[o] = "FILLED" => Result(o) = "FILLED",
           dbTrades' \subseteq AllTrades, positions' \in Seq(RowType),
           volume' \in Nat, sent' \in [Orders -> Nat]
    PROVE  TablesInv'
<1>1. UNCHANGED engineVars /\ dropped' = dropped /\ faults' = faults
  BY RunningFacts
<1>2. Recorded' = Recorded /\ AllTrades' = AllTrades /\ \A o : Result(o)' = Result(o)
  BY <1>1, EngineSame
<1>3. routing' = routing /\ direct' = direct /\ platformFilled' = platformFilled
  BY <1>1 DEF engineVars, routeVars
<1>4. TablesInv
  BY DEF Running
<1>. QED
  BY <1>1, <1>2, <1>3, <1>4 DEF TablesInv

\* What a statement leaves in order.
Fits(x, y) ==
    /\ y \in WorkType /\ WorkOK(y)'
    /\ TablesInv'
    /\ dbTrades \subseteq dbTrades' /\ DOMAIN positions \subseteq DOMAIN positions'
    /\ \/ y.job = x.job /\ y.at # "idle"
       \/ x.at = "done" /\ y = Idle

\* The order's row is written.
LEMMA OrderFits ==
    ASSUME NEW w, NEW x, NEW y, Running(w, x, y), OrderWritten(x, y)
    PROVE  Fits(x, y)
<1>1. /\ x.job \in JobType /\ JobOK(x.job) /\ x.job.order \in Recorded /\ x.job.order \in Orders
      /\ x.job.trades \in Seq(JobTrade)
  BY RunningFacts
<1>2. PICK o, s : o = x.job.order /\ s = x.job.status
  OBVIOUS
<1>3. dbStatus' = [dbStatus EXCEPT ![o] = s] /\ UNCHANGED <<dbTrades, positions, volume, sent>>
  BY <1>2 DEF OrderWritten
<1>4. s \in Status /\ (s = "FILLED" => Result(o) = "FILLED") /\ s # "none"
  BY <1>1, <1>2 DEF JobOK, JobType, RestingStatus, Status, TerminalStatus
<1>5. TablesInv
  BY DEF Running
<1>6. TablesInv'
  <2>1. dbStatus' \in [Orders -> Status \union {"none"}]
    BY <1>3, <1>4, <1>5 DEF TablesInv
  <2>2. \A p \in Orders : dbStatus'[p] = IF p = o THEN s ELSE dbStatus[p]
    BY <1>3, <1>5 DEF TablesInv
  <2>3. /\ \A p \in Orders : dbStatus'[p] # "none" => p \in Recorded
        /\ \A p \in Orders : dbStatus'[p] = "FILLED" => Result(p) = "FILLED"
    BY <1>1, <1>2, <1>4, <1>5, <2>2 DEF TablesInv
  <2>. QED
    BY <1>3, <1>5, <2>1, <2>3, TablesStep DEF TablesInv
<1>7. CASE x.job.trades = << >>
  <2>1. y = After(x, "done", 1)
    BY <1>7 DEF OrderWritten, AfterOrder
  <2>2. ToSet(x.job.trades) \subseteq dbTrades'
    BY <1>7 DEF ToSet
  <2>3. y \in WorkType /\ WorkOK(y)' /\ y.job = x.job /\ y.at # "idle"
    BY <2>1, <2>2, AfterFits DEF Written, Looping
  <2>. QED
    BY <1>3, <1>6, <2>3 DEF Fits
<1>8. CASE x.job.trades # << >>
  <2>1. y = After(x, "trades", 1)
    BY <1>8 DEF OrderWritten, AfterOrder
  <2>2. y \in WorkType /\ WorkOK(y)' /\ y.job = x.job /\ y.at # "idle"
    BY <1>8, <2>1, AfterFits DEF Written, Looping
  <2>. QED
    BY <1>3, <1>6, <2>2 DEF Fits
<1>. QED
  BY <1>7, <1>8

\* The trades' rows are written.
LEMMA TradesFit ==
    ASSUME NEW w, NEW x, NEW y, Running(w, x, y), TradesWritten(x, y)
    PROVE  Fits(x, y)
<1>1. /\ x \in WorkType /\ WorkOK(x) /\ \A t \in ToSet(x.job.trades) : t \in AllTrades
      /\ x.job.trades \in Seq(JobTrade) /\ Len(x.job.trades) \in Nat
  BY RunningFacts
<1>2. dbTrades' = dbTrades \union ToSet(x.job.trades) /\ UNCHANGED <<dbStatus, positions, volume, sent>>
  BY DEF TradesWritten
<1>3. TablesInv
  BY DEF Running
<1>4. TablesInv'
  BY <1>1, <1>2, <1>3, TablesStep DEF TablesInv
<1>5. x.job.trades # << >> /\ x.at = "trades"
  BY <1>1 DEF TradesWritten, WorkOK
<1>6. 1 \in 1..Len(x.job.trades)
  BY <1>1, <1>5
<1>7. y = After(x, "maker", 1)
  BY DEF TradesWritten
<1>8. y \in WorkType /\ WorkOK(y)' /\ y.job = x.job /\ y.at # "idle"
  BY <1>2, <1>6, <1>7, AfterFits DEF Written, Looping
<1>. QED
  BY <1>2, <1>4, <1>8 DEF Fits

\* Reads leave the tables alone.
LEMMA ReadTables ==
    ASSUME NEW w, NEW x, NEW y, Running(w, x, y), UNCHANGED dbVars
    PROVE  TablesInv' /\ dbTrades' = dbTrades /\ positions' = positions
<1>1. TablesInv /\ UNCHANGED <<dbStatus, dbTrades, positions, volume, sent>>
  BY DEF Running, dbVars
<1>. QED
  BY <1>1, TablesStep DEF TablesInv

\* A record in the middle of a read and a write.
LEMMA MidType ==
    ASSUME NEW x \in WorkType, NEW at \in Written, NEW s \in Status \union {"none"},
           NEW r \in [id : Nat, amt : Nat], NEW y, y = Mid(x, at, s, r)
    PROVE  y \in WorkType /\ y.at = at /\ y.job = x.job /\ y.i = x.i /\ y.seen = s /\ y.row = r
BY DEF Mid, WorkType

\* The fields it keeps.
LEMMA WorkFields ==
    ASSUME NEW x \in WorkType
    PROVE  x.seen \in Status \union {"none"} /\ x.row \in [id : Nat, amt : Nat]
BY DEF WorkType

\* A maker's row is read.
LEMMA MakerReadFits ==
    ASSUME NEW w, NEW x, NEW y, NEW m, Running(w, x, y), MakerRead(x, y, m)
    PROVE  Fits(x, y)
<1>1. x.at = "maker" /\ x.at \in Looping /\ UNCHANGED dbVars /\ m = x.job.trades[x.i].maker
  BY DEF MakerRead, Looping
<1>2. TablesInv' /\ dbTrades' = dbTrades /\ positions' = positions
  BY <1>1, ReadTables
<1>3. x \in WorkType /\ WorkOK(x) /\ JobOK(x.job)'
  BY RunningFacts
<1>4. x.i \in 1..Len(x.job.trades) /\ ToSet(x.job.trades) \subseteq dbTrades
  BY <1>1, RunningTrade
<1>5. PICK s : s = IF m \in Orders THEN dbStatus[m] ELSE "none"
  OBVIOUS
<1>6. s \in Status \union {"none"} /\ (s # "none" => m \in Orders)
  BY <1>5 DEF Running, TablesInv
<1>7. y = Mid(x, "makerRow", s, x.row)
  BY <1>5 DEF MakerRead
<1>8. /\ y \in WorkType /\ y.at = "makerRow" /\ y.job = x.job /\ y.i = x.i /\ y.seen = s /\ y.row = x.row
  <2>1. "makerRow" \in Written
    BY DEF Written, Looping
  <2>. QED
    BY <1>3, <1>6, <1>7, <2>1, WorkFields, MidType
<1>9. WorkOK(y)'
  BY <1>1, <1>2, <1>3, <1>4, <1>6, <1>8 DEF WorkOK, Written, Looping
<1>. QED
  BY <1>2, <1>8, <1>9 DEF Fits

\* A position is read.
LEMMA RowReadFits ==
    ASSUME NEW w, NEW x, NEW y, NEW from \in {"buyer", "seller"}, NEW to \in {"buyerRow", "sellerRow"},
           NEW a, Running(w, x, y), RowRead(x, y, from, to, a)
    PROVE  Fits(x, y)
<1>1. x.at = from /\ x.at \in Looping /\ UNCHANGED dbVars
  BY DEF RowRead, Looping
<1>2. TablesInv' /\ dbTrades' = dbTrades /\ positions' = positions
  BY <1>1, ReadTables
<1>3. x \in WorkType /\ WorkOK(x) /\ JobOK(x.job)'
  BY RunningFacts
<1>4. x.i \in 1..Len(x.job.trades) /\ ToSet(x.job.trades) \subseteq dbTrades
  BY <1>1, RunningTrade
<1>5. PICK r : /\ r \in [id : Nat, amt : Nat] /\ (r = NoRow \/ r.id \in DOMAIN positions)
               /\ y = Mid(x, to, x.seen, r)
  <2>1. CASE y = Mid(x, to, x.seen, NoRow)
    <3>1. NoRow \in [id : Nat, amt : Nat]
      BY DEF NoRow
    <3>. QED
      BY <2>1, <3>1
  <2>2. ASSUME NEW i \in LongRows(a, ChainOf(x.job)),
               y = Mid(x, to, x.seen, [id |-> i, amt |-> positions[i].amt])
        PROVE  \E r : /\ r \in [id : Nat, amt : Nat] /\ (r = NoRow \/ r.id \in DOMAIN positions)
                      /\ y = Mid(x, to, x.seen, r)
    <3>1. i \in DOMAIN positions /\ positions \in Seq(RowType)
      BY DEF LongRows, Running, TablesInv
    <3>6. i \in Nat /\ positions[i] \in RowType
      BY <3>1
    <3>2. i \in Nat /\ positions[i].amt \in Nat
      BY <3>6 DEF RowType
    <3>3. PICK r : r = [id |-> i, amt |-> positions[i].amt]
      BY Zenon
    <3>4. r \in [id : Nat, amt : Nat] /\ r.id = i
      BY <3>2, <3>3
    <3>5. y = Mid(x, to, x.seen, r)
      BY <2>2, <3>3, Zenon
    <3>. QED
      BY <3>1, <3>4, <3>5
  <2>. QED
    BY <2>1, <2>2 DEF RowRead
<1>6. /\ y \in WorkType /\ y.at = to /\ y.job = x.job /\ y.i = x.i /\ y.row = r
  <2>1. to \in Written
    BY DEF Written, Looping
  <2>. QED
    BY <1>3, <1>5, <2>1, WorkFields, MidType
<1>7. WorkOK(y)'
  BY <1>1, <1>2, <1>3, <1>4, <1>5, <1>6 DEF WorkOK, Written, Looping
<1>. QED
  BY <1>2, <1>6, <1>7 DEF Fits

\* An order that a single fill covers has been filled.
LEMMA MakerIsFilled ==
    ASSUME BooksInv, ListInv, NEW t \in AllTrades, t.maker \in Orders
    PROVE  /\ t.maker \in Recorded /\ order[t.maker].qty \in Int
           /\ t.qty >= order[t.maker].qty => Result(t.maker) = "FILLED"
<1>1. PICK m : m = t.maker
  OBVIOUS
<1>2. m \in Orders /\ m \in Recorded /\ t \in ToSet(trades) /\ t \in JobTrade
  BY <1>1, AllTradesAre
<1>3. PICK i \in DOMAIN trades : t = trades[i]
  BY <1>2 DEF ToSet
<1>4. /\ order[m].type = "LIMIT" /\ Accepted(m) /\ status[m] \in {"PARTIALLY_FILLED", "FILLED"}
  BY <1>1, <1>3 DEF BooksInv, FillsInv, TradeOK
<1>5. StatusOK(m) /\ PlatformOK(m) /\ QtySum(TradesWith(m)) = order[m].qty - rem[m]
  BY <1>2, <1>4 DEF BooksInv, FillsInv
<1>6. m # taker /\ (status[m] = "FILLED" <=> rem[m] = 0) /\ rem[m] \in Nat /\ order[m].qty \in Int
  <2>1. taker # NoOrder => status[taker] = "PENDING"
    BY DEF BooksInv, ShelfInv
  <2>2. m # taker
    BY <1>2, <1>4, <2>1, NoOrderAssumption
  <2>. QED
    BY <1>2, <1>4, <1>5, <2>2, WhoIs DEF StatusOK, BooksInv, ShelfInv, TypeOK, OrderInput
<1>7. t \in TradesWith(m) /\ TradesWith(m) \in SUBSET ToSet(trades)
  BY <1>1, <1>2 DEF TradesWith
<1>8. IsFiniteSet(TradesWith(m)) /\ \A s \in TradesWith(m) : s.qty \in Nat
  <2>1. trades \in Seq(Trade)
    BY DEF BooksInv, ShelfInv, TypeOK
  <2>2. IsFiniteSet(ToSet(trades)) /\ ToSet(trades) \in SUBSET Trade
    BY <2>1, SeqIsFinite
  <2>. QED
    BY <1>7, <2>2, FS_Subset DEF Trade
<1>9. t.qty <= QtySum(TradesWith(m)) /\ t.qty \in Nat
  BY <1>7, <1>8, QtySumCovers
<1>10. t.qty >= order[m].qty => rem[m] = 0
  BY <1>5, <1>6, <1>9
<1>11. Result(m) = status[m]
  BY <1>4, <1>5 DEF PlatformOK, Result, ResultStatus
<1>. QED
  BY <1>1, <1>2, <1>6, <1>10, <1>11

\* A maker's row is written.
LEMMA MakerWrittenFits ==
    ASSUME NEW w, NEW x, NEW y, NEW t, Running(w, x, y), MakerWritten(x, y, t)
    PROVE  Fits(x, y)
<1>1. x.at = "makerRow" /\ x.at \in Looping /\ t = x.job.trades[x.i] /\ UNCHANGED <<dbTrades, positions, volume, sent>>
  BY DEF MakerWritten, Looping
<1>2. t \in AllTrades /\ t.qty \in Nat
  BY <1>1, RunningTrade
<1>3. y \in WorkType /\ WorkOK(y)' /\ y.job = x.job /\ y.at # "idle"
  BY <1>1, RoundFits DEF MakerWritten
<1>4. TablesInv /\ BooksInv /\ ListInv
  BY DEF Running
<1>5. TablesInv'
  <2>1. CASE x.seen \in {"none", "FILLED"}
    <3>1. dbStatus' = dbStatus
      BY <2>1 DEF MakerWritten
    <3>. QED
      BY <1>1, <1>4, <3>1, TablesStep DEF TablesInv
  <2>2. CASE x.seen \notin {"none", "FILLED"}
    <3>1. PICK m, s : m = t.maker /\ s = MakerStatus(t.qty, order[m].qty)
      OBVIOUS
    <3>2. dbStatus' = [dbStatus EXCEPT ![m] = s]
      BY <2>2, <3>1, Zenon DEF MakerWritten
    <3>3. m \in Orders
      BY <1>1, <2>2, <3>1, RunningFacts DEF WorkOK
    <3>4. m \in Recorded /\ (s = "FILLED" => Result(m) = "FILLED") /\ s \in Status /\ s # "none"
      <4>1. m \in Recorded /\ order[m].qty \in Int /\ (t.qty >= order[m].qty => Result(m) = "FILLED")
        BY <1>2, <1>4, <3>1, <3>3, MakerIsFilled
      <4>. QED
        BY <1>2, <3>1, <4>1 DEF MakerStatus, Status, RestingStatus, TerminalStatus
    <3>5. dbStatus' \in [Orders -> Status \union {"none"}]
      BY <1>4, <3>2, <3>4 DEF TablesInv
    <3>6. \A p \in Orders : dbStatus'[p] = IF p = m THEN s ELSE dbStatus[p]
      BY <1>4, <3>2 DEF TablesInv
    <3>7. /\ \A p \in Orders : dbStatus'[p] # "none" => p \in Recorded
          /\ \A p \in Orders : dbStatus'[p] = "FILLED" => Result(p) = "FILLED"
      BY <1>4, <3>4, <3>6 DEF TablesInv
    <3>. QED
      BY <1>1, <1>4, <3>5, <3>7, TablesStep DEF TablesInv
  <2>. QED
    BY <2>1, <2>2
<1>. QED
  BY <1>1, <1>3, <1>5 DEF Fits

----------------------------------------------------------------------------
(* What a job adds to the volume. *)

\* The fold of VolumeDelta, and the numbers it adds up.
IsVolumes(g, tr, n) ==
    g = [s \in SUBSET (1..n) |->
            IF s = {} THEN 0 ELSE g[s \ {Max(s)}] + tr[Max(s)].qty * tr[Max(s)].price]

Priced(tr, n) == [i \in 1..n |-> tr[i].qty * tr[i].price]

\* It is the table of the totals of the prices of the trades.
LEMMA VolumesAre ==
    ASSUME NEW n \in Nat, NEW tr, NEW g
    PROVE  IsVolumes(g, tr, n) <=> IsTotals(g, Priced(tr, n), n)
<1>1. ASSUME NEW s \in SUBSET (1..n)
      PROVE  (IF s = {} THEN 0 ELSE g[s \ {Max(s)}] + tr[Max(s)].qty * tr[Max(s)].price)
           = (IF s = {} THEN 0 ELSE g[s \ {Max(s)}] + Priced(tr, n)[Max(s)])
  <2>1. CASE s = {}
    BY <2>1
  <2>2. CASE s # {}
    <3>1. Max(s) \in 1..n
      BY <2>2, MaxIs
    <3>2. Priced(tr, n)[Max(s)] = tr[Max(s)].qty * tr[Max(s)].price
      BY <3>1, Zenon DEF Priced
    <3>. QED
      BY <2>2, <3>2, Zenon
  <2>. QED
    BY <2>1, <2>2
<1>2. [s \in SUBSET (1..n) |->
          IF s = {} THEN 0 ELSE g[s \ {Max(s)}] + tr[Max(s)].qty * tr[Max(s)].price]
    = [s \in SUBSET (1..n) |->
          IF s = {} THEN 0 ELSE g[s \ {Max(s)}] + Priced(tr, n)[Max(s)]]
  BY <1>1, Zenon
<1>. QED
  BY <1>2, Zenon DEF IsVolumes, IsTotals

\* A product of naturals.
LEMMA ProductIsNat == \A a, b \in Nat : a * b \in Nat
OBVIOUS

\* The trades of a prefix.
Leading(tr, k) == {tr[i] : i \in 1..k}

\* It adds what the trades cost, to whatever the others have cost.
LEMMA VolumeIs ==
    ASSUME NEW j, j.trades \in Seq(JobTrade), IsInjective(j.trades),
           NEW D, IsFiniteSet(D), \A x \in D : x.price * x.qty \in Nat /\ x \notin ToSet(j.trades),
           CostSum(D) \in Nat
    PROVE  CostSum(D \union ToSet(j.trades)) = CostSum(D) + VolumeDelta(j) /\ VolumeDelta(j) \in Nat
<1>1. PICK tr, n : tr = j.trades /\ n = Len(tr)
  OBVIOUS
<1>2. /\ tr \in Seq(JobTrade) /\ n \in Nat /\ DOMAIN tr = 1..n
      /\ \A i, k \in 1..n : tr[i] = tr[k] => i = k
      /\ \A i \in 1..n : tr[i] \in JobTrade
  BY <1>1 DEF IsInjective
<1>3. \A i \in 1..n : tr[i].qty \in Nat /\ tr[i].price \in Nat
  BY <1>2 DEF JobTrade
<1>4. VolumeDelta(j) = (CHOOSE g : IsVolumes(g, tr, n))[1..n]
  <2>1. VolumeDelta(j) = (CHOOSE g : g = [s \in SUBSET DOMAIN tr |-> IF s = {} THEN 0
            ELSE g[s \ {Max(s)}] + tr[Max(s)].qty * tr[Max(s)].price])[DOMAIN tr]
    BY <1>1, Zenon DEF VolumeDelta, FoldLeft, MapThenFoldSet
  <2>. QED
    BY <1>2, <2>1, Zenon DEF IsVolumes
<1>5. PICK g : g = CHOOSE h : IsVolumes(h, tr, n)
  OBVIOUS
<1>6. PICK q : q = Priced(tr, n)
  OBVIOUS
<1>7. \E h : IsVolumes(h, tr, n)
  <2>1. PICK h : IsTotals(h, Priced(tr, n), n)
    BY <1>2, TotalsExist
  <2>. QED
    BY <1>2, <2>1, VolumesAre, Zenon
<1>8. IsVolumes(g, tr, n)
  BY <1>5, <1>7, Zenon
<1>9. IsTotals(g, q, n)
  BY <1>2, <1>6, <1>8, VolumesAre, Zenon
<1>10. g[1..0] = 0 /\ \A k \in 0..(n - 1) : g[1..(k + 1)] = g[1..k] + q[k + 1]
  BY <1>2, <1>9, TotalsOfPrefix
<1>11. IsFiniteSet(ToSet(tr)) /\ ToSet(tr) = Leading(tr, n)
  <2>1. ToSet(tr) = Leading(tr, n)
    BY <1>2 DEF ToSet, Leading
  <2>. QED
    BY <1>2, <2>1, SeqIsFinite
<1>. DEFINE S == {k \in Nat : k <= n => /\ CostSum(D \union Leading(tr, k)) = CostSum(D) + g[1..k]
                                        /\ g[1..k] \in Nat}
<1>12. 0 \in S
  <2>1. D \union Leading(tr, 0) = D
    BY DEF Leading
  <2>2. g[1..0] = 0
    BY <1>10
  <2>3. CostSum(D \union Leading(tr, 0)) = CostSum(D)
    BY <2>1, Zenon
  <2>4. PICK c, e, z : c = CostSum(D) /\ e = CostSum(D \union Leading(tr, 0)) /\ z = g[1..0]
    OBVIOUS
  <2>7. c \in Nat /\ e = c /\ z = 0
    BY <2>2, <2>3, <2>4, Zenon
  <2>8. e = c + z
    BY <2>7
  <2>5. CostSum(D \union Leading(tr, 0)) = CostSum(D) + g[1..0]
    BY <2>4, <2>8, Zenon
  <2>6. g[1..0] \in Nat /\ 0 \in Nat
    BY <2>2
  <2>. QED
    BY <2>5, <2>6, Zenon
<1>13. \A k \in S : k + 1 \in S
  <2>. DEFINE P(k) == /\ CostSum(D \union Leading(tr, k)) = CostSum(D) + g[1..k]
                      /\ g[1..k] \in Nat
  <2>1. SUFFICES ASSUME NEW k \in Nat, k <= n => P(k), k + 1 <= n PROVE P(k + 1)
    <3>1. ASSUME NEW k \in S PROVE k \in Nat /\ (k <= n => P(k)) /\ k + 1 \in Nat
      BY <3>1
    <3>2. ASSUME NEW k \in Nat, k + 1 <= n => P(k + 1) PROVE k + 1 \in S
      <4>1. k + 1 \in Nat
        OBVIOUS
      <4>. QED
        BY <3>2, <4>1, Zenon
    <3>. HIDE DEF S
    <3>. HIDE DEF P
    <3>. QED
      BY <3>1, <3>2
  <2>2. k \in 0..(n - 1) /\ k + 1 \in 1..n /\ k \in Nat
    BY <1>2, <2>1
  <2>3. CostSum(D \union Leading(tr, k)) = CostSum(D) + g[1..k] /\ g[1..k] \in Nat
    <3>1. k <= n
      BY <1>2, <2>2
    <3>. QED
      BY <2>1, <3>1
  <2>4. PICK t, F : t = tr[k + 1] /\ F = Leading(tr, k)
    OBVIOUS
  <2>5. t \notin F /\ F \in SUBSET ToSet(tr) /\ Leading(tr, k + 1) = F \union {t} /\ t \in ToSet(tr)
    <3>1. \A i \in 1..k : i \in 1..n /\ i # k + 1
      BY <1>2, <2>2
    <3>2. t \notin F
      BY <1>2, <2>2, <2>4, <3>1 DEF Leading
    <3>3. F \in SUBSET ToSet(tr) /\ t \in ToSet(tr)
      BY <1>2, <2>2, <2>4, <3>1 DEF Leading, ToSet
    <3>4. 1..(k + 1) = (1..k) \union {k + 1}
      BY <2>2
    <3>5. Leading(tr, k + 1) = F \union {t}
      BY <2>4, <3>4 DEF Leading
    <3>. QED
      BY <3>2, <3>3, <3>5
  <2>6. \A x \in (D \union F) \union {t} : x.price * x.qty \in Nat
    <3>1. \A x \in F \union {t} : \E i \in 1..n : x = tr[i]
      BY <1>2, <2>2, <2>4 DEF Leading
    <3>2. \A x \in F \union {t} : x.price * x.qty \in Nat
      BY <1>3, <3>1, ProductIsNat
    <3>. QED
      BY <3>2
  <2>7. IsFiniteSet(D \union F) /\ t \notin D \union F
    <3>1. IsFiniteSet(F)
      BY <1>11, <2>5, FS_Subset
    <3>2. t \notin D
      BY <1>1, <2>5
    <3>. QED
      BY <2>5, <3>1, <3>2, FS_Union
  <2>8. CostSum((D \union F) \union {t}) = CostSum(D \union F) + t.price * t.qty
    BY <2>6, <2>7, CostSumAdds
  <2>9. q[k + 1] = t.qty * t.price /\ t.qty \in Nat /\ t.price \in Nat
    <3>1. q[k + 1] = tr[k + 1].qty * tr[k + 1].price
      BY <1>6, <2>2, Zenon DEF Priced
    <3>. QED
      BY <1>3, <2>2, <2>4, <3>1
  <2>10. t.qty * t.price = t.price * t.qty
    BY <2>9
  <2>11. g[1..(k + 1)] = g[1..k] + q[k + 1]
    BY <1>10, <2>2
  <2>12. g[1..(k + 1)] = g[1..k] + t.price * t.qty
    BY <2>9, <2>10, <2>11, Zenon
  <2>13. t.price * t.qty \in Nat
    BY <2>6
  <2>14. D \union Leading(tr, k + 1) = (D \union F) \union {t}
    BY <2>5
  <2>. QED
    <3>1. PICK b, c, d, e : /\ b = CostSum(D) /\ c = g[1..k] /\ d = t.price * t.qty
                            /\ e = CostSum((D \union F) \union {t})
      OBVIOUS
    <3>2. b \in Nat /\ c \in Nat /\ d \in Nat /\ e = (b + c) + d
      BY <2>3, <2>4, <2>8, <2>13, <3>1, Zenon
    <3>3. c + d \in Nat /\ e = b + (c + d)
      BY <3>2
    <3>4. g[1..(k + 1)] = c + d
      BY <2>12, <3>1, Zenon
    <3>. QED
      BY <2>14, <3>1, <3>2, <3>3, <3>4, Zenon
<1>14. S = Nat
  <2>. HIDE DEF S
  <2>1. S \in SUBSET Nat
    BY DEF S
  <2>. QED
    BY <1>12, <1>13, <2>1, Induct
<1>15. CostSum(D \union Leading(tr, n)) = CostSum(D) + g[1..n] /\ g[1..n] \in Nat
  <2>1. n \in Nat /\ n <= n
    BY <1>2
  <2>. QED
    BY <1>14, <2>1
<1>. QED
  BY <1>1, <1>4, <1>5, <1>11, <1>15, Zenon

\* What a job adds is a number.
LEMMA VolumeIsNat ==
    ASSUME NEW j, j.trades \in Seq(JobTrade), IsInjective(j.trades)
    PROVE  VolumeDelta(j) \in Nat
<1>1. PICK D : D = {}
  OBVIOUS
<1>2. IsFiniteSet(D) /\ CostSum(D) \in Nat /\ \A x \in D : x.price * x.qty \in Nat /\ x \notin ToSet(j.trades)
  BY <1>1, FS_EmptySet, NoSums
<1>. QED
  BY <1>2, VolumeIs

----------------------------------------------------------------------------
(* The rows of the positions. *)

\* A row with another amount, and one that is closed.
LEMMA RowSet ==
    ASSUME NEW ps \in Seq(RowType), NEW i \in DOMAIN ps, NEW v \in Nat
    PROVE  \E r \in RowType : /\ [ps EXCEPT ![i].amt = v] = [ps EXCEPT ![i] = r]
                              /\ r.acct = ps[i].acct /\ r.chain = ps[i].chain
                              /\ r.side = ps[i].side /\ r.open = ps[i].open /\ r.amt = v
<1>1. PICK q : q = ps[i]
  OBVIOUS
<1>2. q \in RowType
  BY <1>1
<1>3. PICK A, B, C : q \in [acct : A, chain : B, side : C, open : BOOLEAN, amt : Nat]
                     /\ A = RowAccts /\ B = {"main", "tenderly"} /\ C = {"LONG", "SHORT"}
  BY <1>2 DEF RowType
<1>4. PICK r : r = [q EXCEPT !.amt = v]
  OBVIOUS
<1>5. r \in [acct : A, chain : B, side : C, open : BOOLEAN, amt : Nat]
  BY <1>3, <1>4
<1>6. r.acct = q.acct /\ r.chain = q.chain /\ r.side = q.side /\ r.open = q.open /\ r.amt = v
  BY <1>3, <1>4
<1>7. [ps EXCEPT ![i].amt = v] = [ps EXCEPT ![i] = r]
  BY <1>1, <1>4
<1>. QED
  BY <1>1, <1>3, <1>5, <1>6, <1>7 DEF RowType

\* The row that a sale of all of it leaves.
LEMMA RowClosed ==
    ASSUME NEW ps \in Seq(RowType), NEW i \in DOMAIN ps
    PROVE  \E r \in RowType : /\ [ps EXCEPT ![i].amt = 0, ![i].open = FALSE] = [ps EXCEPT ![i] = r]
                              /\ r.acct = ps[i].acct /\ r.chain = ps[i].chain
                              /\ r.side = ps[i].side /\ r.open = FALSE /\ r.amt = 0
<1>1. PICK q : q = ps[i]
  OBVIOUS
<1>2. q \in RowType
  BY <1>1
<1>3. PICK A, B, C : q \in [acct : A, chain : B, side : C, open : BOOLEAN, amt : Nat]
                     /\ A = RowAccts /\ B = {"main", "tenderly"} /\ C = {"LONG", "SHORT"}
  BY <1>2 DEF RowType
<1>4. PICK r : r = [q EXCEPT !.amt = 0, !.open = FALSE]
  OBVIOUS
<1>5. r \in [acct : A, chain : B, side : C, open : BOOLEAN, amt : Nat]
  BY <1>3, <1>4
<1>6. r.acct = q.acct /\ r.chain = q.chain /\ r.side = q.side /\ r.open = FALSE /\ r.amt = 0
  BY <1>3, <1>4
<1>7. [ps EXCEPT ![i].amt = 0, ![i].open = FALSE] = [ps EXCEPT ![i] = r]
  BY <1>1, <1>4
<1>. QED
  BY <1>1, <1>3, <1>5, <1>6, <1>7 DEF RowType

\* Lists of rows with one more or one other.
LEMMA RowsPut ==
    ASSUME NEW ps \in Seq(RowType), NEW r \in RowType
    PROVE  /\ Append(ps, r) \in Seq(RowType) /\ DOMAIN ps \subseteq DOMAIN Append(ps, r)
           /\ Len(ps) \in Nat /\ DOMAIN ps = 1..Len(ps)
           /\ DOMAIN Append(ps, r) = 1..(Len(ps) + 1)
           /\ \A k \in DOMAIN ps : Append(ps, r)[k] = ps[k]
           /\ Append(ps, r)[Len(ps) + 1] = r
           /\ \A i \in DOMAIN ps : /\ [ps EXCEPT ![i] = r] \in Seq(RowType)
                                   /\ DOMAIN [ps EXCEPT ![i] = r] = DOMAIN ps
                                   /\ [ps EXCEPT ![i] = r][i] = r
                                   /\ \A k \in DOMAIN ps \ {i} : [ps EXCEPT ![i] = r][k] = ps[k]
<1>1. /\ Append(ps, r) \in Seq(RowType) /\ Len(ps) \in Nat /\ DOMAIN ps = 1..Len(ps)
      /\ DOMAIN Append(ps, r) = 1..(Len(ps) + 1)
      /\ \A k \in DOMAIN ps : Append(ps, r)[k] = ps[k]
      /\ Append(ps, r)[Len(ps) + 1] = r
  OBVIOUS
<1>2. DOMAIN ps \subseteq DOMAIN Append(ps, r)
  BY <1>1
<1>3. \A i \in DOMAIN ps : [ps EXCEPT ![i] = r] \in Seq(RowType)
  OBVIOUS
<1>4. \A i \in DOMAIN ps : /\ DOMAIN [ps EXCEPT ![i] = r] = DOMAIN ps
                           /\ [ps EXCEPT ![i] = r][i] = r
                           /\ \A k \in DOMAIN ps \ {i} : [ps EXCEPT ![i] = r][k] = ps[k]
  OBVIOUS
<1>. QED
  BY <1>1, <1>2, <1>3, <1>4

\* A new row is one.
LEMMA RowOfIs ==
    ASSUME NEW w, NEW x, NEW y, Running(w, x, y), NEW a \in RowAccts, NEW s \in {"LONG", "SHORT"}, NEW v \in Nat
    PROVE  RowOf(x, a, s, v) \in RowType
BY RunningFacts DEF RowOf, RowType

\* Rows of the same account, chain and side.
SameHolder(r, q) == r.acct = q.acct /\ r.chain = q.chain /\ r.side = q.side

\* What a purchase does to the rows.
BuyerMoves(x, y, t, a) ==
    /\ x.at = "buyerRow" /\ t = x.job.trades[x.i] /\ a = BuyerAcct(t) /\ a \in RowAccts
    /\ t \in ToSet(x.job.trades) /\ t.qty \in Nat /\ t.price \in Nat
    /\ y = After(x, "seller", x.i)
    /\ \/ a = NoAcct /\ positions' = positions
       \/ \E r \in RowType : /\ a # NoAcct /\ x.row = NoRow
                             /\ r = RowOf(x, a, "LONG", t.qty)
                             /\ positions' = Append(positions, r)
       \/ \E i \in DOMAIN positions, r \in RowType :
              /\ x.row # NoRow /\ i = x.row.id
              /\ SameHolder(r, positions[i]) /\ r.open = positions[i].open
              /\ r.amt = x.row.amt + t.qty
              /\ positions' = [positions EXCEPT ![i] = r]
    /\ UNCHANGED <<dbStatus, dbTrades, volume, sent>>

\* That is what the statement for the buyer writes.
LEMMA BuyerRow ==
    ASSUME NEW w, NEW x, NEW y, NEW t, NEW a, Running(w, x, y), BuyerWritten(x, y, t, a)
    PROVE  BuyerMoves(x, y, t, a)
<1>1. /\ x.at = "buyerRow" /\ x.at \in Looping /\ t = x.job.trades[x.i] /\ a = BuyerAcct(t)
      /\ y = After(x, "seller", x.i) /\ UNCHANGED <<dbStatus, dbTrades, volume, sent>>
  BY DEF BuyerWritten, Looping
<1>2. /\ t \in ToSet(x.job.trades) /\ t.qty \in Nat /\ t.price \in Nat /\ a \in RowAccts
  BY <1>1, RunningTrade
<1>3. positions \in Seq(RowType) /\ x \in WorkType /\ WorkOK(x)
  BY RunningFacts DEF Running, TablesInv
<1>4. x.row = NoRow \/ x.row.id \in DOMAIN positions
  BY <1>3 DEF WorkOK
<1>5. x.row.amt \in Nat
  BY <1>3, WorkFields
<1>6. CASE a = NoAcct /\ UNCHANGED positions
  BY <1>1, <1>2, <1>6 DEF BuyerMoves
<1>7. CASE a # NoAcct /\ x.row = NoRow /\ positions' = Append(positions, RowOf(x, a, "LONG", t.qty))
  <2>1. PICK r : r = RowOf(x, a, "LONG", t.qty)
    OBVIOUS
  <2>2. r \in RowType
    BY <1>2, <2>1, RowOfIs
  <2>. QED
    BY <1>1, <1>2, <1>7, <2>1, <2>2 DEF BuyerMoves
<1>8. CASE x.row # NoRow /\ positions' = [positions EXCEPT ![x.row.id].amt = x.row.amt + t.qty]
  <2>1. PICK i, v : i = x.row.id /\ v = x.row.amt + t.qty
    OBVIOUS
  <2>2. i \in DOMAIN positions /\ v \in Nat
    BY <1>2, <1>4, <1>5, <1>8, <2>1
  <2>3. positions' = [positions EXCEPT ![i].amt = v]
    BY <1>8, <2>1, Zenon
  <2>4. PICK r \in RowType : /\ [positions EXCEPT ![i].amt = v] = [positions EXCEPT ![i] = r]
                             /\ r.acct = positions[i].acct /\ r.chain = positions[i].chain
                             /\ r.side = positions[i].side /\ r.open = positions[i].open /\ r.amt = v
    BY <1>3, <2>2, RowSet
  <2>5. positions' = [positions EXCEPT ![i] = r]
    BY <2>3, <2>4, Zenon
  <2>6. SameHolder(r, positions[i]) /\ r.open = positions[i].open
    BY <2>4 DEF SameHolder
  <2>7. r.amt = x.row.amt + t.qty
    BY <2>1, <2>4
  <2>8. x.row # NoRow /\ i = x.row.id
    BY <1>8, <2>1
  <2>9. \E k \in DOMAIN positions, q \in RowType :
              /\ x.row # NoRow /\ k = x.row.id
              /\ SameHolder(q, positions[k]) /\ q.open = positions[k].open
              /\ q.amt = x.row.amt + t.qty
              /\ positions' = [positions EXCEPT ![k] = q]
    BY <2>2, <2>5, <2>6, <2>7, <2>8, Zenon
  <2>. QED
    BY <1>1, <1>2, <2>9, Zenon DEF BuyerMoves
<1>. QED
  BY <1>6, <1>7, <1>8 DEF BuyerWritten

\* What a sale does.
SellerMoves(x, y, t, a) ==
    /\ x.at = "sellerRow" /\ t = x.job.trades[x.i] /\ a = SellerAcct(t) /\ a \in RowAccts
    /\ t \in ToSet(x.job.trades) /\ t.qty \in Nat /\ t.price \in Nat
    /\ x.row.amt \in Nat
    /\ \/ a = NoAcct /\ positions' = positions /\ Round(x, y, "buyer", "cre")
       \/ \E r \in RowType : /\ a # NoAcct /\ x.row = NoRow
                             /\ r = RowOf(x, a, "SHORT", t.qty)
                             /\ positions' = Append(positions, r)
                             /\ Round(x, y, "buyer", "cre")
       \/ \E i \in DOMAIN positions, r \in RowType :
              /\ x.row # NoRow /\ i = x.row.id /\ t.qty < x.row.amt
              /\ SameHolder(r, positions[i]) /\ r.open = positions[i].open
              /\ r.amt = x.row.amt - t.qty
              /\ positions' = [positions EXCEPT ![i] = r]
              /\ Round(x, y, "buyer", "cre")
       \/ \E i \in DOMAIN positions, r \in RowType :
              /\ x.row # NoRow /\ i = x.row.id /\ t.qty >= x.row.amt
              /\ SameHolder(r, positions[i]) /\ r.open = FALSE /\ r.amt = 0
              /\ positions' = [positions EXCEPT ![i] = r]
              /\ IF t.qty > x.row.amt THEN y = Mid(x, "short", x.seen, x.row)
                 ELSE Round(x, y, "buyer", "cre")
    /\ UNCHANGED <<dbStatus, dbTrades, volume, sent>>

\* That is what the statement for the seller writes.
LEMMA SellerRow ==
    ASSUME NEW w, NEW x, NEW y, NEW t, NEW a, Running(w, x, y), SellerWritten(x, y, t, a)
    PROVE  SellerMoves(x, y, t, a)
<1>1. /\ x.at = "sellerRow" /\ x.at \in Looping /\ t = x.job.trades[x.i] /\ a = SellerAcct(t)
      /\ UNCHANGED <<dbStatus, dbTrades, volume, sent>>
  BY DEF SellerWritten, Looping
<1>2. /\ t \in ToSet(x.job.trades) /\ t.qty \in Nat /\ t.price \in Nat /\ a \in RowAccts
  BY <1>1, RunningTrade
<1>3. positions \in Seq(RowType) /\ x \in WorkType /\ WorkOK(x)
  BY RunningFacts DEF Running, TablesInv
<1>4. x.row = NoRow \/ x.row.id \in DOMAIN positions
  BY <1>3 DEF WorkOK
<1>5. x.row.amt \in Nat
  BY <1>3, WorkFields
<1>6. CASE a = NoAcct /\ UNCHANGED positions /\ Round(x, y, "buyer", "cre")
  BY <1>1, <1>2, <1>5, <1>6 DEF SellerMoves
<1>7. CASE /\ a # NoAcct /\ x.row = NoRow
           /\ positions' = Append(positions, RowOf(x, a, "SHORT", t.qty))
           /\ Round(x, y, "buyer", "cre")
  <2>1. PICK r : r = RowOf(x, a, "SHORT", t.qty)
    OBVIOUS
  <2>2. r \in RowType
    BY <1>2, <2>1, RowOfIs
  <2>. QED
    BY <1>1, <1>2, <1>5, <1>7, <2>1, <2>2 DEF SellerMoves
<1>8. CASE /\ x.row # NoRow
           /\ positions' = AfterSale(x.row, t.qty)
           /\ IF t.qty > x.row.amt THEN y = Mid(x, "short", x.seen, x.row) ELSE Round(x, y, "buyer", "cre")
  <2>1. PICK i, v : i = x.row.id /\ v = x.row.amt - t.qty
    OBVIOUS
  <2>2. i \in DOMAIN positions
    BY <1>4, <1>8, <2>1
  <2>3. CASE t.qty < x.row.amt
    <3>1. positions' = [positions EXCEPT ![i].amt = v]
      BY <1>8, <2>1, <2>3, Zenon DEF AfterSale
    <3>2. v \in Nat /\ ~(t.qty > x.row.amt)
      BY <1>2, <1>5, <2>1, <2>3
    <3>3. PICK r \in RowType : /\ [positions EXCEPT ![i].amt = v] = [positions EXCEPT ![i] = r]
                               /\ r.acct = positions[i].acct /\ r.chain = positions[i].chain
                               /\ r.side = positions[i].side /\ r.open = positions[i].open /\ r.amt = v
      BY <1>3, <2>2, <3>2, RowSet
    <3>4. positions' = [positions EXCEPT ![i] = r]
      BY <3>1, <3>3, Zenon
    <3>5. SameHolder(r, positions[i]) /\ r.open = positions[i].open
      BY <3>3 DEF SameHolder
    <3>6. r.amt = x.row.amt - t.qty
      BY <2>1, <3>3
    <3>7. x.row # NoRow /\ i = x.row.id /\ Round(x, y, "buyer", "cre")
      BY <1>8, <2>1, <3>2
    <3>8. \E k \in DOMAIN positions, q \in RowType :
              /\ x.row # NoRow /\ k = x.row.id /\ t.qty < x.row.amt
              /\ SameHolder(q, positions[k]) /\ q.open = positions[k].open
              /\ q.amt = x.row.amt - t.qty
              /\ positions' = [positions EXCEPT ![k] = q]
              /\ Round(x, y, "buyer", "cre")
      BY <2>2, <2>3, <3>4, <3>5, <3>6, <3>7, Zenon
    <3>. QED
      BY <1>1, <1>2, <1>5, <3>8, Zenon DEF SellerMoves
  <2>4. CASE ~(t.qty < x.row.amt)
    <3>1. positions' = [positions EXCEPT ![i].amt = 0, ![i].open = FALSE]
      BY <1>8, <2>1, <2>4, Zenon DEF AfterSale
    <3>2. t.qty >= x.row.amt
      BY <1>2, <1>5, <2>4
    <3>3. PICK r \in RowType : /\ [positions EXCEPT ![i].amt = 0, ![i].open = FALSE] = [positions EXCEPT ![i] = r]
                               /\ r.acct = positions[i].acct /\ r.chain = positions[i].chain
                               /\ r.side = positions[i].side /\ r.open = FALSE /\ r.amt = 0
      BY <1>3, <2>2, RowClosed
    <3>4. positions' = [positions EXCEPT ![i] = r]
      BY <3>1, <3>3, Zenon
    <3>. QED
      BY <1>1, <1>2, <1>5, <1>8, <2>1, <2>2, <3>2, <3>3, <3>4 DEF SellerMoves, SameHolder
  <2>. QED
    BY <2>3, <2>4
<1>. QED
  BY <1>6, <1>7, <1>8 DEF SellerWritten

\* What the row for the rest of a sale does.
ShortMoves(x, y, t, a) ==
    /\ x.at = "short" /\ t = x.job.trades[x.i] /\ a = SellerAcct(t) /\ a \in RowAccts
    /\ t \in ToSet(x.job.trades) /\ t.qty \in Nat /\ t.price \in Nat
    /\ x.row.amt \in Nat /\ t.qty - x.row.amt \in Nat
    /\ \E r \in RowType : /\ r = RowOf(x, a, "SHORT", t.qty - x.row.amt)
                          /\ positions' = Append(positions, r)
    /\ Round(x, y, "buyer", "cre")
    /\ UNCHANGED <<dbStatus, dbTrades, volume, sent>>

\* That is what the statement for a short position writes.
LEMMA ShortRow ==
    ASSUME NEW w, NEW x, NEW y, NEW t, NEW a, Running(w, x, y), ShortWritten(x, y, t, a)
    PROVE  ShortMoves(x, y, t, a)
<1>1. /\ x.at = "short" /\ x.at \in Looping /\ t = x.job.trades[x.i] /\ a = SellerAcct(t)
      /\ Round(x, y, "buyer", "cre") /\ UNCHANGED <<dbStatus, dbTrades, volume, sent>>
  BY DEF ShortWritten, Looping
<1>2. /\ t \in ToSet(x.job.trades) /\ t.qty \in Nat /\ t.price \in Nat /\ a \in RowAccts
  BY <1>1, RunningTrade
<1>3. x \in WorkType /\ WorkOK(x)
  BY RunningFacts
<1>4. x.row.amt \in Nat /\ t.qty > x.row.amt
  BY <1>1, <1>3, WorkFields DEF WorkOK
<1>5. PICK v : v = t.qty - x.row.amt
  OBVIOUS
<1>6. v \in Nat
  BY <1>2, <1>4, <1>5
<1>7. PICK r : r = RowOf(x, a, "SHORT", v)
  OBVIOUS
<1>8. r \in RowType
  BY <1>2, <1>6, <1>7, RowOfIs
<1>9. positions' = Append(positions, r)
  BY <1>5, <1>7 DEF ShortWritten
<1>. QED
  BY <1>1, <1>2, <1>4, <1>5, <1>6, <1>7, <1>8, <1>9 DEF ShortMoves

\* The rows stay rows.
LEMMA RowsFit ==
    ASSUME NEW w, NEW x, NEW y, Running(w, x, y), UNCHANGED <<dbStatus, dbTrades, volume, sent>>,
           \/ positions' = positions
           \/ \E r \in RowType : positions' = Append(positions, r)
           \/ \E i \in DOMAIN positions, r \in RowType : positions' = [positions EXCEPT ![i] = r]
    PROVE  TablesInv' /\ DOMAIN positions \subseteq DOMAIN positions'
<1>1. TablesInv /\ positions \in Seq(RowType)
  BY DEF Running, TablesInv
<1>2. positions' \in Seq(RowType) /\ DOMAIN positions \subseteq DOMAIN positions'
  <2>1. CASE positions' = positions
    BY <1>1, <2>1
  <2>2. ASSUME NEW r \in RowType, positions' = Append(positions, r)
        PROVE  positions' \in Seq(RowType) /\ DOMAIN positions \subseteq DOMAIN positions'
    BY <1>1, <2>2, RowsPut, Zenon
  <2>3. ASSUME NEW i \in DOMAIN positions, NEW r \in RowType, positions' = [positions EXCEPT ![i] = r]
        PROVE  positions' \in Seq(RowType) /\ DOMAIN positions \subseteq DOMAIN positions'
    BY <1>1, <2>3
  <2>. QED
    BY <2>1, <2>2, <2>3
<1>. QED
  BY <1>1, <1>2, TablesStep DEF TablesInv

\* The buyer's position is written.
LEMMA BuyerFits ==
    ASSUME NEW w, NEW x, NEW y, NEW t, NEW a, Running(w, x, y), BuyerWritten(x, y, t, a)
    PROVE  Fits(x, y)
<1>1. BuyerMoves(x, y, t, a)
  BY BuyerRow
<1>2. TablesInv' /\ DOMAIN positions \subseteq DOMAIN positions' /\ dbTrades' = dbTrades
  BY <1>1, RowsFit DEF BuyerMoves
<1>3. x.at \in Looping /\ y = After(x, "seller", x.i)
  BY <1>1 DEF BuyerMoves, Looping
<1>4. x.i \in 1..Len(x.job.trades) /\ x.i \in Nat /\ ToSet(x.job.trades) \subseteq dbTrades'
  BY <1>2, <1>3, RunningTrade
<1>5. y \in WorkType /\ WorkOK(y)' /\ y.job = x.job /\ y.at # "idle"
  BY <1>3, <1>4, AfterFits DEF Written, Looping
<1>. QED
  BY <1>2, <1>5 DEF Fits

\* The seller's position is written.
LEMMA SellerFits ==
    ASSUME NEW w, NEW x, NEW y, NEW t, NEW a, Running(w, x, y), SellerWritten(x, y, t, a)
    PROVE  Fits(x, y)
<1>1. SellerMoves(x, y, t, a)
  BY SellerRow
<1>2. TablesInv' /\ DOMAIN positions \subseteq DOMAIN positions' /\ dbTrades' = dbTrades
  BY <1>1, RowsFit DEF SellerMoves
<1>3. x.at \in Looping /\ t = x.job.trades[x.i]
  BY <1>1 DEF SellerMoves, Looping
<1>4. CASE Round(x, y, "buyer", "cre")
  <2>1. y \in WorkType /\ WorkOK(y)' /\ y.job = x.job /\ y.at # "idle"
    BY <1>2, <1>3, <1>4, RoundFits
  <2>. QED
    BY <1>2, <2>1 DEF Fits
<1>5. CASE y = Mid(x, "short", x.seen, x.row) /\ x.row # NoRow /\ t.qty > x.row.amt
  <2>1. x \in WorkType /\ WorkOK(x) /\ JobOK(x.job)'
    BY RunningFacts
  <2>2. /\ y \in WorkType /\ y.at = "short" /\ y.job = x.job /\ y.i = x.i /\ y.row = x.row
    BY <1>5, <2>1, WorkFields, MidType DEF Written, Looping
  <2>3. x.i \in 1..Len(x.job.trades) /\ ToSet(x.job.trades) \subseteq dbTrades'
    BY <1>2, <1>3, RunningTrade
  <2>4. WorkOK(y)'
    BY <1>2, <1>3, <1>5, <2>1, <2>2, <2>3 DEF WorkOK, Written, Looping
  <2>. QED
    BY <1>2, <2>2, <2>4 DEF Fits
<1>. QED
  BY <1>1, <1>4, <1>5 DEF SellerMoves

\* What a sale is short of is written.
LEMMA ShortFits ==
    ASSUME NEW w, NEW x, NEW y, NEW t, NEW a, Running(w, x, y), ShortWritten(x, y, t, a)
    PROVE  Fits(x, y)
<1>1. ShortMoves(x, y, t, a)
  BY ShortRow
<1>2. TablesInv' /\ DOMAIN positions \subseteq DOMAIN positions' /\ dbTrades' = dbTrades
  BY <1>1, RowsFit DEF ShortMoves
<1>3. x.at \in Looping /\ Round(x, y, "buyer", "cre")
  BY <1>1 DEF ShortMoves, Looping
<1>4. y \in WorkType /\ WorkOK(y)' /\ y.job = x.job /\ y.at # "idle"
  BY <1>2, <1>3, RoundFits
<1>. QED
  BY <1>2, <1>4 DEF Fits

\* The settlement is called, with the signatures.
LEMMA CreFits ==
    ASSUME NEW w, NEW x, NEW y, Running(w, x, y), CreCalled(x, y)
    PROVE  Fits(x, y)
<1>1. TablesInv /\ x \in WorkType /\ WorkOK(x) /\ x.job.trades \in Seq(JobTrade)
  BY RunningFacts DEF Running
<1>2. /\ x.at = "cre" /\ y = After(x, "volume", 1) /\ UNCHANGED <<dbStatus, dbTrades, positions, volume>>
      /\ sent' = [o \in Orders |-> sent[o] + UserSends(x.job, o) + AgentSends(x.job, o)]
  BY DEF CreCalled
<1>3. sent' \in [Orders -> Nat]
  <2>1. ASSUME NEW o \in Orders PROVE sent[o] + UserSends(x.job, o) + AgentSends(x.job, o) \in Nat
    <3>1. sent[o] \in Nat
      BY <1>1 DEF TablesInv
    <3>2. UserSends(x.job, o) \in Nat
      BY DEF UserSends
    <3>3. IsFiniteSet(DOMAIN x.job.trades)
      BY <1>1, FS_Interval
    <3>4. \A S : S \subseteq DOMAIN x.job.trades => Cardinality(S) \in Nat
      BY <3>3, FS_Subset, FS_CardinalityType
    <3>5. AgentSends(x.job, o) \in Nat
      BY <3>4, Zenon DEF AgentSends
    <3>. QED
      BY <3>1, <3>2, <3>5
  <2>. QED
    BY <1>2, <2>1
<1>4. TablesInv'
  BY <1>1, <1>2, <1>3, TablesStep DEF TablesInv
<1>5. ToSet(x.job.trades) \subseteq dbTrades'
  BY <1>1, <1>2 DEF WorkOK, Written
<1>6. y \in WorkType /\ WorkOK(y)' /\ y.job = x.job /\ y.at # "idle"
  BY <1>2, <1>5, AfterFits DEF Written, Looping
<1>. QED
  BY <1>2, <1>4, <1>6 DEF Fits

\* The market's volume grows.
LEMMA VolumeFits ==
    ASSUME NEW w, NEW x, NEW y, Running(w, x, y), VolumeAdded(x, y)
    PROVE  Fits(x, y)
<1>1. TablesInv /\ x \in WorkType /\ WorkOK(x) /\ JobOK(x.job) /\ x.job.trades \in Seq(JobTrade)
  BY RunningFacts DEF Running
<1>2. /\ x.at = "volume" /\ y = After(x, "done", 1) /\ UNCHANGED <<dbStatus, dbTrades, positions, sent>>
      /\ volume' = volume + VolumeDelta(x.job)
  BY DEF VolumeAdded
<1>3. IsInjective(x.job.trades)
  BY <1>1 DEF JobOK
<1>4. VolumeDelta(x.job) \in Nat
  BY <1>1, <1>3, VolumeIsNat
<1>5. volume' \in Nat
  BY <1>1, <1>2, <1>4 DEF TablesInv
<1>6. TablesInv'
  BY <1>1, <1>2, <1>5, TablesStep DEF TablesInv
<1>7. ToSet(x.job.trades) \subseteq dbTrades'
  BY <1>1, <1>2 DEF WorkOK, Written
<1>8. y \in WorkType /\ WorkOK(y)' /\ y.job = x.job /\ y.at # "idle"
  BY <1>2, <1>7, AfterFits DEF Written, Looping
<1>. QED
  BY <1>2, <1>6, <1>8 DEF Fits

\* A worker without a job is in order.
LEMMA IdleIs ==
    ASSUME NEW y, y = Idle
    PROVE  y \in WorkType /\ WorkOK(y) /\ WorkOK(y)' /\ y.at = "idle"
<1>1. y \in WorkType /\ y.at = "idle" /\ y.i = 0 /\ y.row = NoRow
  BY DEF Idle, WorkType, NoRow
<1>2. WorkOK(y) /\ WorkOK(y)'
  BY <1>1 DEF WorkOK, Looping, Written
<1>. QED
  BY <1>1, <1>2

\* The job is done.
LEMMA DoneFits ==
    ASSUME NEW w, NEW x, NEW y, Running(w, x, y), JobDone(x, y)
    PROVE  Fits(x, y)
<1>1. x.at = "done" /\ y = Idle /\ UNCHANGED dbVars
  BY DEF JobDone
<1>2. TablesInv' /\ dbTrades' = dbTrades /\ positions' = positions
  BY <1>1, ReadTables
<1>3. y \in WorkType /\ WorkOK(y)'
  BY <1>1, IdleIs
<1>. QED
  BY <1>1, <1>2, <1>3 DEF Fits

\* Every statement leaves its worker and the tables in order.
LEMMA StatementFits ==
    ASSUME NEW w, NEW x, NEW y, Running(w, x, y), Statement(x, y)
    PROVE  Fits(x, y)
<1>1. ASSUME NEW a, RowRead(x, y, "buyer", "buyerRow", a) PROVE Fits(x, y)
  BY <1>1, RowReadFits
<1>2. ASSUME NEW a, RowRead(x, y, "seller", "sellerRow", a) PROVE Fits(x, y)
  BY <1>2, RowReadFits
<1>. QED
  BY <1>1, <1>2, OrderFits, TradesFit, MakerReadFits, MakerWrittenFits, BuyerFits, SellerFits,
     ShortFits, CreFits, VolumeFits, DoneFits DEF Statement

----------------------------------------------------------------------------
(* What the steps of the workers and the faults leave of the invariants that *)
(* hold whatever fails.                                                      *)

\* A record stays in order while the tables grow.
LEMMA RecordKept ==
    ASSUME UNCHANGED engineVars, dbTrades \subseteq dbTrades', DOMAIN positions \subseteq DOMAIN positions',
           NEW x, WorkOK(x)
    PROVE  WorkOK(x)'
<1>1. JobOK(x.job)' <=> JobOK(x.job)
  BY EngineSame
<1>. QED
  BY <1>1 DEF WorkOK

\* One worker's record changes.
LEMMA WorkersKept ==
    ASSUME WorkInv, UNCHANGED engineVars,
           dbTrades \subseteq dbTrades', DOMAIN positions \subseteq DOMAIN positions',
           NEW w \in Workers, NEW y \in WorkType, WorkOK(y)', work' = [work EXCEPT ![w] = y]
    PROVE  /\ WorkInv'
           /\ work' \in [Workers -> WorkType] /\ work'[w] = y /\ \A v \in Workers \ {w} : work'[v] = work[v]
<1>1. work \in [Workers -> WorkType] /\ \A v \in Workers : WorkOK(work[v])
  BY DEF WorkInv
<1>2. work' \in [Workers -> WorkType] /\ work'[w] = y /\ \A v \in Workers \ {w} : work'[v] = work[v]
  BY <1>1
<1>3. ASSUME NEW v \in Workers, NEW x, x = work'[v] PROVE WorkOK(x)'
  <2>1. CASE v = w
    BY <1>2, <1>3, <2>1
  <2>2. CASE v # w
    <3>1. x = work[v]
      BY <1>2, <1>3, <2>2
    <3>2. WorkOK(x)
      BY <1>1, <3>1
    <3>. QED
      BY <3>2, RecordKept
  <2>. QED
    BY <2>1, <2>2
<1>4. \A x \in {work'[v] : v \in Workers} : WorkOK(x)'
  BY <1>3
<1>. QED
  BY <1>2, <1>4 DEF WorkInv

\* The invariants that hold whatever fails.
SafeInv == BooksInv /\ ListInv /\ JobsInv /\ WorkInv /\ TablesInv /\ NewInv /\ CoverInv

\* A statement of a worker keeps what holds in spite of failures.
LEMMA PersistSafe ==
    ASSUME SafeInv, taker = NoOrder, NEW w \in Workers, NEW x, NEW y, Moves(w, x, y), Statement(x, y)
    PROVE  SafeInv'
<1>1. Running(w, x, y)
  BY DEF SafeInv, Running
<1>2. /\ x = work[w] /\ x.at # "idle" /\ x \in WorkType /\ WorkOK(x) /\ JobOK(x.job)
      /\ UNCHANGED engineVars /\ jobs' = jobs /\ dropped' = dropped /\ work' = [work EXCEPT ![w] = y]
      /\ BooksInv' /\ ListInv' /\ JobsInv' /\ work \in [Workers -> WorkType]
  BY <1>1, RunningFacts
<1>3. Fits(x, y)
  BY <1>1, StatementFits
<1>4. /\ TablesInv' /\ dbTrades \subseteq dbTrades' /\ DOMAIN positions \subseteq DOMAIN positions'
      /\ y \in WorkType /\ WorkOK(y)'
  BY <1>3 DEF Fits
<1>5. WorkInv' /\ work'[w] = y /\ \A v \in Workers \ {w} : work'[v] = work[v]
  BY <1>2, <1>4, WorkersKept DEF SafeInv
<1>6. NewInv'
  <2>1. status' = status
    BY <1>2 DEF engineVars, bookVars
  <2>2. CASE sent' = sent
    BY <2>1, <2>2 DEF SafeInv, NewInv
  <2>3. CASE CreCalled(x, y)
    <3>1. ASSUME NEW o \in Orders, status[o] = "NEW" PROVE sent'[o] = 0
      <4>1. sent[o] = 0
        BY <3>1 DEF SafeInv, NewInv
      <4>2. x.job.order # o
        BY <1>2, <3>1 DEF JobOK, Recorded
      <4>3. \A t \in ToSet(x.job.trades) : t.taker # o /\ t.maker # o
        <5>1. \A t : Known(t) => t.maker # o /\ t.taker # o
          BY <3>1, PlatformAssumption, ContractAssumption DEF Known, Recorded
        <5>. QED
          BY <1>1, <5>1, RunningFacts
      <4>4. \A i \in DOMAIN x.job.trades : x.job.trades[i].taker # o /\ x.job.trades[i].maker # o
        BY <4>3 DEF ToSet
      <4>5. {i \in DOMAIN x.job.trades : \/ x.job.trades[i].taker = o
                                         \/ x.job.trades[i].maker = o /\ dbStatus[o] # "none"} = {}
        BY <4>4
      <4>6. AgentSends(x.job, o) = 0
        BY <4>5, FS_EmptySet, Zenon DEF AgentSends
      <4>7. UserSends(x.job, o) = 0
        BY <4>2 DEF UserSends
      <4>8. sent'[o] = sent[o] + UserSends(x.job, o) + AgentSends(x.job, o)
        BY <2>3 DEF CreCalled
      <4>. QED
        BY <4>1, <4>6, <4>7, <4>8
    <3>. QED
      BY <2>1, <3>1 DEF NewInv
  <2>. QED
    BY <2>2, <2>3 DEF Statement, OrderWritten, TradesWritten, MakerRead, MakerWritten, RowRead,
       BuyerWritten, SellerWritten, ShortWritten, VolumeAdded, JobDone, dbVars
<1>7. CoverInv'
  <2>1. Recorded' = Recorded /\ \A o : TradesOf(o)' = TradesOf(o)
    BY <1>2, EngineSame
  <2>2. ASSUME NEW o \in Recorded \ dropped
        PROVE  \/ TradesOf(o) \subseteq dbTrades'
               \/ \E k \in DOMAIN jobs : jobs[k].order = o
               \/ \E v \in Busy' : work'[v].job.order = o
    <3>1. CASE TradesOf(o) \subseteq dbTrades \/ \E k \in DOMAIN jobs : jobs[k].order = o
      BY <1>4, <3>1
    <3>2. ASSUME NEW v \in Busy, work[v].job.order = o
          PROVE  TradesOf(o) \subseteq dbTrades' \/ \E u \in Busy' : work'[u].job.order = o
      <4>1. CASE v # w
        <5>1. v \in Workers /\ work'[v] = work[v] /\ work[v] # Idle
          BY <1>5, <4>1 DEF Busy
        <5>2. v \in Busy'
          BY <5>1 DEF Busy
        <5>. QED
          BY <3>2, <5>1, <5>2
      <4>2. CASE v = w /\ y.job = x.job /\ y.at # "idle"
        <5>1. y # Idle
          BY <4>2 DEF Idle
        <5>2. v \in Busy' /\ work'[v].job.order = o
          BY <1>2, <1>5, <3>2, <4>2, <5>1 DEF Busy
        <5>. QED
          BY <5>2
      <4>3. CASE v = w /\ x.at = "done"
        <5>1. ToSet(x.job.trades) \subseteq dbTrades /\ ToSet(x.job.trades) = TradesOf(x.job.order)
          BY <1>2, <4>3 DEF WorkOK, JobOK, Written
        <5>2. x.job.order = o
          BY <1>2, <3>2, <4>3
        <5>. QED
          BY <1>4, <5>1, <5>2
      <4>. QED
        BY <1>3, <4>1, <4>2, <4>3 DEF Fits
    <3>. QED
      BY <3>1, <3>2 DEF SafeInv, CoverInv
  <2>. QED
    BY <1>2, <2>1, <2>2 DEF CoverInv
<1>. QED
  BY <1>2, <1>4, <1>5, <1>6, <1>7 DEF SafeInv

----------------------------------------------------------------------------
(* A job is taken, or put back. *)

\* The queue without its first job.
LEMMA FirstJob ==
    ASSUME JobsInv, NEW w, Take(w), NEW j, j = jobs[1]
    PROVE  /\ Len(jobs) \in Nat \ {0} /\ DOMAIN jobs = 1..Len(jobs) /\ 1 \in DOMAIN jobs
           /\ jobs' \in Seq(JobType) /\ DOMAIN jobs' = 1..(Len(jobs) - 1)
           /\ \A k \in DOMAIN jobs' : jobs'[k] = jobs[k + 1] /\ k + 1 \in DOMAIN jobs
           /\ \A k \in DOMAIN jobs : k = 1 \/ (k - 1 \in DOMAIN jobs' /\ jobs'[k - 1] = jobs[k])
           /\ j \in ToSet(jobs) /\ ToSet(jobs') \subseteq ToSet(jobs) /\ JobOK(j)
<1>1. jobs \in Seq(JobType) /\ jobs # << >>
  BY DEF JobsInv, Take
<1>2. Len(jobs) \in Nat \ {0} /\ DOMAIN jobs = 1..Len(jobs) /\ 1 \in DOMAIN jobs
  BY <1>1
<1>3. jobs' = SubSeq(jobs, 1, 0) \o SubSeq(jobs, 2, Len(jobs))
  BY DEF Take, NextJob, RemoveAt
<1>4. PICK q, r : q = SubSeq(jobs, 1, 0) /\ r = SubSeq(jobs, 2, Len(jobs))
  OBVIOUS
<1>5. q \in Seq(JobType) /\ Len(q) = 0
  BY <1>1, <1>2, <1>4
<1>6. /\ r \in Seq(JobType) /\ Len(r) = Len(jobs) - 1
      /\ \A k \in 1..(Len(jobs) - 1) : r[k] = jobs[k + 1]
  BY <1>1, <1>2, <1>4
<1>7. /\ jobs' \in Seq(JobType) /\ Len(jobs') = Len(jobs) - 1
      /\ \A k \in 1..(Len(jobs) - 1) : jobs'[k] = r[k]
  BY <1>3, <1>4, <1>5, <1>6
<1>8. DOMAIN jobs' = 1..(Len(jobs) - 1)
  BY <1>7
<1>9. \A k \in DOMAIN jobs' : jobs'[k] = jobs[k + 1] /\ k + 1 \in DOMAIN jobs
  BY <1>2, <1>6, <1>7, <1>8
<1>10. \A k \in DOMAIN jobs : k = 1 \/ (k - 1 \in DOMAIN jobs' /\ jobs'[k - 1] = jobs[k])
  <2>1. ASSUME NEW k \in DOMAIN jobs, k # 1 PROVE k - 1 \in DOMAIN jobs' /\ jobs'[k - 1] = jobs[k]
    <3>1. k - 1 \in DOMAIN jobs' /\ (k - 1) + 1 = k
      BY <1>2, <1>8, <2>1
    <3>. QED
      BY <1>9, <3>1
  <2>. QED
    BY <2>1
<1>11. j \in ToSet(jobs) /\ ToSet(jobs') \subseteq ToSet(jobs)
  BY <1>2, <1>9 DEF ToSet
<1>. QED
  BY <1>2, <1>7, <1>8, <1>9, <1>10, <1>11 DEF JobsInv

\* A job that is taken.
Taken(j) == [at |-> "order", job |-> j, i |-> 0, seen |-> "none", row |-> NoRow]

\* The record of a worker that has taken a job.
LEMMA TakenIs ==
    ASSUME NEW j, JobOK(j), NEW y, y = Taken(j)
    PROVE  y \in WorkType /\ WorkOK(y) /\ y.at = "order" /\ y.job = j /\ y.i = 0 /\ y.row = NoRow /\ y # Idle
<1>1. y.at = "order" /\ y.job = j /\ y.i = 0 /\ y.seen = "none" /\ y.row = NoRow
  BY DEF Taken
<1>2. y \in WorkType
  BY DEF Taken, JobOK, WorkType, NoRow
<1>3. WorkOK(y)
  BY <1>1 DEF WorkOK, Looping, Written
<1>. QED
  BY <1>1, <1>2, <1>3 DEF Idle

\* Take gives an idle worker the first job.
LEMMA TakeIs ==
    ASSUME SafeInv, NEW w \in Workers, Take(w)
    PROVE  \E j, y : /\ j = jobs[1] /\ JobOK(j) /\ y = Taken(j) /\ work' = [work EXCEPT ![w] = y]
                     /\ work[w] = Idle /\ UNCHANGED <<engineVars, dbVars, dropped>>
                     /\ faults' \in 0..MaxFaults
                     /\ faults' = 0 => faults = 0 /\ \A v \in Workers : work[v] = Idle
<1>1. PICK j, y : j = jobs[1] /\ y = [Idle EXCEPT !.at = "order", !.job = j]
  OBVIOUS
<1>2. JobOK(j)
  BY <1>1, FirstJob DEF SafeInv
<1>3. y = Taken(j)
  BY <1>1 DEF Idle, Taken
<1>4. work' = [work EXCEPT ![w] = y]
  BY <1>1, Zenon DEF Take, NextJob
<1>5. work[w] = Idle /\ UNCHANGED <<engineVars, dbVars, dropped>>
  BY DEF Take
<1>6. faults \in Nat /\ faults <= MaxFaults /\ MaxFaults \in Nat
  BY NumbersAssumption DEF SafeInv, TablesInv
<1>7. /\ faults' \in 0..MaxFaults
      /\ faults' = 0 => faults = 0 /\ \A v \in Workers : work[v] = Idle
  <2>1. CASE \A v \in Workers : work[v] = Idle
    <3>1. faults' = faults
      BY <2>1 DEF Take
    <3>. QED
      BY <1>6, <2>1, <3>1
  <2>2. CASE ~(\A v \in Workers : work[v] = Idle)
    <3>1. faults < MaxFaults /\ faults' = faults + 1
      BY <2>2 DEF Take
    <3>. QED
      BY <1>6, <3>1
  <2>. QED
    BY <2>1, <2>2
<1>. QED
  BY <1>1, <1>2, <1>3, <1>4, <1>5, <1>7

\* What does not change when only the queue, the workers and the faults do.
LEMMA TablesSame ==
    ASSUME SafeInv, UNCHANGED <<platformFilled, direct>>, UNCHANGED <<order, rem, status, trades>>, routing' \subseteq routing,
           UNCHANGED dbVars, dropped' \subseteq Orders, faults' \in 0..MaxFaults
    PROVE  TablesInv' /\ NewInv' /\ ListInv'
<1>1. UNCHANGED <<dbStatus, dbTrades, positions, volume, sent>>
  BY DEF dbVars
<1>2. Recorded' = Recorded /\ \A o : TradesOf(o)' = TradesOf(o) /\ Result(o)' = Result(o)
  BY DEF Recorded, TradesOf, ContractTrade, ResultTrades, PlatformTrade, PlatformPrice, BookTrades, Result, ResultStatus
<1>3. AllTrades' = AllTrades
  BY <1>2 DEF AllTrades
<1>4. TablesInv
  BY DEF SafeInv
<1>5. TablesInv'
  BY <1>1, <1>2, <1>3, <1>4 DEF TablesInv
<1>6. NewInv'
  BY <1>1 DEF SafeInv, NewInv
<1>. QED
  BY <1>5, <1>6, ListSame DEF SafeInv

\* The engine and the database are as they were.
LEMMA AllSame ==
    ASSUME SafeInv, UNCHANGED engineVars, UNCHANGED dbVars, dropped' \subseteq Orders, faults' \in 0..MaxFaults
    PROVE  /\ BooksInv' /\ ListInv' /\ TablesInv' /\ NewInv'
           /\ Recorded' = Recorded /\ (\A o : TradesOf(o)' = TradesOf(o))
           /\ \A j : JobOK(j)' <=> JobOK(j)
           /\ dbTrades' = dbTrades /\ positions' = positions
<1>1. /\ UNCHANGED <<platformFilled, direct>> /\ UNCHANGED <<order, rem, status, trades>> /\ routing' = routing
      /\ dbTrades' = dbTrades /\ positions' = positions
  BY DEF engineVars, bookVars, routeVars, dbVars
<1>2. TablesInv' /\ NewInv' /\ ListInv'
  BY <1>1, TablesSame
<1>3. BooksInv'
  BY BooksSame DEF SafeInv
<1>. QED
  BY <1>1, <1>2, <1>3, EngineSame

\* So does taking a job ...
LEMMA TakeSafe ==
    ASSUME SafeInv, NEW w \in Workers, Take(w)
    PROVE  SafeInv'
<1>1. PICK j, y : /\ j = jobs[1] /\ JobOK(j) /\ y = Taken(j) /\ work' = [work EXCEPT ![w] = y]
                  /\ work[w] = Idle /\ UNCHANGED <<engineVars, dbVars, dropped>>
                  /\ faults' \in 0..MaxFaults
  BY TakeIs
<1>2. /\ BooksInv' /\ ListInv' /\ TablesInv' /\ NewInv'
      /\ Recorded' = Recorded /\ (\A o : TradesOf(o)' = TradesOf(o))
      /\ \A i : JobOK(i)' <=> JobOK(i)
      /\ dbTrades' = dbTrades /\ positions' = positions
  <2>1. dropped' \subseteq Orders
    BY <1>1 DEF SafeInv, TablesInv
  <2>. QED
    BY <1>1, <2>1, AllSame
<1>3. /\ y \in WorkType /\ WorkOK(y) /\ y.job = j /\ y # Idle
  BY <1>1, TakenIs
<1>4. WorkOK(y)'
  BY <1>1, <1>2, <1>3, RecordKept
<1>5. WorkInv' /\ work'[w] = y /\ \A v \in Workers \ {w} : work'[v] = work[v]
  BY <1>1, <1>2, <1>3, <1>4, WorkersKept DEF SafeInv
<1>6. JobsInv'
  <2>1. jobs' \in Seq(JobType) /\ ToSet(jobs') \subseteq ToSet(jobs)
    BY <1>1, FirstJob DEF SafeInv
  <2>2. \A i \in ToSet(jobs') : JobOK(i)'
    BY <1>2, <2>1 DEF SafeInv, JobsInv
  <2>. QED
    BY <2>1, <2>2 DEF JobsInv
<1>7. CoverInv'
  <2>1. /\ \A k \in DOMAIN jobs : k = 1 \/ (k - 1 \in DOMAIN jobs' /\ jobs'[k - 1] = jobs[k])
    BY <1>1, FirstJob DEF SafeInv
  <2>2. ASSUME NEW o \in Recorded \ dropped
        PROVE  \/ TradesOf(o) \subseteq dbTrades
               \/ \E k \in DOMAIN jobs' : jobs'[k].order = o
               \/ \E v \in Busy' : work'[v].job.order = o
    <3>1. ASSUME NEW k \in DOMAIN jobs, jobs[k].order = o
          PROVE  \/ \E l \in DOMAIN jobs' : jobs'[l].order = o
                 \/ \E v \in Busy' : work'[v].job.order = o
      <4>1. CASE k = 1
        <5>1. w \in Busy'
          BY <1>3, <1>5 DEF Busy
        <5>2. work'[w].job.order = o
          BY <1>1, <1>3, <1>5, <3>1, <4>1
        <5>. QED
          BY <5>1, <5>2
      <4>2. CASE k # 1
        BY <2>1, <3>1, <4>2
      <4>. QED
        BY <4>1, <4>2
    <3>2. ASSUME NEW v \in Busy, work[v].job.order = o PROVE \E u \in Busy' : work'[u].job.order = o
      <4>1. v \in Workers \ {w} /\ work'[v] = work[v]
        BY <1>1, <1>5 DEF Busy
      <4>2. v \in Busy'
        BY <4>1 DEF Busy
      <4>. QED
        BY <3>2, <4>1, <4>2
    <3>. QED
      BY <3>1, <3>2 DEF SafeInv, CoverInv
  <2>. QED
    BY <1>1, <1>2, <2>2 DEF CoverInv
<1>. QED
  BY <1>2, <1>5, <1>6, <1>7 DEF SafeInv

\* A fault is counted.
LEMMA FaultIs == ASSUME SafeInv, Fault PROVE faults' \in 0..MaxFaults /\ faults' > 0
<1>1. faults \in Nat /\ faults <= MaxFaults /\ MaxFaults \in Nat
  BY NumbersAssumption DEF SafeInv, TablesInv
<1>. QED
  BY <1>1 DEF Fault

\* ... a job that fails and is dropped ...
LEMMA ErrorSafe ==
    ASSUME SafeInv, NEW w \in Workers, JobError(w)
    PROVE  SafeInv' /\ faults' > 0
<1>1. /\ w \in Busy /\ dropped' = dropped \union {work[w].job.order} /\ work' = [work EXCEPT ![w] = Idle]
      /\ UNCHANGED <<engineVars, jobs, dbVars>> /\ Fault
  BY DEF JobError, JobOf
<1>2. PICK x, y : x = work[w] /\ y = Idle
  OBVIOUS
<1>3. WorkOK(x) /\ x.at # "idle" /\ work \in [Workers -> WorkType]
  BY <1>1, <1>2, CurIs DEF SafeInv, WorkInv
<1>4. x.job.order \in Orders
  BY <1>3 DEF WorkOK, JobOK, JobType
<1>5. faults' \in 0..MaxFaults /\ faults' > 0
  BY <1>1, FaultIs
<1>6. dropped' \subseteq Orders
  BY <1>1, <1>2, <1>4 DEF SafeInv, TablesInv
<1>7. /\ BooksInv' /\ ListInv' /\ TablesInv' /\ NewInv'
      /\ Recorded' = Recorded /\ (\A o : TradesOf(o)' = TradesOf(o))
      /\ \A i : JobOK(i)' <=> JobOK(i)
      /\ dbTrades' = dbTrades /\ positions' = positions
  BY <1>1, <1>5, <1>6, AllSame
<1>8. y \in WorkType /\ WorkOK(y)'
  BY <1>2, IdleIs
<1>9. WorkInv' /\ work'[w] = y /\ \A v \in Workers \ {w} : work'[v] = work[v]
  BY <1>1, <1>2, <1>7, <1>8, WorkersKept DEF SafeInv
<1>10. JobsInv'
  BY <1>1, <1>7 DEF SafeInv, JobsInv
<1>11. CoverInv'
  <2>1. ASSUME NEW o \in Recorded \ dropped'
        PROVE  \/ TradesOf(o) \subseteq dbTrades
               \/ \E k \in DOMAIN jobs : jobs[k].order = o
               \/ \E v \in Busy' : work'[v].job.order = o
    <3>1. ASSUME NEW v \in Busy, work[v].job.order = o PROVE \E u \in Busy' : work'[u].job.order = o
      <4>1. v \in Workers \ {w} /\ work'[v] = work[v]
        BY <1>1, <1>9, <2>1, <3>1 DEF Busy
      <4>2. v \in Busy'
        BY <3>1, <4>1 DEF Busy
      <4>. QED
        BY <3>1, <4>1, <4>2
    <3>. QED
      BY <1>1, <2>1, <3>1 DEF SafeInv, CoverInv
  <2>. QED
    BY <1>1, <1>7, <2>1 DEF CoverInv
<1>. QED
  BY <1>5, <1>7, <1>9, <1>10, <1>11 DEF SafeInv

\* Jobs put before those of the queue.
LEMMA JobsBack ==
    ASSUME JobsInv, NEW js \in Seq(JobType), jobs' = js \o jobs
    PROVE  /\ jobs' \in Seq(JobType) /\ ToSet(jobs') = ToSet(js) \union ToSet(jobs)
<1>1. jobs \in Seq(JobType)
  BY DEF JobsInv
<1>2. /\ jobs' \in Seq(JobType) /\ Len(js) \in Nat /\ Len(jobs) \in Nat
      /\ DOMAIN js = 1..Len(js) /\ DOMAIN jobs = 1..Len(jobs)
      /\ Len(jobs') = Len(js) + Len(jobs) /\ DOMAIN jobs' = 1..(Len(js) + Len(jobs))
      /\ \A k \in 1..(Len(js) + Len(jobs)) :
            jobs'[k] = IF k <= Len(js) THEN js[k] ELSE jobs[k - Len(js)]
  BY <1>1
<1>3. ToSet(jobs') \subseteq ToSet(js) \union ToSet(jobs)
  <2>1. ASSUME NEW k \in DOMAIN jobs' PROVE jobs'[k] \in ToSet(js) \union ToSet(jobs)
    <3>1. CASE k <= Len(js)
      BY <1>2, <2>1, <3>1 DEF ToSet
    <3>2. CASE ~(k <= Len(js))
      <4>1. k - Len(js) \in DOMAIN jobs /\ jobs'[k] = jobs[k - Len(js)]
        BY <1>2, <2>1, <3>2
      <4>. QED
        BY <4>1 DEF ToSet
    <3>. QED
      BY <3>1, <3>2
  <2>. QED
    BY <2>1 DEF ToSet
<1>4. ToSet(js) \subseteq ToSet(jobs')
  <2>1. \A k \in DOMAIN js : k \in DOMAIN jobs' /\ jobs'[k] = js[k]
    BY <1>2
  <2>. QED
    BY <2>1 DEF ToSet
<1>5. ToSet(jobs) \subseteq ToSet(jobs')
  <2>1. \A k \in DOMAIN jobs : k + Len(js) \in DOMAIN jobs' /\ jobs'[k + Len(js)] = jobs[k]
    BY <1>2
  <2>. QED
    BY <2>1 DEF ToSet
<1>. QED
  BY <1>2, <1>3, <1>4, <1>5

\* Whose jobs are in the queue, as a set.
LEMMA InQueue == \A o : (\E k \in DOMAIN jobs : jobs[k].order = o) <=> \E j \in ToSet(jobs) : j.order = o
BY DEF ToSet

\* The same after the step.
LEMMA InQueueThen == \A o : (\E k \in DOMAIN jobs' : jobs'[k].order = o) <=> \E j \in ToSet(jobs') : j.order = o
BY DEF ToSet

\* ... a worker that stalls, whose job another one will take too ...
LEMMA StallSafe ==
    ASSUME SafeInv, NEW w \in Workers, Stall(w)
    PROVE  SafeInv' /\ faults' > 0
<1>1. /\ w \in Busy /\ jobs' = <<work[w].job>> \o jobs
      /\ UNCHANGED <<engineVars, work, dbVars, dropped>> /\ Fault
  BY DEF Stall, JobOf
<1>2. PICK x, js : x = work[w] /\ js = <<x.job>>
  OBVIOUS
<1>3. WorkOK(x) /\ x.at # "idle"
  BY <1>1, <1>2, CurIs DEF SafeInv, WorkInv
<1>4. JobOK(x.job) /\ x.job \in JobType
  BY <1>3 DEF WorkOK, JobOK
<1>5. faults' \in 0..MaxFaults /\ faults' > 0
  BY <1>1, FaultIs
<1>6. dropped' \subseteq Orders
  BY <1>1 DEF SafeInv, TablesInv
<1>7. /\ BooksInv' /\ ListInv' /\ TablesInv' /\ NewInv'
      /\ Recorded' = Recorded /\ (\A o : TradesOf(o)' = TradesOf(o))
      /\ \A i : JobOK(i)' <=> JobOK(i)
      /\ dbTrades' = dbTrades /\ positions' = positions
  BY <1>1, <1>5, <1>6, AllSame
<1>8. js \in Seq(JobType) /\ ToSet(js) = {x.job}
  BY <1>2, <1>4 DEF ToSet
<1>9. jobs' \in Seq(JobType) /\ ToSet(jobs') = ToSet(js) \union ToSet(jobs)
  BY <1>1, <1>2, <1>8, JobsBack DEF SafeInv
<1>10. JobsInv'
  <2>1. \A j \in ToSet(jobs') : JobOK(j)
    BY <1>4, <1>8, <1>9 DEF SafeInv, JobsInv
  <2>. QED
    BY <1>7, <1>9, <2>1 DEF JobsInv
<1>11. WorkInv'
  <2>1. \A v \in {work[u] : u \in Workers} : WorkOK(v)'
    BY <1>1, <1>7, RecordKept DEF SafeInv, WorkInv
  <2>. QED
    BY <1>1, <2>1 DEF SafeInv, WorkInv
<1>12. CoverInv'
  <2>1. Busy' = Busy
    BY <1>1 DEF Busy
  <2>2. ASSUME NEW o \in Recorded \ dropped
        PROVE  \/ TradesOf(o) \subseteq dbTrades
               \/ \E k \in DOMAIN jobs' : jobs'[k].order = o
               \/ \E v \in Busy : work[v].job.order = o
    BY <1>9, InQueue, InQueueThen DEF SafeInv, CoverInv
  <2>. QED
    BY <1>1, <1>7, <2>1, <2>2 DEF CoverInv
<1>. QED
  BY <1>5, <1>7, <1>10, <1>11, <1>12 DEF SafeInv

\* ... and a restart, which loses the book and what the workers were doing.
LEMMA RestartSafe ==
    ASSUME SafeInv, taker = NoOrder, Restart
    PROVE  SafeInv' /\ faults' > 0
<1>1. /\ jobs' = SetToSeq({work[w].job : w \in Busy}) \o jobs /\ work' = [w \in Workers |-> Idle]
      /\ UNCHANGED <<order, rem, status, createdAt, clock, taker, trades, platformFilled, direct, dbVars, dropped>>
      /\ routing' = {} /\ Fault
  BY DEF Restart, JobOf
<1>2. PICK S : S = {work[w].job : w \in Busy}
  OBVIOUS
<1>3. S \in SUBSET JobType /\ \A j \in S : JobOK(j)
  <2>1. ASSUME NEW w \in Busy PROVE JobOK(work[w].job) /\ work[w].job \in JobType
    <3>1. WorkOK(work[w]) /\ work[w].at # "idle"
      BY <2>1, CurIs DEF SafeInv, WorkInv, Busy
    <3>. QED
      BY <3>1 DEF WorkOK, JobOK
  <2>. QED
    BY <1>2, <2>1
<1>4. IsFiniteSet(S)
  <2>1. IsFiniteSet(Busy)
    BY WorkersAssumption, FS_Subset DEF Busy
  <2>2. PICK f : f = [w \in Busy |-> work[w].job]
    OBVIOUS
  <2>3. f \in Surjection(Busy, S)
    BY <1>2, <2>2 DEF Surjection
  <2>. QED
    BY <2>1, <2>3, FS_Surjection
<1>5. PICK js : js = SetToSeq(S)
  OBVIOUS
<1>6. js \in Seq(S) /\ ToSet(js) = S
  BY <1>4, <1>5, SetToSeqIs, Zenon
<1>7. js \in Seq(JobType)
  BY <1>3, <1>6
<1>8. jobs' = js \o jobs
  BY <1>1, <1>2, <1>5
<1>9. jobs' \in Seq(JobType) /\ ToSet(jobs') = S \union ToSet(jobs)
  BY <1>6, <1>7, <1>8, JobsBack, Zenon DEF SafeInv
<1>10. faults' \in 0..MaxFaults /\ faults' > 0
  BY <1>1, FaultIs
<1>11. TablesInv' /\ NewInv' /\ ListInv'
  BY <1>1, <1>10, TablesSame DEF SafeInv, TablesInv
<1>12. BooksInv'
  BY BooksRestart DEF SafeInv
<1>13. Recorded' = Recorded /\ dbTrades' = dbTrades /\ positions' = positions
  BY <1>1 DEF Recorded, dbVars
<1>14. \A o : TradesOf(o)' = TradesOf(o) /\ Made(o)' = Made(o) /\ Result(o)' = Result(o)
  BY <1>1 DEF TradesOf, ContractTrade, ResultTrades, PlatformTrade, PlatformPrice, BookTrades, Made, Result, ResultStatus
<1>15. ASSUME NEW j, JobOK(j) PROVE JobOK(j)'
  <2>1. PICK o : o = j.order
    OBVIOUS
  <2>2. TradesOf(o)' = TradesOf(o) /\ Made(o)' = Made(o) /\ Result(o)' = Result(o)
    BY <1>14
  <2>. QED
    BY <1>13, <1>15, <2>1, <2>2 DEF JobOK
<1>16. JobsInv'
  BY <1>3, <1>9, <1>15 DEF SafeInv, JobsInv
<1>17. WorkInv'
  <2>1. PICK y : y = Idle
    OBVIOUS
  <2>2. y \in WorkType /\ WorkOK(y)'
    BY <2>1, IdleIs
  <2>3. work' \in [Workers -> WorkType] /\ \A x \in {work'[v] : v \in Workers} : x = y
    BY <1>1, <2>1, <2>2
  <2>. QED
    BY <2>2, <2>3 DEF WorkInv
<1>18. CoverInv'
  <2>1. ASSUME NEW o \in Recorded \ dropped
        PROVE  TradesOf(o) \subseteq dbTrades \/ \E k \in DOMAIN jobs' : jobs'[k].order = o
    <3>1. ASSUME NEW v \in Busy, work[v].job.order = o PROVE \E j \in ToSet(jobs') : j.order = o
      <4>1. work[v].job \in S
        BY <1>2
      <4>. QED
        BY <1>9, <3>1, <4>1
    <3>. QED
      BY <1>9, <3>1, InQueue, InQueueThen DEF SafeInv, CoverInv
  <2>. QED
    BY <1>1, <1>13, <1>14, <2>1 DEF CoverInv
<1>. QED
  BY <1>10, <1>11, <1>12, <1>16, <1>17, <1>18 DEF SafeInv

----------------------------------------------------------------------------
(* What a job has still to apply, statement by statement. *)

\* The trades of a job from one on.
LEMMA FromIs ==
    ASSUME NEW x, x.job.trades \in Seq(JobTrade), IsInjective(x.job.trades)
    PROVE  /\ From(x, 1) = ToSet(x.job.trades)
           /\ \A i \in 1..Len(x.job.trades) :
                 /\ From(x, i) = From(x, i + 1) \union {x.job.trades[i]}
                 /\ x.job.trades[i] \notin From(x, i + 1)
                 /\ From(x, i) \subseteq ToSet(x.job.trades)
                 /\ From(x, i + 1) \subseteq ToSet(x.job.trades)
                 /\ ~(i < Len(x.job.trades)) => From(x, i + 1) = {}
<1>1. PICK tr, n : tr = x.job.trades /\ n = Len(tr)
  OBVIOUS
<1>2. /\ n \in Nat /\ DOMAIN tr = 1..n
      /\ \A i, k \in 1..n : tr[i] = tr[k] => i = k
  BY <1>1 DEF IsInjective
<1>3. \A i : From(x, i) = {tr[k] : k \in i..n}
  BY <1>1 DEF From
<1>4. ToSet(tr) = {tr[k] : k \in 1..n}
  BY <1>2 DEF ToSet
<1>5. ASSUME NEW i \in 1..n
      PROVE  /\ From(x, i) = From(x, i + 1) \union {tr[i]}
             /\ tr[i] \notin From(x, i + 1)
             /\ From(x, i) \subseteq ToSet(tr) /\ From(x, i + 1) \subseteq ToSet(tr)
             /\ ~(i < n) => From(x, i + 1) = {}
  <2>1. PICK A, B : A = i..n /\ B = (i + 1)..n
    OBVIOUS
  <2>2. /\ A = B \union {i} /\ i \notin B /\ A \subseteq 1..n /\ B \subseteq 1..n
        /\ ~(i < n) => B = {}
    BY <1>2, <2>1
  <2>3. From(x, i) = {tr[k] : k \in A} /\ From(x, i + 1) = {tr[k] : k \in B}
    BY <1>3, <2>1
  <2>4. tr[i] \notin From(x, i + 1)
    BY <1>2, <2>2, <2>3
  <2>. QED
    BY <1>4, <2>2, <2>3, <2>4
<1>. QED
  BY <1>1, <1>3, <1>4, <1>5

\* The five sets of trades that some step has still to see.
LeftAre(x, m, b, s, e, v) ==
    /\ MakersLeft(x) = m /\ BuysLeft(x) = b /\ SalesLeft(x) = s
    /\ SendsLeft(x) = e /\ VolumeLeft(x) = v

\* What is left at each statement.
LEMMA LeftIs ==
    ASSUME NEW x
    PROVE  /\ x.at \in {"idle", "order", "trades", "done"} => LeftAre(x, {}, {}, {}, {}, {})
           /\ x.at \in {"maker", "makerRow"} =>
                 LeftAre(x, From(x, x.i), From(x, 1), From(x, 1), From(x, 1), From(x, 1))
           /\ x.at \in {"buyer", "buyerRow"} =>
                 LeftAre(x, {}, From(x, x.i), From(x, x.i), From(x, 1), From(x, 1))
           /\ x.at \in {"seller", "sellerRow", "short"} =>
                 LeftAre(x, {}, From(x, x.i + 1), From(x, x.i), From(x, 1), From(x, 1))
           /\ x.at = "cre" => LeftAre(x, {}, {}, {}, From(x, 1), From(x, 1))
           /\ x.at = "volume" => LeftAre(x, {}, {}, {}, {}, From(x, 1))
BY DEF LeftAre, MakersLeft, BuysLeft, SalesLeft, SendsLeft, VolumeLeft, Looping

\* The statements at which nothing that is left changes.
Standing(x, y) ==
    /\ y.job = x.job /\ y.at \notin {"order", "trades", "short"}
    /\ MakersLeft(y) = MakersLeft(x) /\ BuysLeft(y) = BuysLeft(x) /\ SalesLeft(y) = SalesLeft(x)
    /\ SendsLeft(y) = SendsLeft(x) /\ VolumeLeft(y) = VolumeLeft(x)

\* Two records of the same job have the same trades from one on.
LEMMA SameFrom ==
    ASSUME NEW x, NEW y, y.job = x.job
    PROVE  \A i : From(y, i) = From(x, i)
BY DEF From

\* A row is read.
LEMMA ReadStands ==
    ASSUME NEW x, NEW at, NEW seen, NEW row, NEW y, y = Mid(x, at, seen, row),
           \/ x.at = "maker" /\ at = "makerRow"
           \/ x.at = "buyer" /\ at = "buyerRow"
           \/ x.at = "seller" /\ at = "sellerRow"
    PROVE  Standing(x, y) /\ y.at = at /\ y.i = x.i /\ y.seen = seen /\ y.row = row
<1>1. y.at = at /\ y.i = x.i /\ y.seen = seen /\ y.row = row /\ y.job = x.job
  BY DEF Mid
<1>2. \A i : From(y, i) = From(x, i)
  BY <1>1, SameFrom
<1>3. CASE x.at = "maker" /\ at = "makerRow"
  BY <1>1, <1>2, <1>3, LeftIs DEF LeftAre, Standing
<1>4. CASE x.at = "buyer" /\ at = "buyerRow"
  BY <1>1, <1>2, <1>4, LeftIs DEF LeftAre, Standing
<1>5. CASE x.at = "seller" /\ at = "sellerRow"
  BY <1>1, <1>2, <1>5, LeftIs DEF LeftAre, Standing
<1>. QED
  BY <1>3, <1>4, <1>5

\* The next round of a loop, or what follows it.
LEMMA RoundIs ==
    ASSUME NEW x, NEW y, NEW loop, NEW after, Round(x, y, loop, after),
           x.job.trades \in Seq(JobTrade), IsInjective(x.job.trades), x.i \in 1..Len(x.job.trades)
    PROVE  /\ y.job = x.job /\ \A k : From(y, k) = From(x, k)
           /\ \/ y.at = loop /\ y.i = x.i + 1
              \/ y.at = after /\ y.i = 1 /\ From(x, x.i + 1) = {}
<1>1. CASE x.i < Len(x.job.trades)
  <2>1. y.at = loop /\ y.job = x.job /\ y.i = x.i + 1
    BY <1>1 DEF Round, After
  <2>. QED
    BY <2>1, SameFrom
<1>2. CASE ~(x.i < Len(x.job.trades))
  <2>1. y.at = after /\ y.job = x.job /\ y.i = 1
    BY <1>2 DEF Round, After
  <2>. QED
    BY <1>2, <2>1, SameFrom, FromIs
<1>. QED
  BY <1>1, <1>2

\* A maker's row has been written.
LEMMA MakerLeft ==
    ASSUME NEW x, NEW y, x.at = "makerRow", Round(x, y, "maker", "buyer"),
           x.job.trades \in Seq(JobTrade), IsInjective(x.job.trades), x.i \in 1..Len(x.job.trades)
    PROVE  /\ y.job = x.job /\ y.at \in {"maker", "buyer"}
           /\ LeftAre(x, From(x, x.i), From(x, 1), From(x, 1), From(x, 1), From(x, 1))
           /\ LeftAre(y, From(x, x.i + 1), From(x, 1), From(x, 1), From(x, 1), From(x, 1))
<1>1. /\ y.job = x.job /\ \A k : From(y, k) = From(x, k)
      /\ \/ y.at = "maker" /\ y.i = x.i + 1
         \/ y.at = "buyer" /\ y.i = 1 /\ From(x, x.i + 1) = {}
  BY RoundIs
<1>2. LeftAre(x, From(x, x.i), From(x, 1), From(x, 1), From(x, 1), From(x, 1))
  BY LeftIs
<1>3. CASE y.at = "maker" /\ y.i = x.i + 1
  <2>1. LeftAre(y, From(y, y.i), From(y, 1), From(y, 1), From(y, 1), From(y, 1))
    BY <1>3, LeftIs
  <2>. QED
    BY <1>1, <1>2, <1>3, <2>1
<1>4. CASE y.at = "buyer" /\ y.i = 1 /\ From(x, x.i + 1) = {}
  <2>1. LeftAre(y, {}, From(y, y.i), From(y, y.i), From(y, 1), From(y, 1))
    BY <1>4, LeftIs
  <2>. QED
    BY <1>1, <1>2, <1>4, <2>1
<1>. QED
  BY <1>1, <1>3, <1>4

\* A purchase has been applied.
LEMMA BuyerLeft ==
    ASSUME NEW x, NEW y, x.at = "buyerRow", y = After(x, "seller", x.i)
    PROVE  /\ y.job = x.job /\ y.at = "seller"
           /\ LeftAre(x, {}, From(x, x.i), From(x, x.i), From(x, 1), From(x, 1))
           /\ LeftAre(y, {}, From(x, x.i + 1), From(x, x.i), From(x, 1), From(x, 1))
<1>1. y.at = "seller" /\ y.job = x.job /\ y.i = x.i
  BY DEF After
<1>2. \A k : From(y, k) = From(x, k)
  BY <1>1, SameFrom
<1>3. LeftAre(x, {}, From(x, x.i), From(x, x.i), From(x, 1), From(x, 1))
  BY LeftIs
<1>4. LeftAre(y, {}, From(y, y.i + 1), From(y, y.i), From(y, 1), From(y, 1))
  BY <1>1, LeftIs
<1>. QED
  BY <1>1, <1>2, <1>3, <1>4

\* A sale has been.
LEMMA SellerLeft ==
    ASSUME NEW x, NEW y, x.at \in {"sellerRow", "short"}, Round(x, y, "buyer", "cre"),
           x.job.trades \in Seq(JobTrade), IsInjective(x.job.trades), x.i \in 1..Len(x.job.trades)
    PROVE  /\ y.job = x.job /\ y.at \in {"buyer", "cre"}
           /\ LeftAre(x, {}, From(x, x.i + 1), From(x, x.i), From(x, 1), From(x, 1))
           /\ LeftAre(y, {}, From(x, x.i + 1), From(x, x.i + 1), From(x, 1), From(x, 1))
<1>1. /\ y.job = x.job /\ \A k : From(y, k) = From(x, k)
      /\ \/ y.at = "buyer" /\ y.i = x.i + 1
         \/ y.at = "cre" /\ y.i = 1 /\ From(x, x.i + 1) = {}
  BY RoundIs
<1>2. LeftAre(x, {}, From(x, x.i + 1), From(x, x.i), From(x, 1), From(x, 1))
  BY LeftIs
<1>3. CASE y.at = "buyer" /\ y.i = x.i + 1
  <2>1. LeftAre(y, {}, From(y, y.i), From(y, y.i), From(y, 1), From(y, 1))
    BY <1>3, LeftIs
  <2>. QED
    BY <1>1, <1>2, <1>3, <2>1
<1>4. CASE y.at = "cre" /\ y.i = 1 /\ From(x, x.i + 1) = {}
  <2>1. LeftAre(y, {}, {}, {}, From(y, 1), From(y, 1))
    BY <1>4, LeftIs
  <2>. QED
    BY <1>1, <1>2, <1>4, <2>1
<1>. QED
  BY <1>1, <1>3, <1>4

\* The sale has closed a LONG row that did not cover it.
LEMMA ShortLeft ==
    ASSUME NEW x, NEW y, x.at = "sellerRow", y = Mid(x, "short", x.seen, x.row)
    PROVE  /\ y.job = x.job /\ y.at = "short" /\ y.i = x.i /\ y.row = x.row
           /\ LeftAre(x, {}, From(x, x.i + 1), From(x, x.i), From(x, 1), From(x, 1))
           /\ LeftAre(y, {}, From(x, x.i + 1), From(x, x.i), From(x, 1), From(x, 1))
<1>1. y.at = "short" /\ y.job = x.job /\ y.i = x.i /\ y.row = x.row
  BY DEF Mid
<1>2. \A k : From(y, k) = From(x, k)
  BY <1>1, SameFrom
<1>3. LeftAre(x, {}, From(x, x.i + 1), From(x, x.i), From(x, 1), From(x, 1))
  BY LeftIs
<1>4. LeftAre(y, {}, From(y, y.i + 1), From(y, y.i), From(y, 1), From(y, 1))
  BY <1>1, LeftIs
<1>. QED
  BY <1>1, <1>2, <1>3, <1>4

\* The statements outside the loops.
LEMMA OthersLeft ==
    ASSUME NEW x, NEW y, y.job = x.job
    PROVE  /\ y.at = "maker" /\ y.i = 1 =>
                 LeftAre(y, From(x, 1), From(x, 1), From(x, 1), From(x, 1), From(x, 1))
           /\ y.at = "volume" => LeftAre(y, {}, {}, {}, {}, From(x, 1))
<1>1. \A k : From(y, k) = From(x, k)
  BY SameFrom
<1>2. CASE y.at = "maker" /\ y.i = 1
  <2>1. LeftAre(y, From(y, y.i), From(y, 1), From(y, 1), From(y, 1), From(y, 1))
    BY <1>2, LeftIs
  <2>. QED
    BY <1>1, <1>2, <2>1
<1>3. CASE y.at = "volume"
  <2>1. LeftAre(y, {}, {}, {}, {}, From(y, 1))
    BY <1>3, LeftIs
  <2>. QED
    BY <1>1, <1>3, <2>1
<1>. QED
  BY <1>2, <1>3

----------------------------------------------------------------------------
(* As long as nothing has failed: what the statements leave alone. *)

\* A worker takes a step, and nothing has failed.
Only(w, x, y) == Running(w, x, y) /\ SafeInv' /\ Exact(x)

\* What is known of such a step.
LEMMA OnlyFacts ==
    ASSUME NEW w, NEW x, NEW y, Only(w, x, y)
    PROVE  /\ Running(w, x, y) /\ JobOK(x.job) /\ IsInjective(x.job.trades)
           /\ x.job.trades \in Seq(JobTrade) /\ x \in WorkType /\ WorkOK(x) /\ WorkInv
           /\ order' = order /\ Recorded' = Recorded /\ jobs' = jobs /\ Queued' = Queued
           /\ \A o : Made(o)' = Made(o) /\ Result(o)' = Result(o) /\ ByContract(o)' = ByContract(o)
           /\ \A t : BuyerAcct(t)' = BuyerAcct(t) /\ SellerAcct(t)' = SellerAcct(t)
           /\ \A j : ChainOf(j)' = ChainOf(j)
           /\ w \in Busy /\ Busy' \subseteq Busy /\ (y = Idle => Busy' = {})
           /\ positions \in Seq(RowType) /\ positions' \in Seq(RowType)
<1>1. Running(w, x, y) /\ SafeInv' /\ LineInv(x)
  BY DEF Only, Exact
<1>2. /\ w \in Workers /\ x = work[w] /\ x.at # "idle" /\ JobOK(x.job) /\ x \in WorkType /\ WorkOK(x)
      /\ x.job.trades \in Seq(JobTrade) /\ UNCHANGED engineVars /\ jobs' = jobs
      /\ work \in [Workers -> WorkType] /\ work' = [work EXCEPT ![w] = y]
  BY <1>1, RunningFacts
<1>3. IsInjective(x.job.trades)
  BY <1>2 DEF JobOK
<1>4. /\ order' = order /\ Recorded' = Recorded
      /\ \A o : Made(o)' = Made(o) /\ Result(o)' = Result(o) /\ ByContract(o)' = ByContract(o)
      /\ \A t : BuyerAcct(t)' = BuyerAcct(t) /\ SellerAcct(t)' = SellerAcct(t)
      /\ \A j : ChainOf(j)' = ChainOf(j)
  BY <1>2, EngineSame
<1>5. Queued' = Queued
  BY <1>2 DEF Queued
<1>6. w \in Busy
  <2>1. x # Idle
    BY <1>2 DEF Idle
  <2>. QED
    BY <1>2, <2>1 DEF Busy
<1>7. Busy = {w}
  BY <1>1, <1>6 DEF LineInv
<1>8. \A v \in Workers \ {w} : work'[v] = Idle
  <2>1. \A v \in Workers \ {w} : work[v] = Idle
    BY <1>7 DEF Busy
  <2>. QED
    BY <1>2, <2>1
<1>9. Busy' \subseteq {w}
  BY <1>8 DEF Busy
<1>10. y = Idle => Busy' = {}
  <2>1. ASSUME y = Idle PROVE work'[w] = Idle
    BY <1>2, <2>1
  <2>. QED
    BY <1>8, <2>1 DEF Busy
<1>11. positions \in Seq(RowType) /\ positions' \in Seq(RowType)
  BY <1>1 DEF Running, SafeInv, TablesInv
<1>12. WorkInv
  BY <1>1 DEF Running
<1>. QED
  BY <1>1, <1>2, <1>3, <1>4, <1>5, <1>6, <1>7, <1>9, <1>10, <1>11, <1>12

\* The rows of the Trade table, before and after.
LEMMA OnlyTrades ==
    ASSUME NEW w, NEW x, NEW y, Only(w, x, y)
    PROVE  /\ IsFiniteSet(dbTrades) /\ IsFiniteSet(dbTrades')
           /\ \A t \in dbTrades \union dbTrades' \union ToSet(x.job.trades) :
                 Known(t) /\ t.qty \in Nat /\ t.price \in Nat
           /\ \A t \in ToSet(x.job.trades) : t.taker = x.job.order
<1>1. BooksInv /\ ListInv /\ TablesInv /\ TablesInv' /\ JobOK(x.job)
  BY OnlyFacts DEF Only, Running, SafeInv
<1>2. AllTrades' = AllTrades
  BY RunningFacts, EngineSame DEF Only
<1>3. dbTrades \subseteq AllTrades /\ dbTrades' \subseteq AllTrades /\ ToSet(x.job.trades) \subseteq AllTrades
  <2>1. dbTrades \subseteq AllTrades
    BY <1>1 DEF TablesInv
  <2>2. dbTrades' \subseteq AllTrades
    BY <1>1, <1>2 DEF TablesInv
  <2>3. ToSet(x.job.trades) \subseteq AllTrades
    BY <1>1, KnownTrades
  <2>. QED
    BY <2>1, <2>2, <2>3
<1>4. \A t \in AllTrades : Known(t)
  BY <1>1, KnownTrades
<1>5. \A t : Known(t) => t.qty \in Nat /\ t.price \in Nat
  BY DEF Known, JobTrade
<1>6. IsFiniteSet(dbTrades) /\ IsFiniteSet(dbTrades')
  BY <1>1, <1>3, AllTradesAre, FS_Subset
<1>7. \A t \in ToSet(x.job.trades) : t.taker = x.job.order
  BY <1>1, KnownTrades
<1>. QED
  BY <1>3, <1>4, <1>5, <1>6, <1>7

\* The order of the jobs.
LEMMA LineStep ==
    ASSUME NEW w, NEW x, NEW y, Only(w, x, y), dbTrades' \subseteq dbTrades \union ToSet(x.job.trades),
           \/ y.job = x.job /\ y.at \notin {"order", "trades"}
           \/ y.job = x.job /\ x.at = "order" /\ y.at = "trades" /\ dbTrades' = dbTrades
           \/ y = Idle
    PROVE  LineInv(y)' /\ DoneInv(y)'
<1>1. /\ LineInv(x) /\ DoneInv(x) /\ w \in Busy /\ Busy' \subseteq Busy /\ (y = Idle => Busy' = {})
      /\ jobs' = jobs /\ Queued' = Queued
  BY OnlyFacts DEF Only, Exact
<1>2. \A t \in ToSet(x.job.trades) : t.taker = x.job.order
  BY OnlyTrades
<1>3. y.at # "order" /\ (y = Idle => y.at = "idle" /\ ToSet(y.job.trades) = {})
  <2>1. ToSet(NoJob.trades) = {}
    BY DEF NoJob, ToSet
  <2>. QED
    BY <2>1 DEF Idle
<1>4. \A t \in dbTrades' \union ToSet(y.job.trades) : t \in dbTrades \union ToSet(x.job.trades)
  BY <1>3
<1>5. x.job.order \notin Queued
  BY <1>1 DEF LineInv
<1>6. LineInv(y)'
  <2>1. \A v, u \in Busy' : v = u
    BY <1>1 DEF LineInv
  <2>2. Busy' # {} => y.job.order \notin Queued'
    BY <1>1, <1>5
  <2>3. \A t \in dbTrades' \union ToSet(y.job.trades) : t.maker \notin Queued'
    BY <1>1, <1>4 DEF LineInv
  <2>4. /\ \A k, l \in DOMAIN jobs' : jobs'[k].order = jobs'[l].order => k = l
        /\ \A k, l \in DOMAIN jobs' : k <= l =>
              \A t \in ToSet(jobs'[k].trades) : t.maker # jobs'[l].order
    BY <1>1 DEF LineInv
  <2>. QED
    BY <1>3, <2>1, <2>2, <2>3, <2>4 DEF LineInv
<1>7. DoneInv(y)'
  <2>1. ASSUME NEW t \in dbTrades' PROVE t.taker \notin Queued'
    BY <1>1, <1>2, <1>5, <2>1 DEF DoneInv
  <2>2. ASSUME NEW t \in dbTrades', y.at \in {"order", "trades"} PROVE t.taker # y.job.order
    <3>1. y.job = x.job /\ x.at = "order" /\ dbTrades' = dbTrades
      BY <1>3, <2>2
    <3>. QED
      BY <1>1, <2>2, <3>1 DEF DoneInv
  <2>. QED
    BY <2>1, <2>2 DEF DoneInv
<1>. QED
  BY <1>6, <1>7

\* The rows of the orders.
LEMMA RowsFrame ==
    ASSUME NEW w, NEW x, NEW y, Only(w, x, y), dbStatus' = dbStatus,
           dbTrades' \ MakersLeft(y) = dbTrades \ MakersLeft(x),
           x.at # "order", y.at # "order",
           y.at = "makerRow" => y.seen = IF y.job.trades[y.i].maker \in Orders
                                         THEN dbStatus[y.job.trades[y.i].maker] ELSE "none"
    PROVE  RowsInv(y)'
<1>1. RowsInv(x) /\ Recorded' = Recorded /\ Queued' = Queued /\ order' = order
      /\ \A o : Made(o)' = Made(o) /\ Result(o)' = Result(o)
  BY OnlyFacts DEF Only, Exact
<1>2. \A o : Seen(y, o)' = Seen(x, o)
  BY DEF Seen
<1>3. ASSUME NEW o, RowOK(x, o) PROVE RowOK(y, o)'
  BY <1>1, <1>2, <1>3 DEF RowOK
<1>4. \A o \in Recorded \ Queued : RowOK(x, o)
  BY <1>1 DEF RowsInv
<1>. QED
  BY <1>1, <1>3, <1>4 DEF RowsInv

\* The positions.
LEMMA LongFrame ==
    ASSUME NEW w, NEW x, NEW y, Only(w, x, y), positions' = positions, y.at \notin {"buyerRow", "sellerRow"}
    PROVE  LongInv(y)'
<1>1. LongInv(x)
  BY DEF Only, Exact
<1>. QED
  BY <1>1 DEF LongInv, OneLong

\* Their sums.
LEMMA NetFrame ==
    ASSUME NEW w, NEW x, NEW y, Only(w, x, y), positions' = positions,
           dbTrades' \ BuysLeft(y) = dbTrades \ BuysLeft(x),
           dbTrades' \ SalesLeft(y) = dbTrades \ SalesLeft(x),
           x.at # "short", y.at # "short"
    PROVE  NetInv(y)'
<1>1. /\ NetInv(x) /\ positions \in Seq(RowType)
      /\ \A t : BuyerAcct(t)' = BuyerAcct(t) /\ SellerAcct(t)' = SellerAcct(t)
  BY OnlyFacts DEF Only, Exact
<1>2. \A a : Buys(y, a)' = Buys(x, a) /\ Sales(y, a)' = Sales(x, a)
  BY <1>1 DEF Buys, Sales
<1>3. \A a : HalfSold(y, a)' = HalfSold(x, a)
  BY DEF HalfSold
<1>4. \A a : Net(a)' = Net(a)
  <2>1. NetsAre
    BY <1>1, NetIs
  <2>2. (positions \in Seq(RowType))'
    BY <1>1
  <2>3. NetsAre'
    BY <2>2, NetIs, PTL
  <2>. QED
    BY <2>1, <2>3 DEF NetsAre
<1>5. ASSUME NEW a \in Accounts
      PROVE  Net(a)' = QtySum(Buys(y, a)') - QtySum(Sales(y, a)') + Supply(a) - HalfSold(y, a)'
  <2>1. Net(a) = QtySum(Buys(x, a)) - QtySum(Sales(x, a)) + Supply(a) - HalfSold(x, a)
    BY <1>1 DEF NetInv
  <2>2. QtySum(Buys(y, a)') = QtySum(Buys(x, a)) /\ QtySum(Sales(y, a)') = QtySum(Sales(x, a))
    BY <1>2
  <2>. QED
    BY <1>3, <1>4, <2>1, <2>2
<1>. QED
  BY <1>5, Zenon DEF NetInv

\* The volume.
LEMMA VolumeFrame ==
    ASSUME NEW x, NEW y, VolumeInv(x), volume' = volume,
           dbTrades' \ VolumeLeft(y) = dbTrades \ VolumeLeft(x)
    PROVE  VolumeInv(y)'
<1>1. CostSum(dbTrades' \ VolumeLeft(y)) = CostSum(dbTrades \ VolumeLeft(x))
  BY Zenon
<1>. QED
  BY <1>1 DEF VolumeInv

\* What is sent for the agents' orders.
LEMMA SentFrame ==
    ASSUME NEW w, NEW x, NEW y, Only(w, x, y), sent' = sent,
           dbTrades' \ SendsLeft(y) = dbTrades \ SendsLeft(x)
    PROVE  SentInv(y)'
<1>1. SentInv(x) /\ order' = order /\ \A o : ByContract(o)' = ByContract(o)
  BY OnlyFacts DEF Only, Exact
<1>2. \A o : Sent(y, o)' = Sent(x, o)
  BY DEF Sent
<1>3. ASSUME NEW o \in Orders, order'[o].who.kind = "agent", HasSignature(o)'
      PROVE  sent'[o] = Cardinality(Sent(y, o)') + ByRoute(o)'
  <2>1. order[o].who.kind = "agent" /\ HasSignature(o)
    BY <1>1, <1>3 DEF HasSignature
  <2>2. Cardinality(Sent(y, o)') = Cardinality(Sent(x, o))
    BY <1>2
  <2>3. ByRoute(o)' = ByRoute(o)
    BY <1>1, Zenon DEF ByRoute
  <2>4. sent[o] = Cardinality(Sent(x, o)) + ByRoute(o)
    BY <1>1, <2>1 DEF SentInv
  <2>. QED
    BY <2>2, <2>3, <2>4
<1>. QED
  BY <1>3, Zenon DEF SentInv

----------------------------------------------------------------------------
(* The statements that write no position. *)

\* The Order row of the job.
LEMMA OrderExact ==
    ASSUME NEW w, NEW x, NEW y, Only(w, x, y), OrderWritten(x, y)
    PROVE  Exact(y)'
<1>1. /\ x.at = "order" /\ y.job = x.job /\ y.at \in {"done", "trades"}
      /\ dbStatus' = [dbStatus EXCEPT ![x.job.order] = x.job.status]
      /\ dbTrades' = dbTrades /\ positions' = positions /\ volume' = volume /\ sent' = sent
  BY DEF OrderWritten, After, AfterOrder
<1>2. LineInv(y)' /\ DoneInv(y)'
  BY <1>1, LineStep
<1>3. LeftAre(x, {}, {}, {}, {}, {}) /\ LeftAre(y, {}, {}, {}, {}, {})
  BY <1>1, LeftIs
<1>4. /\ MakersLeft(x) = {} /\ BuysLeft(x) = {} /\ SalesLeft(x) = {} /\ SendsLeft(x) = {} /\ VolumeLeft(x) = {}
      /\ MakersLeft(y) = {} /\ BuysLeft(y) = {} /\ SalesLeft(y) = {} /\ SendsLeft(y) = {} /\ VolumeLeft(y) = {}
  BY <1>3 DEF LeftAre
<1>5. LongInv(y)'
  BY <1>1, LongFrame
<1>6. NetInv(y)'
  BY <1>1, <1>4, NetFrame
<1>7. VolumeInv(y)'
  BY <1>1, <1>4, VolumeFrame DEF Only, Exact
<1>8. SentInv(y)'
  BY <1>1, <1>4, SentFrame
<1>9. RowsInv(y)'
  <2>1. /\ RowsInv(x) /\ LineInv(x) /\ Recorded' = Recorded /\ Queued' = Queued /\ order' = order
        /\ \A o : Made(o)' = Made(o) /\ Result(o)' = Result(o)
        /\ JobOK(x.job) /\ dbStatus \in [Orders -> Status \union {"none"}]
    BY OnlyFacts DEF Only, Exact, Running, TablesInv
  <2>2. \A o : Seen(y, o)' = Seen(x, o)
    BY <1>1, <1>4 DEF Seen
  <2>3. ASSUME NEW o \in Recorded \ Queued, o # x.job.order PROVE RowOK(y, o)'
    <3>1. RowOK(x, o)
      BY <2>1, <2>3 DEF RowsInv
    <3>2. dbStatus'[o] = dbStatus[o]
      BY <1>1, <2>1, <2>3 DEF Recorded
    <3>. QED
      BY <2>1, <2>2, <3>1, <3>2 DEF RowOK
  <2>4. ASSUME NEW o, o = x.job.order PROVE RowOK(y, o)'
    <3>1. dbStatus'[o] = x.job.status
      <4>1. o \in Orders
        BY <2>1, <2>4 DEF JobOK, Recorded
      <4>. QED
        BY <1>1, <2>1, <2>4, <4>1
    <3>2. Seen(x, o) = {}
      BY <1>1, <2>1, <2>4 DEF LineInv, Seen
    <3>3. IF Made(o) = {} THEN x.job.status = Result(o) ELSE x.job.status \in RestingStatus
      BY <2>1, <2>4 DEF JobOK
    <3>. QED
      BY <2>1, <2>2, <3>1, <3>2, <3>3 DEF RowOK
  <2>. QED
    BY <1>1, <2>1, <2>3, <2>4 DEF RowsInv
<1>. QED
  BY <1>2, <1>5, <1>6, <1>7, <1>8, <1>9 DEF Exact

\* The Trade rows.
LEMMA TradesExact ==
    ASSUME NEW w, NEW x, NEW y, Only(w, x, y), TradesWritten(x, y)
    PROVE  Exact(y)'
<1>1. /\ x.at = "trades" /\ y.job = x.job /\ y.at = "maker" /\ y.i = 1
      /\ dbTrades' = dbTrades \union ToSet(x.job.trades)
      /\ dbStatus' = dbStatus /\ positions' = positions /\ volume' = volume /\ sent' = sent
  BY DEF TradesWritten, After
<1>2. LineInv(y)' /\ DoneInv(y)'
  BY <1>1, LineStep
<1>3. From(x, 1) = ToSet(x.job.trades)
  BY OnlyFacts, FromIs
<1>4. \A t \in dbTrades : t \notin ToSet(x.job.trades)
  <2>1. \A t \in dbTrades : t.taker # x.job.order
    BY <1>1 DEF Only, Exact, DoneInv
  <2>. QED
    BY <2>1, OnlyTrades
<1>5. dbTrades' \ From(x, 1) = dbTrades
  BY <1>1, <1>3, <1>4
<1>6. /\ MakersLeft(x) = {} /\ BuysLeft(x) = {} /\ SalesLeft(x) = {} /\ SendsLeft(x) = {} /\ VolumeLeft(x) = {}
  BY <1>1, LeftIs DEF LeftAre
<1>7. /\ MakersLeft(y) = From(x, 1) /\ BuysLeft(y) = From(x, 1) /\ SalesLeft(y) = From(x, 1)
      /\ SendsLeft(y) = From(x, 1) /\ VolumeLeft(y) = From(x, 1)
  BY <1>1, OthersLeft DEF LeftAre
<1>8. RowsInv(y)'
  BY <1>1, <1>5, <1>6, <1>7, RowsFrame
<1>9. LongInv(y)'
  BY <1>1, LongFrame
<1>10. NetInv(y)'
  BY <1>1, <1>5, <1>6, <1>7, NetFrame
<1>11. VolumeInv(y)'
  BY <1>1, <1>5, <1>6, <1>7, VolumeFrame DEF Only, Exact
<1>12. SentInv(y)'
  BY <1>1, <1>5, <1>6, <1>7, SentFrame
<1>. QED
  BY <1>2, <1>8, <1>9, <1>10, <1>11, <1>12 DEF Exact

\* A maker's row is read.
LEMMA MakerReadExact ==
    ASSUME NEW w, NEW x, NEW y, NEW m, Only(w, x, y), MakerRead(x, y, m)
    PROVE  Exact(y)'
<1>1. PICK s : s = IF m \in Orders THEN dbStatus[m] ELSE "none"
  OBVIOUS
<1>2. /\ x.at = "maker" /\ m = x.job.trades[x.i].maker /\ y = Mid(x, "makerRow", s, x.row)
      /\ dbTrades' = dbTrades /\ dbStatus' = dbStatus /\ positions' = positions
      /\ volume' = volume /\ sent' = sent
  BY <1>1 DEF MakerRead, dbVars
<1>3. Standing(x, y) /\ y.at = "makerRow" /\ y.i = x.i /\ y.seen = s
  BY <1>2, ReadStands
<1>4. /\ y.job = x.job
      /\ MakersLeft(y) = MakersLeft(x) /\ BuysLeft(y) = BuysLeft(x) /\ SalesLeft(y) = SalesLeft(x)
      /\ SendsLeft(y) = SendsLeft(x) /\ VolumeLeft(y) = VolumeLeft(x)
  BY <1>3 DEF Standing
<1>5. LineInv(y)' /\ DoneInv(y)'
  BY <1>2, <1>3, <1>4, LineStep
<1>6. y.seen = IF y.job.trades[y.i].maker \in Orders THEN dbStatus[y.job.trades[y.i].maker] ELSE "none"
  BY <1>1, <1>2, <1>3, <1>4
<1>7. RowsInv(y)'
  BY <1>2, <1>3, <1>4, <1>6, RowsFrame
<1>8. LongInv(y)'
  BY <1>2, <1>3, LongFrame
<1>9. NetInv(y)'
  BY <1>2, <1>3, <1>4, NetFrame
<1>10. VolumeInv(y)'
  BY <1>2, <1>4, VolumeFrame DEF Only, Exact
<1>11. SentInv(y)'
  BY <1>2, <1>4, SentFrame
<1>. QED
  BY <1>5, <1>7, <1>8, <1>9, <1>10, <1>11 DEF Exact

\* The last of the job: it is done.
LEMMA DoneExact ==
    ASSUME NEW w, NEW x, NEW y, Only(w, x, y), JobDone(x, y)
    PROVE  Exact(y)'
<1>1. /\ x.at = "done" /\ y = Idle /\ y.at = "idle"
      /\ dbTrades' = dbTrades /\ dbStatus' = dbStatus /\ positions' = positions
      /\ volume' = volume /\ sent' = sent
  BY DEF JobDone, dbVars, Idle
<1>2. LineInv(y)' /\ DoneInv(y)'
  BY <1>1, LineStep
<1>3. /\ MakersLeft(x) = {} /\ BuysLeft(x) = {} /\ SalesLeft(x) = {} /\ SendsLeft(x) = {} /\ VolumeLeft(x) = {}
      /\ MakersLeft(y) = {} /\ BuysLeft(y) = {} /\ SalesLeft(y) = {} /\ SendsLeft(y) = {} /\ VolumeLeft(y) = {}
  BY <1>1, LeftIs DEF LeftAre
<1>4. RowsInv(y)'
  BY <1>1, <1>3, RowsFrame
<1>5. LongInv(y)'
  BY <1>1, LongFrame
<1>6. NetInv(y)'
  BY <1>1, <1>3, NetFrame
<1>7. VolumeInv(y)'
  BY <1>1, <1>3, VolumeFrame DEF Only, Exact
<1>8. SentInv(y)'
  BY <1>1, <1>3, SentFrame
<1>. QED
  BY <1>2, <1>4, <1>5, <1>6, <1>7, <1>8 DEF Exact

\* The volume is added.
LEMMA VolumeExact ==
    ASSUME NEW w, NEW x, NEW y, Only(w, x, y), VolumeAdded(x, y)
    PROVE  Exact(y)'
<1>1. /\ x.at = "volume" /\ y.job = x.job /\ y.at = "done"
      /\ dbTrades' = dbTrades /\ dbStatus' = dbStatus /\ positions' = positions
      /\ volume' = volume + VolumeDelta(x.job) /\ sent' = sent
  BY DEF VolumeAdded, After
<1>2. LineInv(y)' /\ DoneInv(y)'
  BY <1>1, LineStep
<1>3. /\ MakersLeft(x) = {} /\ BuysLeft(x) = {} /\ SalesLeft(x) = {} /\ SendsLeft(x) = {}
      /\ VolumeLeft(x) = From(x, 1)
      /\ MakersLeft(y) = {} /\ BuysLeft(y) = {} /\ SalesLeft(y) = {} /\ SendsLeft(y) = {} /\ VolumeLeft(y) = {}
  BY <1>1, LeftIs DEF LeftAre
<1>4. RowsInv(y)'
  BY <1>1, <1>3, RowsFrame
<1>5. LongInv(y)'
  BY <1>1, LongFrame
<1>6. NetInv(y)'
  BY <1>1, <1>3, NetFrame
<1>7. VolumeInv(y)'
  <2>1. PICK j, D : j = x.job /\ D = dbTrades \ ToSet(x.job.trades)
    OBVIOUS
  <2>2. /\ j.trades \in Seq(JobTrade) /\ IsInjective(j.trades)
        /\ From(x, 1) = ToSet(j.trades)
    BY <2>1, OnlyFacts, FromIs
  <2>3. volume = CostSum(D) /\ volume \in Nat
    <3>1. VolumeInv(x) /\ TablesInv
      BY DEF Only, Exact, Running
    <3>2. D = dbTrades \ VolumeLeft(x)
      BY <1>3, <2>1, <2>2
    <3>3. CostSum(D) = CostSum(dbTrades \ VolumeLeft(x))
      BY <3>2, Zenon
    <3>. QED
      BY <3>1, <3>3 DEF VolumeInv, TablesInv
  <2>4. IsFiniteSet(D) /\ \A t \in D : t.price * t.qty \in Nat /\ t \notin ToSet(j.trades)
    <3>1. IsFiniteSet(D)
      BY <2>1, OnlyTrades, FS_Subset
    <3>2. \A t \in D : t.price \in Nat /\ t.qty \in Nat
      BY <2>1, OnlyTrades
    <3>3. \A t \in D : t.price * t.qty \in Nat
      BY <3>2, ProductIsNat
    <3>4. \A t \in D : t \notin ToSet(j.trades)
      BY <2>1
    <3>. QED
      BY <3>1, <3>3, <3>4
  <2>5. CostSum(D) \in Nat
    BY <2>3
  <2>6. CostSum(D \union ToSet(j.trades)) = CostSum(D) + VolumeDelta(j)
    BY <2>2, <2>4, <2>5, VolumeIs
  <2>7. D \union ToSet(j.trades) = dbTrades' \ VolumeLeft(y)
    <3>1. ToSet(x.job.trades) \subseteq dbTrades
      BY <1>1, OnlyFacts DEF WorkOK, Written
    <3>. QED
      BY <1>1, <1>3, <2>1, <3>1
  <2>8. CostSum(dbTrades' \ VolumeLeft(y)) = CostSum(D \union ToSet(j.trades))
    BY <2>7, Zenon
  <2>. QED
    BY <1>1, <2>1, <2>3, <2>6, <2>8 DEF VolumeInv
<1>8. SentInv(y)'
  BY <1>1, <1>3, SentFrame
<1>. QED
  BY <1>2, <1>4, <1>5, <1>6, <1>7, <1>8 DEF Exact

\* A maker's row is written.
LEMMA MakerWrittenExact ==
    ASSUME NEW w, NEW x, NEW y, NEW t, Only(w, x, y), MakerWritten(x, y, t)
    PROVE  Exact(y)'
<1>1. /\ x.at = "makerRow" /\ t = x.job.trades[x.i] /\ Round(x, y, "maker", "buyer")
      /\ dbStatus' = IF x.seen \in {"none", "FILLED"} THEN dbStatus
                     ELSE [dbStatus EXCEPT ![t.maker] = MakerStatus(t.qty, order[t.maker].qty)]
      /\ dbTrades' = dbTrades /\ positions' = positions /\ volume' = volume /\ sent' = sent
  BY DEF MakerWritten
<1>2. /\ x.job.trades \in Seq(JobTrade) /\ IsInjective(x.job.trades) /\ x.i \in 1..Len(x.job.trades)
      /\ ToSet(x.job.trades) \subseteq dbTrades
  BY <1>1, OnlyFacts DEF WorkOK, Looping, Written
<1>3. PICK A, B, T : A = From(x, x.i) /\ B = From(x, x.i + 1) /\ T = From(x, 1)
  OBVIOUS
<1>4. /\ y.job = x.job /\ y.at \in {"maker", "buyer"}
      /\ LeftAre(x, A, T, T, T, T) /\ LeftAre(y, B, T, T, T, T)
  BY <1>1, <1>2, <1>3, MakerLeft
<1>5. /\ MakersLeft(x) = A /\ BuysLeft(x) = T /\ SalesLeft(x) = T /\ SendsLeft(x) = T /\ VolumeLeft(x) = T
      /\ MakersLeft(y) = B /\ BuysLeft(y) = T /\ SalesLeft(y) = T /\ SendsLeft(y) = T /\ VolumeLeft(y) = T
  BY <1>4 DEF LeftAre
<1>6. A = B \union {t} /\ t \notin B /\ t \in dbTrades /\ t \in ToSet(x.job.trades)
  BY <1>1, <1>2, <1>3, FromIs DEF ToSet
<1>7. LineInv(y)' /\ DoneInv(y)'
  BY <1>1, <1>4, LineStep
<1>8. LongInv(y)'
  BY <1>1, <1>4, LongFrame
<1>9. NetInv(y)'
  BY <1>1, <1>4, <1>5, NetFrame
<1>10. VolumeInv(y)'
  BY <1>1, <1>5, VolumeFrame DEF Only, Exact
<1>11. SentInv(y)'
  BY <1>1, <1>5, SentFrame
<1>12. RowsInv(y)'
  <2>1. /\ RowsInv(x) /\ LineInv(x) /\ Recorded' = Recorded /\ Queued' = Queued /\ order' = order
        /\ \A o : Made(o)' = Made(o) /\ Result(o)' = Result(o)
        /\ dbStatus \in [Orders -> Status \union {"none"}]
    BY OnlyFacts DEF Only, Exact, Running, TablesInv
  <2>2. PICK m : m = t.maker
    OBVIOUS
  <2>3. \A o : Seen(y, o)' = {u \in dbTrades \ B : u.maker = o} /\ Seen(x, o) = {u \in dbTrades \ A : u.maker = o}
    BY <1>1, <1>5 DEF Seen
  <2>4. \A o \in Recorded \ Queued : RowOK(x, o)
    BY <1>1, <2>1 DEF RowsInv
  <2>5. ASSUME NEW o \in Recorded \ Queued, o # m PROVE RowOK(y, o)'
    <3>1. Seen(y, o)' = Seen(x, o)
      BY <1>6, <2>2, <2>3, <2>5
    <3>2. dbStatus'[o] = dbStatus[o]
      BY <1>1, <2>1, <2>2, <2>5 DEF Recorded
    <3>3. RowOK(x, o)
      BY <2>4
    <3>. QED
      BY <2>1, <3>1, <3>2, <3>3 DEF RowOK
  <2>6. ASSUME m \in Recorded \ Queued PROVE RowOK(y, m)'
    <3>1. m \in Orders /\ x.seen = dbStatus[m]
      BY <1>1, <2>1, <2>2, <2>6 DEF RowsInv, Recorded
    <3>2. RowOK(x, m)
      BY <2>4, <2>6
    <3>3. Made(m) # {}
      <4>1. BooksInv /\ ListInv
        BY OnlyFacts DEF Running
      <4>2. t \in AllTrades
        BY <1>6, OnlyFacts, RunningFacts
      <4>3. t \in ToSet(trades)
        BY <2>2, <3>1, <4>1, <4>2, AllTradesAre
      <4>. QED
        BY <2>2, <4>3 DEF Made
    <3>4. PICK S, R, q : S = Seen(x, m) /\ R = Seen(y, m)' /\ q = order[m].qty
      OBVIOUS
    <3>5. R = S \union {t}
      BY <1>6, <2>2, <2>3, <3>4
    <3>6. IF S # {} THEN dbStatus[m] = IF \E u \in S : u.qty >= q THEN "FILLED" ELSE "PARTIALLY_FILLED"
          ELSE dbStatus[m] \in {"LIVE", "PARTIALLY_FILLED"}
      BY <3>2, <3>3, <3>4 DEF RowOK, RestingStatus
    <3>7. dbStatus'[m] = IF \E u \in R : u.qty >= q THEN "FILLED" ELSE "PARTIALLY_FILLED"
      <4>1. CASE x.seen = "FILLED"
        <5>1. dbStatus' = dbStatus
          BY <1>1, <4>1
        <5>2. \E u \in S : u.qty >= q
          BY <3>1, <3>6, <4>1
        <5>. QED
          BY <3>1, <3>5, <4>1, <5>1, <5>2
      <4>2. CASE x.seen # "FILLED"
        <5>1. x.seen # "none" /\ ~(\E u \in S : u.qty >= q)
          BY <3>1, <3>6, <4>2
        <5>2. dbStatus'[m] = IF t.qty >= q THEN "FILLED" ELSE "PARTIALLY_FILLED"
          BY <1>1, <2>1, <2>2, <3>1, <3>4, <4>2, <5>1 DEF MakerStatus
        <5>3. (\E u \in R : u.qty >= q) <=> t.qty >= q
          BY <3>5, <5>1
        <5>. QED
          BY <5>2, <5>3
      <4>. QED
        BY <4>1, <4>2
    <3>. QED
      BY <2>1, <3>4, <3>5, <3>7 DEF RowOK
  <2>7. \A o \in Recorded \ Queued : RowOK(y, o)'
    BY <2>5, <2>6
  <2>. QED
    BY <1>4, <2>1, <2>7 DEF RowsInv
<1>. QED
  BY <1>7, <1>8, <1>9, <1>10, <1>11, <1>12 DEF Exact

\* As many places of a list without repetitions as things in them.
LEMMA PlacesOf ==
    ASSUME NEW S, NEW s \in Seq(S), IsInjective(s), NEW I \in SUBSET (DOMAIN s)
    PROVE  Cardinality({s[i] : i \in I}) = Cardinality(I) /\ IsFiniteSet(I)
<1>1. PICK T, f : T = {s[i] : i \in I} /\ f = [i \in I |-> s[i]]
  OBVIOUS
<1>2. \A i, k \in I : s[i] = s[k] => i = k
  BY DEF IsInjective
<1>3. f \in Bijection(I, T)
  <2>1. f \in [I -> T] /\ \A t \in T : \E i \in I : f[i] = t
    BY <1>1
  <2>2. \A i, k \in I : f[i] = f[k] => i = k
    BY <1>1, <1>2
  <2>3. DOMAIN f = I
    BY <1>1
  <2>. QED
    BY <2>1, <2>2, <2>3 DEF Bijection, Injection, Surjection, IsInjective
<1>4. ExistsBijection(I, T)
  BY <1>3 DEF ExistsBijection
<1>5. IsFiniteSet(I)
  <2>1. Len(s) \in Nat /\ DOMAIN s = 1..Len(s)
    OBVIOUS
  <2>2. IsFiniteSet(1..Len(s))
    BY <2>1, FS_Interval
  <2>. QED
    BY <2>1, <2>2, FS_Subset
<1>. QED
  BY <1>1, <1>4, <1>5, FS_Bijection

\* The quotes of a job are sent.
LEMMA CreExact ==
    ASSUME NEW w, NEW x, NEW y, Only(w, x, y), CreCalled(x, y)
    PROVE  Exact(y)'
<1>1. /\ x.at = "cre" /\ y.job = x.job /\ y.at = "volume"
      /\ dbTrades' = dbTrades /\ dbStatus' = dbStatus /\ positions' = positions /\ volume' = volume
      /\ \A o \in Orders : sent'[o] = sent[o] + UserSends(x.job, o) + AgentSends(x.job, o)
  BY DEF CreCalled, After
<1>2. LineInv(y)' /\ DoneInv(y)'
  BY <1>1, LineStep
<1>3. /\ MakersLeft(x) = {} /\ BuysLeft(x) = {} /\ SalesLeft(x) = {} /\ SendsLeft(x) = From(x, 1)
      /\ VolumeLeft(x) = From(x, 1)
      /\ MakersLeft(y) = {} /\ BuysLeft(y) = {} /\ SalesLeft(y) = {} /\ SendsLeft(y) = {}
      /\ VolumeLeft(y) = From(x, 1)
  BY <1>1, LeftIs, OthersLeft DEF LeftAre
<1>4. RowsInv(y)'
  BY <1>1, <1>3, RowsFrame
<1>5. LongInv(y)'
  BY <1>1, LongFrame
<1>6. NetInv(y)'
  BY <1>1, <1>3, NetFrame
<1>7. VolumeInv(y)'
  BY <1>1, <1>3, VolumeFrame DEF Only, Exact
<1>8. SentInv(y)'
  <2>1. /\ order' = order /\ \A o : ByContract(o)' = ByContract(o)
        /\ x.job.trades \in Seq(JobTrade) /\ IsInjective(x.job.trades)
        /\ From(x, 1) = ToSet(x.job.trades) /\ ToSet(x.job.trades) \subseteq dbTrades
    BY <1>1, OnlyFacts, FromIs DEF WorkOK, Written
  <2>2. ASSUME NEW o \in Orders, order[o].who.kind = "agent", HasSignature(o)
        PROVE  sent'[o] = Cardinality(Sent(y, o)') + ByRoute(o)
    <3>1. PICK A, B, C : /\ A = Sent(x, o) /\ C = Sent(y, o)'
                         /\ B = {t \in ToSet(x.job.trades) : o \in {t.maker, t.taker}}
      OBVIOUS
    <3>2. A = {t \in dbTrades \ ToSet(x.job.trades) : o \in {t.maker, t.taker}}
      BY <1>3, <2>1, <3>1 DEF Sent
    <3>3. C = {t \in dbTrades : o \in {t.maker, t.taker}}
      BY <1>1, <1>3, <3>1 DEF Sent
    <3>4. C = A \union B /\ A \intersect B = {} /\ IsFiniteSet(A) /\ IsFiniteSet(B)
      <4>1. C = A \union B /\ A \intersect B = {} /\ A \in SUBSET dbTrades /\ B \in SUBSET dbTrades
        BY <2>1, <3>1, <3>2, <3>3
      <4>2. IsFiniteSet(dbTrades)
        BY OnlyTrades
      <4>. QED
        BY <4>1, <4>2, FS_Subset
    <3>5. Cardinality(C) = Cardinality(A) + Cardinality(B) /\ Cardinality(A) \in Nat /\ Cardinality(B) \in Nat
      <4>1. /\ Cardinality(A \union B) = Cardinality(A) + Cardinality(B) - Cardinality(A \intersect B)
        BY <3>4, FS_Union
      <4>2. Cardinality(A \intersect B) = 0
        BY <3>4, FS_EmptySet
      <4>3. Cardinality(A) \in Nat /\ Cardinality(B) \in Nat
        BY <3>4, FS_CardinalityType
      <4>. QED
        BY <3>4, <4>1, <4>2, <4>3
    <3>6. sent[o] = Cardinality(A) + ByRoute(o)
      BY <2>2, <3>1 DEF Only, Exact, SentInv
    <3>9. ByRoute(o) \in Nat
      BY DEF ByRoute
    <3>7. UserSends(x.job, o) = 0
      BY <2>2 DEF UserSends
    <3>8. AgentSends(x.job, o) = Cardinality(B)
      <4>1. PICK I : I = {i \in DOMAIN x.job.trades :
                            \/ x.job.trades[i].taker = o
                            \/ x.job.trades[i].maker = o /\ dbStatus[o] # "none"}
        OBVIOUS
      <4>2. AgentSends(x.job, o) = Cardinality(I)
        BY <2>2, <4>1 DEF AgentSends
      <4>3. ASSUME NEW t \in ToSet(x.job.trades), t.maker = o PROVE dbStatus[o] # "none"
        <5>1. Known(t) /\ o \notin {Platform, Contract} /\ t \in dbTrades
          BY <2>1, <4>3, OnlyTrades, PlatformAssumption, ContractAssumption
        <5>2. o \in Recorded
          BY <4>3, <5>1 DEF Known
        <5>3. o \notin Queued
          BY <4>3 DEF Only, Exact, LineInv
        <5>4. RowOK(x, o)
          BY <1>1, <5>2, <5>3 DEF Only, Exact, RowsInv
        <5>5. Seen(x, o) # {}
          BY <1>3, <4>3, <5>1 DEF Seen
        <5>. QED
          BY <5>4, <5>5 DEF RowOK
      <4>4. B = {x.job.trades[i] : i \in I}
        BY <3>1, <4>1, <4>3 DEF ToSet
      <4>5. I \in SUBSET (DOMAIN x.job.trades)
        BY <4>1
      <4>6. PICK tr : tr = x.job.trades
        OBVIOUS
      <4>7. Cardinality({tr[i] : i \in I}) = Cardinality(I)
        BY <2>1, <4>5, <4>6, PlacesOf
      <4>. QED
        BY <4>2, <4>4, <4>6, <4>7
    <3>. QED
      BY <1>1, <3>1, <3>5, <3>6, <3>7, <3>8, <3>9
  <2>3. ASSUME NEW o \in Orders, order'[o].who.kind = "agent", HasSignature(o)'
        PROVE  sent'[o] = Cardinality(Sent(y, o)') + ByRoute(o)'
    <3>1. order[o].who.kind = "agent" /\ HasSignature(o)
      BY <2>1, <2>3 DEF HasSignature
    <3>2. ByRoute(o)' = ByRoute(o)
      BY <2>1, Zenon DEF ByRoute
    <3>. QED
      BY <2>2, <3>1, <3>2
  <2>. QED
    BY <2>3, Zenon DEF SentInv
<1>. QED
  BY <1>2, <1>4, <1>5, <1>6, <1>7, <1>8 DEF Exact

----------------------------------------------------------------------------
(* The statements that read and write positions. *)

\* A position is read.
LEMMA RowReadExact ==
    ASSUME NEW w, NEW x, NEW y, NEW from, NEW to, NEW a, Only(w, x, y), RowRead(x, y, from, to, a),
           \/ from = "buyer" /\ to = "buyerRow" /\ a = BuyerAcct(x.job.trades[x.i])
           \/ from = "seller" /\ to = "sellerRow" /\ a = SellerAcct(x.job.trades[x.i])
    PROVE  Exact(y)'
<1>1. /\ x.at = from
      /\ dbTrades' = dbTrades /\ dbStatus' = dbStatus /\ positions' = positions
      /\ volume' = volume /\ sent' = sent
  BY DEF RowRead, dbVars
<1>2. PICK R : R = LongRows(a, ChainOf(x.job))
  OBVIOUS
<1>3. \E r : /\ y = Mid(x, to, x.seen, r)
             /\ IF r = NoRow THEN R = {} ELSE r.id \in R /\ positions[r.id].amt = r.amt
  <2>1. CASE R = {} /\ y = Mid(x, to, x.seen, NoRow)
    BY <2>1
  <2>2. ASSUME NEW i \in R, y = Mid(x, to, x.seen, [id |-> i, amt |-> positions[i].amt])
        PROVE  \E r : /\ y = Mid(x, to, x.seen, r)
                      /\ IF r = NoRow THEN R = {} ELSE r.id \in R /\ positions[r.id].amt = r.amt
    <3>1. PICK r : r = [id |-> i, amt |-> positions[i].amt]
      OBVIOUS
    <3>2. r.id = i /\ r.amt = positions[i].amt
      BY <3>1
    <3>3. i # 0
      <4>1. DOMAIN positions = 1..Len(positions) /\ Len(positions) \in Nat
        BY OnlyFacts
      <4>2. i \in DOMAIN positions
        BY <1>2 DEF LongRows
      <4>. QED
        BY <4>1, <4>2
    <3>4. r # NoRow
      BY <3>2, <3>3 DEF NoRow
    <3>. QED
      BY <2>2, <3>1, <3>2, <3>4
  <2>. QED
    BY <1>2, <2>1, <2>2 DEF RowRead
<1>4. PICK r : /\ y = Mid(x, to, x.seen, r)
               /\ IF r = NoRow THEN R = {} ELSE r.id \in R /\ positions[r.id].amt = r.amt
  BY <1>3
<1>5. Standing(x, y) /\ y.at = to /\ y.i = x.i /\ y.row = r
  BY <1>1, <1>4, ReadStands
<1>6. /\ y.job = x.job
      /\ MakersLeft(y) = MakersLeft(x) /\ BuysLeft(y) = BuysLeft(x) /\ SalesLeft(y) = SalesLeft(x)
      /\ SendsLeft(y) = SendsLeft(x) /\ VolumeLeft(y) = VolumeLeft(x)
  BY <1>5 DEF Standing
<1>7. LineInv(y)' /\ DoneInv(y)'
  BY <1>1, <1>5, <1>6, LineStep
<1>8. RowsInv(y)'
  BY <1>1, <1>5, <1>6, RowsFrame
<1>9. LongInv(y)'
  <2>1. /\ \A t : BuyerAcct(t)' = BuyerAcct(t) /\ SellerAcct(t)' = SellerAcct(t)
        /\ \A j : ChainOf(j)' = ChainOf(j)
        /\ LongInv(x)
    BY OnlyFacts DEF Only, Exact
  <2>2. LongRows(a, ChainOf(x.job))' = R
    BY <1>1, <1>2, <2>1 DEF LongRows
  <2>3. ReadOK(y, a)'
    BY <1>1, <1>4, <1>5, <1>6, <2>1, <2>2 DEF ReadOK
  <2>4. OneLong'
    BY <1>1, <2>1 DEF LongInv, OneLong
  <2>. QED
    BY <1>5, <1>6, <2>1, <2>3, <2>4 DEF LongInv
<1>10. NetInv(y)'
  BY <1>1, <1>5, <1>6, NetFrame
<1>11. VolumeInv(y)'
  BY <1>1, <1>6, VolumeFrame DEF Only, Exact
<1>12. SentInv(y)'
  BY <1>1, <1>6, SentFrame
<1>. QED
  BY <1>7, <1>8, <1>9, <1>10, <1>11, <1>12 DEF Exact

----------------------------------------------------------------------------
(* The sums of the accounts. *)

\* A row more, or another one.
LEMMA NetMoves ==
    ASSUME NEW w, NEW x, NEW y, Only(w, x, y), NEW r \in RowType
    PROVE  /\ positions' = Append(positions, r) =>
                 \A b : Net(b)' = Net(b) + NetStep(0, r, b) /\ Net(b) \in Int
           /\ \A i \in DOMAIN positions : positions' = [positions EXCEPT ![i] = r] =>
                 \A b : /\ Net(b)' = Net(b) + (NetStep(0, r, b) - NetStep(0, positions[i], b))
                        /\ Net(b) \in Int
<1>1. positions \in Seq(RowType) /\ positions' \in Seq(RowType)
  BY OnlyFacts
<1>2. (positions \in Seq(RowType))'
  BY <1>1
<1>3. NetsAre
  BY <1>1, NetIs
<1>4. NetsAre'
  BY <1>2, NetIs, PTL
<1>5. \A b : Net(b) = NetOf(positions, b) /\ Net(b)' = NetOf(positions', b)
  BY <1>3, <1>4 DEF NetsAre
<1>6. PICK ps : ps = positions
  OBVIOUS
<1>7. ASSUME positions' = Append(positions, r), NEW b
      PROVE  Net(b)' = Net(b) + NetStep(0, r, b) /\ Net(b) \in Int
  <2>1. NetOf(Append(ps, r), b) = NetOf(ps, b) + NetStep(0, r, b) /\ NetOf(ps, b) \in Int
    BY <1>1, <1>6, NetOfAppend
  <2>2. Net(b) = NetOf(ps, b) /\ Net(b)' = NetOf(Append(ps, r), b)
    BY <1>5, <1>6, <1>7, Zenon
  <2>. QED
    BY <2>1, <2>2
<1>8. ASSUME NEW i \in DOMAIN positions, positions' = [positions EXCEPT ![i] = r], NEW b
      PROVE  /\ Net(b)' = Net(b) + (NetStep(0, r, b) - NetStep(0, positions[i], b))
             /\ Net(b) \in Int
  <2>1. i \in DOMAIN ps
    BY <1>6
  <2>2. /\ NetOf([ps EXCEPT ![i] = r], b) = NetOf(ps, b) + (NetStep(0, r, b) - NetStep(0, ps[i], b))
        /\ NetOf(ps, b) \in Int
    BY <1>1, <1>6, <2>1, NetOfUpdate
  <2>3. Net(b) = NetOf(ps, b) /\ Net(b)' = NetOf([ps EXCEPT ![i] = r], b)
    BY <1>5, <1>6, <1>8, Zenon
  <2>. QED
    BY <1>6, <2>2, <2>3
<1>. QED
  BY <1>7, <1>8

\* A purchase, or a sale, has been applied.
LEMMA BuysMove ==
    ASSUME NEW w, NEW x, NEW y, Only(w, x, y), dbTrades' = dbTrades,
           NEW B, NEW t \in dbTrades, t \notin B, BuysLeft(x) = B \union {t}, BuysLeft(y) = B
    PROVE  \A b : /\ QtySum(Buys(y, b)') = QtySum(Buys(x, b)) + (IF BuyerAcct(t) = b THEN t.qty ELSE 0)
                  /\ QtySum(Buys(x, b)) \in Nat
<1>1. \A u : BuyerAcct(u)' = BuyerAcct(u)
  BY OnlyFacts
<1>2. IsFiniteSet(dbTrades) /\ \A u \in dbTrades : u.qty \in Nat
  BY OnlyTrades
<1>3. TAKE b
<1>4. PICK S, T : S = Buys(x, b) /\ T = Buys(y, b)'
  OBVIOUS
<1>5. S = {u \in dbTrades \ (B \union {t}) : BuyerAcct(u) = b} /\ T = {u \in dbTrades \ B : BuyerAcct(u) = b}
  BY <1>1, <1>4 DEF Buys
<1>6. IsFiniteSet(S) /\ t \notin S /\ \A u \in S \union {t} : u.qty \in Nat
  <2>1. S \in SUBSET dbTrades /\ t \notin S
    BY <1>5
  <2>. QED
    BY <1>2, <2>1, FS_Subset
<1>7. QtySum(S) \in Nat /\ QtySum(S \union {t}) = QtySum(S) + t.qty
  BY <1>6, QtySumAdds
<1>8. CASE BuyerAcct(t) = b
  <2>1. T = S \union {t}
    BY <1>5, <1>8
  <2>. QED
    BY <1>4, <1>7, <1>8, <2>1
<1>9. CASE BuyerAcct(t) # b
  <2>1. T = S
    BY <1>5, <1>9
  <2>. QED
    BY <1>4, <1>7, <1>9, <2>1
<1>. QED
  BY <1>8, <1>9

\* The same of its seller.
LEMMA SalesMove ==
    ASSUME NEW w, NEW x, NEW y, Only(w, x, y), dbTrades' = dbTrades,
           NEW B, NEW t \in dbTrades, t \notin B, SalesLeft(x) = B \union {t}, SalesLeft(y) = B
    PROVE  \A b : /\ QtySum(Sales(y, b)') = QtySum(Sales(x, b)) + (IF SellerAcct(t) = b THEN t.qty ELSE 0)
                  /\ QtySum(Sales(x, b)) \in Nat
<1>1. \A u : SellerAcct(u)' = SellerAcct(u)
  BY OnlyFacts
<1>2. IsFiniteSet(dbTrades) /\ \A u \in dbTrades : u.qty \in Nat
  BY OnlyTrades
<1>3. TAKE b
<1>4. PICK S, T : S = Sales(x, b) /\ T = Sales(y, b)'
  OBVIOUS
<1>5. S = {u \in dbTrades \ (B \union {t}) : SellerAcct(u) = b} /\ T = {u \in dbTrades \ B : SellerAcct(u) = b}
  BY <1>1, <1>4 DEF Sales
<1>6. IsFiniteSet(S) /\ t \notin S /\ \A u \in S \union {t} : u.qty \in Nat
  <2>1. S \in SUBSET dbTrades /\ t \notin S
    BY <1>5
  <2>. QED
    BY <1>2, <2>1, FS_Subset
<1>7. QtySum(S) \in Nat /\ QtySum(S \union {t}) = QtySum(S) + t.qty
  BY <1>6, QtySumAdds
<1>8. CASE SellerAcct(t) = b
  <2>1. T = S \union {t}
    BY <1>5, <1>8
  <2>. QED
    BY <1>4, <1>7, <1>8, <2>1
<1>9. CASE SellerAcct(t) # b
  <2>1. T = S
    BY <1>5, <1>9
  <2>. QED
    BY <1>4, <1>7, <1>9, <2>1
<1>. QED
  BY <1>8, <1>9

\* None has been.
LEMMA FillsStay ==
    ASSUME NEW w, NEW x, NEW y, Only(w, x, y)
    PROVE  /\ dbTrades' \ BuysLeft(y) = dbTrades \ BuysLeft(x) =>
                 \A b : QtySum(Buys(y, b)') = QtySum(Buys(x, b)) /\ QtySum(Buys(x, b)) \in Nat
           /\ dbTrades' \ SalesLeft(y) = dbTrades \ SalesLeft(x) =>
                 \A b : QtySum(Sales(y, b)') = QtySum(Sales(x, b)) /\ QtySum(Sales(x, b)) \in Nat
<1>1. \A t : BuyerAcct(t)' = BuyerAcct(t) /\ SellerAcct(t)' = SellerAcct(t)
  BY OnlyFacts
<1>2. IsFiniteSet(dbTrades) /\ \A u \in dbTrades : u.qty \in Nat
  BY OnlyTrades
<1>3. ASSUME NEW S \in SUBSET dbTrades PROVE QtySum(S) \in Nat
  <2>1. IsFiniteSet(S) /\ \A u \in S : u.qty \in Nat
    BY <1>2, FS_Subset
  <2>. QED
    BY <2>1, QtySumCovers
<1>4. \A b : Buys(x, b) \in SUBSET dbTrades /\ Sales(x, b) \in SUBSET dbTrades
  BY DEF Buys, Sales
<1>5. ASSUME dbTrades' \ BuysLeft(y) = dbTrades \ BuysLeft(x), NEW b PROVE Buys(y, b)' = Buys(x, b)
  BY <1>1, <1>5 DEF Buys
<1>6. ASSUME dbTrades' \ SalesLeft(y) = dbTrades \ SalesLeft(x), NEW b PROVE Sales(y, b)' = Sales(x, b)
  BY <1>1, <1>6 DEF Sales
<1>. QED
  BY <1>3, <1>4, <1>5, <1>6

\* The sums before a step.
LEMMA NetBefore ==
    ASSUME NEW w, NEW x, NEW y, Only(w, x, y), NEW b \in Accounts
    PROVE  /\ Net(b) = QtySum(Buys(x, b)) - QtySum(Sales(x, b)) + Supply(b) - HalfSold(x, b)
           /\ Supply(b) \in Int /\ HalfSold(x, b) \in Int /\ b # NoAcct
<1>1. NetInv(x)
  BY DEF Only, Exact
<1>2. x.row.amt \in Nat
  BY OnlyFacts, WorkFields
<1>3. Supply(b) \in Int
  BY NumbersAssumption DEF Supply
<1>4. HalfSold(x, b) \in Int
  BY <1>2 DEF HalfSold
<1>. QED
  BY <1>1, <1>3, <1>4 DEF NetInv, Accounts

\* The sums of an account before and after.
Balanced(n, n1, p, p1, q, q1, h, h1) ==
    /\ n \in Int /\ n1 \in Int /\ p \in Int /\ p1 \in Int /\ q \in Int /\ q1 \in Int /\ h \in Int /\ h1 \in Int
    /\ n1 - n = (p1 - p) - (q1 - q) - (h1 - h)

AcctMoves(x, y, b) ==
    Balanced(Net(b), Net(b)', QtySum(Buys(x, b)), QtySum(Buys(y, b)'),
             QtySum(Sales(x, b)), QtySum(Sales(y, b)'), HalfSold(x, b), HalfSold(y, b)')

\* If that is so of every account, the positions say what was traded.
LEMMA NetAfter ==
    ASSUME NEW w, NEW x, NEW y, Only(w, x, y), \A b \in Accounts : AcctMoves(x, y, b)
    PROVE  NetInv(y)'
<1>1. ASSUME NEW b \in Accounts
      PROVE  Net(b)' = QtySum(Buys(y, b)') - QtySum(Sales(y, b)') + Supply(b) - HalfSold(y, b)'
  <2>1. PICK n, n1, p, p1, q, q1, h, h1 :
            /\ n = Net(b) /\ n1 = Net(b)'
            /\ p = QtySum(Buys(x, b)) /\ p1 = QtySum(Buys(y, b)')
            /\ q = QtySum(Sales(x, b)) /\ q1 = QtySum(Sales(y, b)')
            /\ h = HalfSold(x, b) /\ h1 = HalfSold(y, b)'
    OBVIOUS
  <2>5. Balanced(n, n1, p, p1, q, q1, h, h1)
    BY <2>1, Zenon DEF AcctMoves
  <2>2. PICK u : u = Supply(b)
    OBVIOUS
  <2>3. n = p - q + u - h /\ u \in Int
    BY <2>1, <2>2, NetBefore
  <2>4. n1 = p1 - q1 + u - h1
    BY <2>3, <2>5 DEF Balanced
  <2>. QED
    BY <2>1, <2>2, <2>4
<1>. QED
  BY <1>1, Zenon DEF NetInv

\* A sum is a number.
LEMMA NetIsInt ==
    ASSUME NEW w, NEW x, NEW y, Only(w, x, y), NEW b
    PROVE  Net(b) \in Int
<1>1. positions \in Seq(RowType)
  BY OnlyFacts
<1>2. Net(b) = NetOf(positions, b)
  BY <1>1, NetIs DEF NetsAre
<1>3. PICK r : r = RowOf(x, PlatformAcct, "LONG", 0)
  OBVIOUS
<1>4. r \in RowType
  BY <1>3, OnlyFacts, RunningFacts DEF RowOf, RowType, RowAccts
<1>. QED
  BY <1>1, <1>2, <1>4, NetOfAppend

\* A new row.
LEMMA OneLongAppend ==
    ASSUME OneLong, positions \in Seq(RowType), NEW r \in RowType, positions' = Append(positions, r),
           r.side = "SHORT" \/ LongRows(r.acct, r.chain) = {}
    PROVE  OneLong'
<1>1. PICK n : n = Len(positions)
  OBVIOUS
<1>2. /\ n \in Nat /\ DOMAIN positions = 1..n /\ DOMAIN positions' = 1..(n + 1)
      /\ \A k \in DOMAIN positions : positions'[k] = positions[k]
      /\ positions'[n + 1] = r
  BY <1>1, RowsPut
<1>3. SUFFICES ASSUME NEW i \in DOMAIN positions', NEW j \in DOMAIN positions',
                      positions'[i].acct = positions'[j].acct, positions'[i].chain = positions'[j].chain,
                      positions'[i].side = "LONG", positions'[i].open,
                      positions'[j].side = "LONG", positions'[j].open
               PROVE  i = j
  BY DEF OneLong
<1>4. ASSUME NEW k \in DOMAIN positions, positions[k].acct = r.acct, positions[k].chain = r.chain,
             positions[k].side = "LONG", positions[k].open, r.side = "LONG"
      PROVE  FALSE
  BY <1>4 DEF LongRows
<1>5. \A k \in DOMAIN positions' : k \in DOMAIN positions \/ k = n + 1
  BY <1>2
<1>6. CASE i \in DOMAIN positions /\ j \in DOMAIN positions
  BY <1>2, <1>3, <1>6 DEF OneLong
<1>7. CASE i = n + 1 /\ j \in DOMAIN positions
  BY <1>2, <1>3, <1>4, <1>7
<1>8. CASE i \in DOMAIN positions /\ j = n + 1
  BY <1>2, <1>3, <1>4, <1>8
<1>. QED
  BY <1>3, <1>5, <1>6, <1>7, <1>8

\* A row with another amount, or closed.
LEMMA OneLongUpdate ==
    ASSUME OneLong, positions \in Seq(RowType), NEW r \in RowType, NEW i \in DOMAIN positions,
           positions' = [positions EXCEPT ![i] = r], SameHolder(r, positions[i]),
           r.open => positions[i].open
    PROVE  OneLong'
<1>1. /\ DOMAIN positions' = DOMAIN positions /\ positions'[i] = r
      /\ \A k \in DOMAIN positions \ {i} : positions'[k] = positions[k]
  BY RowsPut
<1>2. \A k \in DOMAIN positions : /\ positions'[k].acct = positions[k].acct
                                  /\ positions'[k].chain = positions[k].chain
                                  /\ positions'[k].side = positions[k].side
                                  /\ positions'[k].open => positions[k].open
  BY <1>1 DEF SameHolder
<1>. QED
  BY <1>1, <1>2 DEF OneLong

\* What the row that was read says.
LEMMA ReadRow ==
    ASSUME NEW x, NEW a, ReadOK(x, a), x.row # NoRow, NEW i, i = x.row.id
    PROVE  /\ positions[i].acct = a /\ positions[i].side = "LONG" /\ positions[i].open
           /\ positions[i].amt = x.row.amt /\ i \in DOMAIN positions
BY DEF ReadOK, LongRows

\* The buyer's LONG row is written.
LEMMA BuyerExact ==
    ASSUME NEW w, NEW x, NEW y, NEW t, NEW a, Only(w, x, y), BuyerWritten(x, y, t, a)
    PROVE  Exact(y)'
<1>1. BuyerMoves(x, y, t, a)
  BY BuyerRow, OnlyFacts
<1>2. /\ x.at = "buyerRow" /\ t = x.job.trades[x.i] /\ a = BuyerAcct(t) /\ a \in RowAccts
      /\ t.qty \in Nat /\ y = After(x, "seller", x.i)
      /\ dbTrades' = dbTrades /\ dbStatus' = dbStatus /\ volume' = volume /\ sent' = sent
  BY <1>1 DEF BuyerMoves
<1>3. /\ x.job.trades \in Seq(JobTrade) /\ IsInjective(x.job.trades) /\ x.i \in 1..Len(x.job.trades)
      /\ ToSet(x.job.trades) \subseteq dbTrades
  BY <1>2, OnlyFacts DEF WorkOK, Looping, Written
<1>4. PICK A, B, T : A = From(x, x.i) /\ B = From(x, x.i + 1) /\ T = From(x, 1)
  OBVIOUS
<1>5. y.job = x.job /\ y.at = "seller" /\ LeftAre(x, {}, A, A, T, T) /\ LeftAre(y, {}, B, A, T, T)
  BY <1>2, <1>4, BuyerLeft
<1>6. /\ MakersLeft(x) = {} /\ BuysLeft(x) = A /\ SalesLeft(x) = A /\ SendsLeft(x) = T /\ VolumeLeft(x) = T
      /\ MakersLeft(y) = {} /\ BuysLeft(y) = B /\ SalesLeft(y) = A /\ SendsLeft(y) = T /\ VolumeLeft(y) = T
  BY <1>5 DEF LeftAre
<1>7. A = B \union {t} /\ t \notin B /\ t \in dbTrades
  BY <1>2, <1>3, <1>4, FromIs DEF ToSet
<1>8. LineInv(y)' /\ DoneInv(y)'
  BY <1>2, <1>5, LineStep
<1>9. RowsInv(y)'
  BY <1>2, <1>5, <1>6, RowsFrame
<1>10. VolumeInv(y)'
  BY <1>2, <1>6, VolumeFrame DEF Only, Exact
<1>11. SentInv(y)'
  BY <1>2, <1>6, SentFrame
<1>12. /\ OneLong /\ ReadOK(x, a) /\ positions \in Seq(RowType)
  BY <1>2, OnlyFacts DEF Only, Exact, LongInv
<1>13. /\ OneLong'
       /\ \A b \in Accounts : Net(b)' = Net(b) + (IF a = b THEN t.qty ELSE 0) /\ Net(b) \in Int
  <2>1. CASE a = NoAcct /\ positions' = positions
    <3>1. OneLong'
      BY <1>12, <2>1 DEF OneLong
    <3>2. ASSUME NEW b \in Accounts PROVE Net(b)' = Net(b) /\ a # b /\ Net(b) \in Int
      <4>1. NetsAre
        BY <1>12, NetIs
      <4>2. (positions \in Seq(RowType))'
        BY <1>12, <2>1
      <4>3. NetsAre'
        BY <4>2, NetIs, PTL
      <4>4. Net(b)' = Net(b)
        BY <2>1, <4>1, <4>3 DEF NetsAre
      <4>5. Net(b) \in Int /\ b # NoAcct
        BY NetIsInt, NetBefore
      <4>. QED
        BY <2>1, <4>4, <4>5
    <3>. QED
      BY <3>1, <3>2
  <2>2. ASSUME NEW r \in RowType, a # NoAcct, x.row = NoRow, r = RowOf(x, a, "LONG", t.qty),
               positions' = Append(positions, r)
        PROVE  /\ OneLong'
               /\ \A b \in Accounts : Net(b)' = Net(b) + (IF a = b THEN t.qty ELSE 0) /\ Net(b) \in Int
    <3>1. r.acct = a /\ r.chain = ChainOf(x.job) /\ r.side = "LONG" /\ r.open /\ r.amt = t.qty
      BY <2>2 DEF RowOf
    <3>2. LongRows(r.acct, r.chain) = {}
      BY <1>12, <2>2, <3>1 DEF ReadOK
    <3>3. OneLong'
      BY <1>12, <2>2, <3>2, OneLongAppend
    <3>4. ASSUME NEW b \in Accounts PROVE Net(b)' = Net(b) + (IF a = b THEN t.qty ELSE 0) /\ Net(b) \in Int
      <4>1. Net(b)' = Net(b) + NetStep(0, r, b) /\ Net(b) \in Int
        BY <2>2, NetMoves
      <4>2. NetStep(0, r, b) = IF a = b THEN t.qty ELSE 0
        BY <3>1, NetStepIs
      <4>. QED
        BY <4>1, <4>2
    <3>. QED
      BY <3>3, <3>4
  <2>3. ASSUME NEW i \in DOMAIN positions, NEW r \in RowType, x.row # NoRow, i = x.row.id,
               SameHolder(r, positions[i]), r.open = positions[i].open, r.amt = x.row.amt + t.qty,
               positions' = [positions EXCEPT ![i] = r]
        PROVE  /\ OneLong'
               /\ \A b \in Accounts : Net(b)' = Net(b) + (IF a = b THEN t.qty ELSE 0) /\ Net(b) \in Int
    <3>1. PICK q : q = positions[i]
      OBVIOUS
    <3>2. q.acct = a /\ q.side = "LONG" /\ q.open /\ q.amt = x.row.amt /\ q \in RowType
      <4>1. q \in RowType
        BY <1>12, <3>1
      <4>2. ReadOK(x, a) /\ x.row # NoRow /\ i = x.row.id
        BY <1>12, <2>3
      <4>3. positions[i].acct = a /\ positions[i].side = "LONG" /\ positions[i].open /\ positions[i].amt = x.row.amt
        BY <4>2, ReadRow
      <4>. QED
        BY <3>1, <4>1, <4>3
    <3>3. OneLong'
      BY <1>12, <2>3, OneLongUpdate
    <3>4. ASSUME NEW b \in Accounts PROVE Net(b)' = Net(b) + (IF a = b THEN t.qty ELSE 0) /\ Net(b) \in Int
      <4>1. Net(b)' = Net(b) + (NetStep(0, r, b) - NetStep(0, q, b)) /\ Net(b) \in Int
        BY <2>3, <3>1, NetMoves
      <4>2. /\ NetStep(0, r, b) = IF a = b THEN x.row.amt + t.qty ELSE 0
            /\ NetStep(0, q, b) = IF a = b THEN x.row.amt ELSE 0
        <5>1. /\ r.acct = a /\ r.side = "LONG" /\ r.open /\ r.amt = x.row.amt + t.qty
              /\ q.acct = a /\ q.side = "LONG" /\ q.open /\ q.amt = x.row.amt
          BY <2>3, <3>1, <3>2 DEF SameHolder
        <5>. QED
          BY <2>3, <3>2, <5>1, NetStepIs
      <4>3. x.row.amt \in Nat
        BY OnlyFacts, WorkFields
      <4>. QED
        BY <1>2, <4>1, <4>2, <4>3
    <3>. QED
      BY <3>3, <3>4
  <2>. QED
    BY <1>1, <2>1, <2>2, <2>3 DEF BuyerMoves
<1>14. LongInv(y)'
  BY <1>5, <1>13 DEF LongInv
<1>15. NetInv(y)'
  <2>1. ASSUME NEW b \in Accounts PROVE AcctMoves(x, y, b)
    <3>1. PICK n, n1, p, p1, q, q1, h, h1 :
              /\ n = Net(b) /\ n1 = Net(b)'
              /\ p = QtySum(Buys(x, b)) /\ p1 = QtySum(Buys(y, b)')
              /\ q = QtySum(Sales(x, b)) /\ q1 = QtySum(Sales(y, b)')
              /\ h = HalfSold(x, b) /\ h1 = HalfSold(y, b)'
      OBVIOUS
    <3>2. n1 = n + (IF a = b THEN t.qty ELSE 0) /\ n \in Int
      BY <1>13, <3>1
    <3>3. p1 = p + (IF a = b THEN t.qty ELSE 0) /\ p \in Nat
      BY <1>2, <1>6, <1>7, <3>1, BuysMove
    <3>4. q1 = q /\ q \in Nat
      BY <1>2, <1>6, <3>1, FillsStay
    <3>5. h = 0 /\ h1 = 0
      BY <1>2, <1>5, <3>1 DEF HalfSold
    <3>6. Balanced(n, n1, p, p1, q, q1, h, h1)
      BY <1>2, <3>2, <3>3, <3>4, <3>5 DEF Balanced
    <3>. QED
      BY <3>1, <3>6, Zenon DEF AcctMoves
  <2>. QED
    BY <2>1, NetAfter
<1>. QED
  BY <1>8, <1>9, <1>10, <1>11, <1>14, <1>15 DEF Exact

\* A round that has accounted for its sale.
SaleDone(x, y, t, a) ==
    /\ x.at \in {"sellerRow", "short"} /\ t = x.job.trades[x.i] /\ a = SellerAcct(t)
    /\ t.qty \in Nat
    /\ Round(x, y, "buyer", "cre")
    /\ dbTrades' = dbTrades /\ dbStatus' = dbStatus /\ volume' = volume /\ sent' = sent

\* The sale of the trade and of what has been sold of it already.
SaleMoves(x, t, a, b) ==
    /\ Net(b) \in Int
    /\ Net(b)' = Net(b) - (IF a = b THEN t.qty ELSE 0) + HalfSold(x, b)

\* With it, all that was exact still is.
LEMMA SaleExact ==
    ASSUME NEW w, NEW x, NEW y, NEW t, NEW a, Only(w, x, y), SaleDone(x, y, t, a), OneLong',
           \A b \in Accounts : SaleMoves(x, t, a, b)
    PROVE  Exact(y)'
<1>2. /\ x.at \in {"sellerRow", "short"} /\ t = x.job.trades[x.i] /\ a = SellerAcct(t)
      /\ t.qty \in Nat /\ Round(x, y, "buyer", "cre")
      /\ dbTrades' = dbTrades /\ dbStatus' = dbStatus /\ volume' = volume /\ sent' = sent
  BY DEF SaleDone
<1>3. /\ x.job.trades \in Seq(JobTrade) /\ IsInjective(x.job.trades) /\ x.i \in 1..Len(x.job.trades)
      /\ ToSet(x.job.trades) \subseteq dbTrades
  BY <1>2, OnlyFacts DEF WorkOK, Looping, Written
<1>4. PICK A, B, T : A = From(x, x.i) /\ B = From(x, x.i + 1) /\ T = From(x, 1)
  OBVIOUS
<1>5. y.job = x.job /\ y.at \in {"buyer", "cre"} /\ LeftAre(x, {}, B, A, T, T) /\ LeftAre(y, {}, B, B, T, T)
  BY <1>2, <1>3, <1>4, SellerLeft
<1>6. /\ MakersLeft(x) = {} /\ BuysLeft(x) = B /\ SalesLeft(x) = A /\ SendsLeft(x) = T /\ VolumeLeft(x) = T
      /\ MakersLeft(y) = {} /\ BuysLeft(y) = B /\ SalesLeft(y) = B /\ SendsLeft(y) = T /\ VolumeLeft(y) = T
  BY <1>5 DEF LeftAre
<1>7. A = B \union {t} /\ t \notin B /\ t \in dbTrades
  BY <1>2, <1>3, <1>4, FromIs DEF ToSet
<1>8. LineInv(y)' /\ DoneInv(y)'
  BY <1>2, <1>5, LineStep
<1>9. RowsInv(y)'
  BY <1>2, <1>5, <1>6, RowsFrame
<1>10. VolumeInv(y)'
  BY <1>2, <1>6, VolumeFrame DEF Only, Exact
<1>11. SentInv(y)'
  BY <1>2, <1>6, SentFrame
<1>14. LongInv(y)'
  BY <1>5 DEF LongInv
<1>15. NetInv(y)'
  <2>1. ASSUME NEW b \in Accounts PROVE AcctMoves(x, y, b)
    <3>1. PICK n, n1, p, p1, q, q1, h, h1 :
              /\ n = Net(b) /\ n1 = Net(b)'
              /\ p = QtySum(Buys(x, b)) /\ p1 = QtySum(Buys(y, b)')
              /\ q = QtySum(Sales(x, b)) /\ q1 = QtySum(Sales(y, b)')
              /\ h = HalfSold(x, b) /\ h1 = HalfSold(y, b)'
      OBVIOUS
    <3>2. n1 = n - (IF a = b THEN t.qty ELSE 0) + h /\ n \in Int
      BY <3>1 DEF SaleMoves
    <3>3. q1 = q + (IF a = b THEN t.qty ELSE 0) /\ q \in Nat
      BY <1>2, <1>6, <1>7, <3>1, SalesMove
    <3>4. p1 = p /\ p \in Nat
      BY <1>2, <1>6, <3>1, FillsStay
    <3>5. h1 = 0 /\ h \in Int
      BY <1>5, <3>1, NetBefore DEF HalfSold
    <3>6. Balanced(n, n1, p, p1, q, q1, h, h1)
      BY <1>2, <3>2, <3>3, <3>4, <3>5 DEF Balanced
    <3>. QED
      BY <3>1, <3>6, Zenon DEF AcctMoves
  <2>. QED
    BY <2>1, NetAfter
<1>. QED
  BY <1>8, <1>9, <1>10, <1>11, <1>14, <1>15 DEF Exact

\* The SHORT row for the rest of a sale is written.
LEMMA ShortExact ==
    ASSUME NEW w, NEW x, NEW y, NEW t, NEW a, Only(w, x, y), ShortWritten(x, y, t, a)
    PROVE  Exact(y)'
<1>1. ShortMoves(x, y, t, a)
  BY ShortRow, OnlyFacts
<1>2. PICK r \in RowType : /\ r = RowOf(x, a, "SHORT", t.qty - x.row.amt)
                           /\ positions' = Append(positions, r)
  BY <1>1 DEF ShortMoves
<1>3. /\ x.at = "short" /\ t = x.job.trades[x.i] /\ a = SellerAcct(t)
      /\ t.qty \in Nat /\ x.row.amt \in Nat /\ t.qty - x.row.amt \in Nat
      /\ SaleDone(x, y, t, a)
  BY <1>1 DEF ShortMoves, SaleDone
<1>4. r.acct = a /\ r.side = "SHORT" /\ r.open /\ r.amt = t.qty - x.row.amt
  BY <1>2 DEF RowOf
<1>5. OneLong'
  BY <1>2, <1>4, OnlyFacts, OneLongAppend DEF Only, Exact, LongInv
<1>6. ASSUME NEW b \in Accounts PROVE SaleMoves(x, t, a, b)
  <2>1. PICK n, n1, s, h : n = Net(b) /\ n1 = Net(b)' /\ s = NetStep(0, r, b) /\ h = HalfSold(x, b)
    OBVIOUS
  <2>2. n1 = n + s /\ n \in Int
    BY <1>2, <2>1, NetMoves
  <2>3. s = IF a = b THEN 0 - (t.qty - x.row.amt) ELSE 0
    BY <1>4, <2>1, NetStepIs
  <2>4. h = IF a = b THEN x.row.amt ELSE 0
    BY <1>3, <2>1 DEF HalfSold
  <2>5. n1 = n - (IF a = b THEN t.qty ELSE 0) + h
    BY <1>3, <2>2, <2>3, <2>4
  <2>. QED
    BY <2>1, <2>2, <2>5, Zenon DEF SaleMoves
<1>. QED
  BY <1>3, <1>5, <1>6, SaleExact

\* The rows stay as they are.
LEMMA NetStays ==
    ASSUME NEW w, NEW x, NEW y, Only(w, x, y), positions' = positions
    PROVE  \A b : Net(b)' = Net(b) /\ Net(b) \in Int
<1>1. positions \in Seq(RowType) /\ positions' \in Seq(RowType)
  BY OnlyFacts
<1>2. (positions \in Seq(RowType))'
  BY <1>1
<1>3. NetsAre
  BY <1>1, NetIs
<1>4. NetsAre'
  BY <1>2, NetIs, PTL
<1>5. \A b : Net(b)' = Net(b)
  BY <1>3, <1>4 DEF NetsAre
<1>. QED
  BY <1>5, NetIsInt

\* The LONG row that was read gets another amount, or is closed: v is what is left.
ReadRowIs(x, a, i, r, v) ==
    /\ ReadOK(x, a) /\ OneLong /\ x.row # NoRow
    /\ i \in DOMAIN positions /\ i = x.row.id /\ r \in RowType
    /\ SameHolder(r, positions[i]) /\ positions' = [positions EXCEPT ![i] = r]
    /\ v \in Nat /\ r.amt = v /\ (~r.open => v = 0)

\* A write to the row that was read changes its holder's net position only.
LEMMA ReadRowMoves ==
    ASSUME NEW w, NEW x, NEW y, NEW a, Only(w, x, y), NEW i, NEW r, NEW v, ReadRowIs(x, a, i, r, v)
    PROVE  /\ OneLong'
           /\ \A b : Net(b) \in Int /\ Net(b)' = Net(b) + (IF a = b THEN v - x.row.amt ELSE 0)
<1>0. /\ ReadOK(x, a) /\ OneLong /\ x.row # NoRow
      /\ i \in DOMAIN positions /\ i = x.row.id /\ r \in RowType
      /\ SameHolder(r, positions[i]) /\ positions' = [positions EXCEPT ![i] = r]
      /\ v \in Nat /\ r.amt = v /\ (~r.open => v = 0)
  BY DEF ReadRowIs
<1>1. PICK q : q = positions[i]
  OBVIOUS
<1>2. positions \in Seq(RowType)
  BY OnlyFacts
<1>3. q \in RowType
  BY <1>0, <1>1, <1>2
<1>4. q.acct = a /\ q.side = "LONG" /\ q.open /\ q.amt = x.row.amt
  BY <1>0, <1>1, ReadRow
<1>5. OneLong'
  BY <1>0, <1>1, <1>2, <1>4, OneLongUpdate
<1>6. ASSUME NEW b
      PROVE  Net(b) \in Int /\ Net(b)' = Net(b) + (IF a = b THEN v - x.row.amt ELSE 0)
  <2>1. PICK n, n1, s, u : n = Net(b) /\ n1 = Net(b)' /\ s = NetStep(0, r, b) /\ u = NetStep(0, q, b)
    OBVIOUS
  <2>2. n1 = n + (s - u) /\ n \in Int
    BY <1>0, <1>1, <2>1, NetMoves
  <2>3. r.acct = a /\ r.side = "LONG"
    BY <1>0, <1>1, <1>4 DEF SameHolder
  <2>4. s = IF a = b THEN v ELSE 0
    BY <1>0, <2>1, <2>3 DEF NetStep
  <2>5. u = IF a = b THEN x.row.amt ELSE 0
    BY <1>3, <1>4, <2>1, NetStepIs
  <2>6. x.row.amt \in Nat
    BY <1>3, <1>4 DEF RowType
  <2>. QED
    BY <1>0, <2>1, <2>2, <2>4, <2>5, <2>6
<1>. QED
  BY <1>5, <1>6

\* A sale that closed a LONG row with less than the quantity.
LEMMA HalfExact ==
    ASSUME NEW w, NEW x, NEW y, NEW t, NEW a, Only(w, x, y),
           x.at = "sellerRow", t = x.job.trades[x.i], a = SellerAcct(t), x.row.amt \in Nat,
           y = Mid(x, "short", x.seen, x.row), UNCHANGED <<dbStatus, dbTrades, volume, sent>>,
           OneLong', \A b : Net(b) \in Int /\ Net(b)' = Net(b) - (IF a = b THEN x.row.amt ELSE 0)
    PROVE  Exact(y)'
<1>4. PICK A, B, T : A = From(x, x.i) /\ B = From(x, x.i + 1) /\ T = From(x, 1)
  OBVIOUS
<1>5. /\ y.job = x.job /\ y.at = "short" /\ y.i = x.i /\ y.row = x.row
      /\ LeftAre(x, {}, B, A, T, T) /\ LeftAre(y, {}, B, A, T, T)
  BY <1>4, ShortLeft
<1>6. /\ MakersLeft(x) = {} /\ BuysLeft(x) = B /\ SalesLeft(x) = A /\ SendsLeft(x) = T /\ VolumeLeft(x) = T
      /\ MakersLeft(y) = {} /\ BuysLeft(y) = B /\ SalesLeft(y) = A /\ SendsLeft(y) = T /\ VolumeLeft(y) = T
  BY <1>5 DEF LeftAre
<1>8. LineInv(y)' /\ DoneInv(y)'
  BY <1>5, LineStep
<1>9. RowsInv(y)'
  BY <1>5, <1>6, RowsFrame
<1>10. VolumeInv(y)'
  BY <1>6, VolumeFrame DEF Only, Exact
<1>11. SentInv(y)'
  BY <1>6, SentFrame
<1>14. LongInv(y)'
  BY <1>5 DEF LongInv
<1>15. NetInv(y)'
  <2>0. SellerAcct(t)' = a
    BY OnlyFacts
  <2>1. ASSUME NEW b \in Accounts PROVE AcctMoves(x, y, b)
    <3>1. PICK n, n1, p, p1, q, q1, h, h1 :
              /\ n = Net(b) /\ n1 = Net(b)'
              /\ p = QtySum(Buys(x, b)) /\ p1 = QtySum(Buys(y, b)')
              /\ q = QtySum(Sales(x, b)) /\ q1 = QtySum(Sales(y, b)')
              /\ h = HalfSold(x, b) /\ h1 = HalfSold(y, b)'
      OBVIOUS
    <3>2. n1 = n - (IF a = b THEN x.row.amt ELSE 0) /\ n \in Int
      BY <3>1
    <3>3. q1 = q /\ q \in Nat
      BY <1>6, <3>1, FillsStay
    <3>4. p1 = p /\ p \in Nat
      BY <1>6, <3>1, FillsStay
    <3>5. h = 0
      BY <3>1 DEF HalfSold
    <3>6. h1 = IF a = b THEN x.row.amt ELSE 0
      BY <1>5, <2>0, <3>1 DEF HalfSold
    <3>7. Balanced(n, n1, p, p1, q, q1, h, h1)
      BY <3>2, <3>3, <3>4, <3>5, <3>6 DEF Balanced
    <3>. QED
      BY <3>1, <3>7, Zenon DEF AcctMoves
  <2>. QED
    BY <2>1, NetAfter
<1>. QED
  BY <1>8, <1>9, <1>10, <1>11, <1>14, <1>15 DEF Exact

\* The seller's row is written.
LEMMA SellerExact ==
    ASSUME NEW w, NEW x, NEW y, NEW t, NEW a, Only(w, x, y), SellerWritten(x, y, t, a)
    PROVE  Exact(y)'
<1>1. SellerMoves(x, y, t, a)
  BY SellerRow, OnlyFacts
<1>2. /\ x.at = "sellerRow" /\ t = x.job.trades[x.i] /\ a = SellerAcct(t) /\ a \in RowAccts
      /\ t.qty \in Nat /\ x.row.amt \in Nat /\ UNCHANGED <<dbStatus, dbTrades, volume, sent>>
  BY <1>1 DEF SellerMoves
<1>3. OneLong /\ ReadOK(x, a) /\ positions \in Seq(RowType)
  BY <1>2, OnlyFacts DEF Only, Exact, LongInv
<1>4. \A b : HalfSold(x, b) = 0
  BY <1>2 DEF HalfSold
<1>5. ASSUME Round(x, y, "buyer", "cre"), OneLong',
             \A b \in Accounts : Net(b) \in Int /\ Net(b)' = Net(b) - (IF a = b THEN t.qty ELSE 0)
      PROVE  Exact(y)'
  <2>1. SaleDone(x, y, t, a)
    BY <1>2, <1>5 DEF SaleDone
  <2>2. ASSUME NEW b \in Accounts PROVE SaleMoves(x, t, a, b)
    <3>1. PICK n, n1, h : n = Net(b) /\ n1 = Net(b)' /\ h = HalfSold(x, b)
      OBVIOUS
    <3>2. n1 = n - (IF a = b THEN t.qty ELSE 0) + h /\ n \in Int
      BY <1>2, <1>4, <1>5, <3>1
    <3>. QED
      BY <3>1, <3>2, Zenon DEF SaleMoves
  <2>. QED
    BY <1>5, <2>1, <2>2, SaleExact
<1>6. CASE a = NoAcct /\ positions' = positions /\ Round(x, y, "buyer", "cre")
  <2>1. OneLong'
    BY <1>3, <1>6 DEF OneLong
  <2>2. ASSUME NEW b \in Accounts PROVE Net(b) \in Int /\ Net(b)' = Net(b) - (IF a = b THEN t.qty ELSE 0)
    <3>1. a # b
      BY <1>6, NetBefore
    <3>2. Net(b)' = Net(b) /\ Net(b) \in Int
      BY <1>6, NetStays
    <3>. QED
      BY <3>1, <3>2
  <2>. QED
    BY <1>5, <1>6, <2>1, <2>2
<1>7. ASSUME NEW r \in RowType, a # NoAcct, x.row = NoRow, r = RowOf(x, a, "SHORT", t.qty),
             positions' = Append(positions, r), Round(x, y, "buyer", "cre")
      PROVE  Exact(y)'
  <2>1. r.acct = a /\ r.side = "SHORT" /\ r.open /\ r.amt = t.qty
    BY <1>7 DEF RowOf
  <2>2. OneLong'
    BY <1>3, <1>7, <2>1, OneLongAppend
  <2>3. ASSUME NEW b \in Accounts PROVE Net(b) \in Int /\ Net(b)' = Net(b) - (IF a = b THEN t.qty ELSE 0)
    <3>1. PICK n, n1, s : n = Net(b) /\ n1 = Net(b)' /\ s = NetStep(0, r, b)
      OBVIOUS
    <3>2. n1 = n + s /\ n \in Int
      BY <1>7, <3>1, NetMoves
    <3>3. s = IF a = b THEN 0 - t.qty ELSE 0
      BY <2>1, <3>1, NetStepIs
    <3>. QED
      BY <1>2, <3>1, <3>2, <3>3
  <2>. QED
    BY <1>5, <1>7, <2>2, <2>3
<1>8. ASSUME NEW i \in DOMAIN positions, NEW r \in RowType, x.row # NoRow, i = x.row.id, t.qty < x.row.amt,
             SameHolder(r, positions[i]), r.open = positions[i].open, r.amt = x.row.amt - t.qty,
             positions' = [positions EXCEPT ![i] = r], Round(x, y, "buyer", "cre")
      PROVE  Exact(y)'
  <2>0. PICK v : v = x.row.amt - t.qty
    OBVIOUS
  <2>1. /\ OneLong'
        /\ \A b : Net(b) \in Int /\ Net(b)' = Net(b) + (IF a = b THEN v - x.row.amt ELSE 0)
    <3>1. v \in Nat /\ r.amt = v
      BY <1>2, <1>8, <2>0
    <3>2. ~r.open => v = 0
      BY <1>3, <1>8, ReadRow
    <3>3. ReadRowIs(x, a, i, r, v)
      BY <1>3, <1>8, <3>1, <3>2, Zenon DEF ReadRowIs
    <3>. QED
      BY <3>3, ReadRowMoves
  <2>3. ASSUME NEW b \in Accounts PROVE Net(b) \in Int /\ Net(b)' = Net(b) - (IF a = b THEN t.qty ELSE 0)
    <3>1. PICK n, n1 : n = Net(b) /\ n1 = Net(b)'
      OBVIOUS
    <3>2. n \in Int /\ n1 = n + (IF a = b THEN v - x.row.amt ELSE 0)
      BY <2>1, <3>1
    <3>. QED
      BY <1>2, <2>0, <3>1, <3>2
  <2>. QED
    BY <1>5, <1>8, <2>1, <2>3
<1>9. ASSUME NEW i \in DOMAIN positions, NEW r \in RowType, x.row # NoRow, i = x.row.id, t.qty >= x.row.amt,
             SameHolder(r, positions[i]), r.open = FALSE, r.amt = 0,
             positions' = [positions EXCEPT ![i] = r],
             IF t.qty > x.row.amt THEN y = Mid(x, "short", x.seen, x.row) ELSE Round(x, y, "buyer", "cre")
      PROVE  Exact(y)'
  <2>0. PICK v : v = 0
    OBVIOUS
  <2>1. /\ OneLong'
        /\ \A b : Net(b) \in Int /\ Net(b)' = Net(b) + (IF a = b THEN v - x.row.amt ELSE 0)
    <3>1. v \in Nat /\ r.amt = v
      BY <1>2, <1>9, <2>0
    <3>2. ~r.open => v = 0
      BY <2>0
    <3>3. ReadRowIs(x, a, i, r, v)
      BY <1>3, <1>9, <3>1, <3>2, Zenon DEF ReadRowIs
    <3>. QED
      BY <3>3, ReadRowMoves
  <2>2. \A b : Net(b) \in Int /\ Net(b)' = Net(b) - (IF a = b THEN x.row.amt ELSE 0)
    BY <1>2, <2>0, <2>1
  <2>3. CASE t.qty > x.row.amt
    BY <1>2, <1>9, <2>1, <2>2, <2>3, HalfExact
  <2>4. CASE ~(t.qty > x.row.amt)
    <3>1. t.qty = x.row.amt
      BY <1>2, <1>9, <2>4
    <3>. QED
      BY <1>5, <1>9, <2>1, <2>2, <2>4, <3>1
  <2>. QED
    BY <2>3, <2>4
<1>. QED
  BY <1>1, <1>6, <1>7, <1>8, <1>9 DEF SellerMoves

\* Every statement.
LEMMA StatementExact ==
    ASSUME NEW w, NEW x, NEW y, Only(w, x, y), Statement(x, y)
    PROVE  Exact(y)'
<1>1. ASSUME NEW a, a = BuyerAcct(x.job.trades[x.i]), RowRead(x, y, "buyer", "buyerRow", a) PROVE Exact(y)'
  BY <1>1, RowReadExact
<1>2. ASSUME NEW a, a = SellerAcct(x.job.trades[x.i]), RowRead(x, y, "seller", "sellerRow", a) PROVE Exact(y)'
  BY <1>2, RowReadExact
<1>. QED
  BY <1>1, <1>2, OrderExact, TradesExact, MakerReadExact, MakerWrittenExact, BuyerExact, SellerExact,
     ShortExact, CreExact, VolumeExact, DoneExact, Zenon DEF Statement

----------------------------------------------------------------------------
(* The invariant is kept by the workers and by the faults. *)

\* A worker takes a step.
LEMMA PersistInv ==
    ASSUME Inv, taker = NoOrder, NEW w \in Workers, Persist(w)
    PROVE  Inv'
<1>1. SafeInv /\ WorkInv /\ ExactInv
  BY DEF Inv, SafeInv
<1>2. PICK x : x = work[w]
  OBVIOUS
<1>3. PICK y : Moves(w, x, y) /\ Statement(x, y)
  BY <1>1, <1>2, PersistMoves
<1>4. SafeInv'
  BY <1>1, <1>3, PersistSafe
<1>5. Running(w, x, y)
  BY <1>1, <1>3 DEF Running, SafeInv
<1>6. /\ w \in Workers /\ x = work[w] /\ x.at # "idle" /\ dropped' = dropped /\ faults' = faults
      /\ work \in [Workers -> WorkType] /\ work' = [work EXCEPT ![w] = y]
  BY <1>5, RunningFacts
<1>7. w \in Busy
  BY <1>1, <1>6, CurIs
<1>8. ExactInv'
  <2>1. SUFFICES ASSUME faults = 0
                 PROVE  dropped' = {} /\ \A z \in {Cur'} : Exact(z)'
    BY <1>6 DEF ExactInv
  <2>2. dropped = {} /\ Exact(Cur)
    BY <1>1, <2>1 DEF ExactInv
  <2>3. PICK c : c = Cur
    OBVIOUS
  <2>4. LineInv(c)
    BY <2>2, <2>3 DEF Exact
  <2>5. Busy = {w}
    BY <1>7, <2>4 DEF LineInv
  <2>6. Cur = x
    BY <1>6, <2>5 DEF Cur
  <2>7. Only(w, x, y)
    BY <1>4, <1>5, <2>2, <2>6 DEF Only
  <2>8. Exact(y)'
    BY <1>3, <2>7, StatementExact
  <2>9. Cur' = y
    <3>1. Busy' \subseteq {w} /\ (y = Idle => Busy' = {})
      BY <2>5, <2>7, OnlyFacts
    <3>2. work'[w] = y
      BY <1>6
    <3>3. CASE y = Idle
      BY <3>1, <3>3 DEF Cur
    <3>4. CASE y # Idle
      <4>1. w \in Busy'
        BY <1>6, <3>2, <3>4 DEF Busy
      <4>2. Busy' = {w}
        BY <3>1, <4>1
      <4>. QED
        BY <3>2, <4>2 DEF Cur
    <3>. QED
      BY <3>3, <3>4
  <2>. QED
    BY <1>6, <2>2, <2>8, <2>9
<1>. QED
  BY <1>4, <1>8 DEF Inv, SafeInv

\* A fault: nothing is said of what is exact from then on.
LEMMA FaultInv ==
    ASSUME Inv, Faults
    PROVE  Inv'
<1>1. SafeInv /\ taker = NoOrder
  BY DEF Inv, SafeInv, Faults
<1>2. SafeInv' /\ faults' > 0
  BY <1>1, RestartSafe, ErrorSafe, StallSafe DEF Faults
<1>3. faults' # 0
  BY <1>2
<1>4. ExactInv'
  BY <1>3 DEF ExactInv
<1>. QED
  BY <1>2, <1>4 DEF Inv, SafeInv

----------------------------------------------------------------------------
(* A worker takes a job, and nothing has failed. *)

\* A worker takes the first job, and nothing has failed: y is its record.
TakesFirst(w, j, y) ==
    /\ SafeInv /\ SafeInv' /\ Exact(Idle) /\ Take(w)
    /\ j = jobs[1] /\ y = Taken(j) /\ work' = [work EXCEPT ![w] = y]
    /\ UNCHANGED <<engineVars, dbVars, dropped>>
    /\ \A v \in Workers : work[v] = Idle

\* Before and after, nothing of a job has been half done.
LEMMA TakesFacts ==
    ASSUME NEW w \in Workers, NEW j, NEW y, TakesFirst(w, j, y), NEW x, x = Idle
    PROVE  /\ y.at = "order" /\ y.job = j /\ x.at = "idle"
           /\ LeftAre(x, {}, {}, {}, {}, {}) /\ LeftAre(y, {}, {}, {}, {}, {})
           /\ order' = order /\ Recorded' = Recorded /\ Busy' = {w} /\ Busy = {}
           /\ \A o : Made(o)' = Made(o) /\ Result(o)' = Result(o) /\ ByContract(o)' = ByContract(o)
           /\ \A t : BuyerAcct(t)' = BuyerAcct(t) /\ SellerAcct(t)' = SellerAcct(t)
           /\ UNCHANGED <<dbStatus, dbTrades, positions, volume, sent>>
           /\ Queued' \subseteq Queued /\ j.order \in Queued /\ j.order \notin Queued'
           /\ Queued \subseteq Queued' \union {j.order} /\ Exact(x)
<1>1. /\ SafeInv /\ Exact(x) /\ Take(w) /\ j = jobs[1] /\ y = Taken(j) /\ work' = [work EXCEPT ![w] = y]
      /\ UNCHANGED engineVars /\ \A v \in Workers : work[v] = Idle
      /\ UNCHANGED <<dbStatus, dbTrades, positions, volume, sent>>
  BY DEF TakesFirst, dbVars
<1>2. y.at = "order" /\ y.job = j /\ x.at = "idle" /\ y # Idle
  BY <1>1 DEF Taken, Idle
<1>3. LeftAre(x, {}, {}, {}, {}, {}) /\ LeftAre(y, {}, {}, {}, {}, {})
  BY <1>2, LeftIs
<1>4. /\ order' = order /\ Recorded' = Recorded
      /\ \A o : Made(o)' = Made(o) /\ Result(o)' = Result(o) /\ ByContract(o)' = ByContract(o)
      /\ \A t : BuyerAcct(t)' = BuyerAcct(t) /\ SellerAcct(t)' = SellerAcct(t)
  BY <1>1, EngineSame
<1>5. Busy' = {w} /\ Busy = {}
  <2>1. work \in [Workers -> WorkType]
    BY <1>1 DEF SafeInv, WorkInv
  <2>2. work'[w] = y /\ \A v \in Workers \ {w} : work'[v] = Idle
    BY <1>1, <2>1
  <2>. QED
    BY <1>1, <1>2, <2>2 DEF Busy
<1>6. /\ Len(jobs) \in Nat \ {0} /\ DOMAIN jobs = 1..Len(jobs) /\ 1 \in DOMAIN jobs
      /\ DOMAIN jobs' = 1..(Len(jobs) - 1)
      /\ \A k \in DOMAIN jobs' : jobs'[k] = jobs[k + 1] /\ k + 1 \in DOMAIN jobs
      /\ \A k \in DOMAIN jobs : k = 1 \/ (k - 1 \in DOMAIN jobs' /\ jobs'[k - 1] = jobs[k])
  BY <1>1, FirstJob DEF SafeInv
<1>7. Queued' \subseteq Queued /\ j.order \in Queued
  BY <1>1, <1>6 DEF Queued
<1>8. j.order \notin Queued'
  <2>1. \A k, l \in DOMAIN jobs : jobs[k].order = jobs[l].order => k = l
    BY <1>1 DEF Exact, LineInv
  <2>2. ASSUME NEW k \in DOMAIN jobs' PROVE jobs'[k].order # j.order
    <3>1. k + 1 \in DOMAIN jobs /\ k + 1 # 1 /\ jobs'[k] = jobs[k + 1]
      BY <1>6, <2>2
    <3>. QED
      BY <1>1, <1>6, <2>1, <3>1
  <2>. QED
    BY <2>2 DEF Queued
<1>9. Queued \subseteq Queued' \union {j.order}
  <2>1. ASSUME NEW k \in DOMAIN jobs PROVE jobs[k].order \in Queued' \union {j.order}
    BY <1>1, <1>6, <2>1 DEF Queued
  <2>. QED
    BY <2>1 DEF Queued
<1>. QED
  BY <1>1, <1>2, <1>3, <1>4, <1>5, <1>7, <1>8, <1>9

\* The order of the jobs.
LEMMA TakeLine ==
    ASSUME NEW w \in Workers, NEW j, NEW y, TakesFirst(w, j, y)
    PROVE  LineInv(y)' /\ DoneInv(y)'
<1>1. PICK x : x = Idle
  OBVIOUS
<1>2. /\ y.at = "order" /\ y.job = j /\ Busy' = {w} /\ dbTrades' = dbTrades
      /\ Queued' \subseteq Queued /\ j.order \in Queued /\ j.order \notin Queued' /\ Exact(x)
  BY <1>1, TakesFacts
<1>3. LineInv(x) /\ DoneInv(x)
  BY <1>2 DEF Exact
<1>4. /\ Len(jobs) \in Nat \ {0} /\ DOMAIN jobs = 1..Len(jobs) /\ 1 \in DOMAIN jobs
      /\ DOMAIN jobs' = 1..(Len(jobs) - 1)
      /\ \A k \in DOMAIN jobs' : jobs'[k] = jobs[k + 1] /\ k + 1 \in DOMAIN jobs
      /\ j = jobs[1]
  BY FirstJob DEF SafeInv, TakesFirst
<1>5. /\ \A k, l \in DOMAIN jobs : jobs[k].order = jobs[l].order => k = l
      /\ \A k, l \in DOMAIN jobs : k <= l => \A t \in ToSet(jobs[k].trades) : t.maker # jobs[l].order
      /\ \A t \in dbTrades : t.maker \notin Queued
      /\ \A t \in dbTrades : t.taker \notin Queued
  BY <1>3 DEF LineInv, DoneInv
<1>6. \A k, l \in DOMAIN jobs' : jobs'[k].order = jobs'[l].order => k = l
  <2>1. SUFFICES ASSUME NEW k \in DOMAIN jobs', NEW l \in DOMAIN jobs', jobs'[k].order = jobs'[l].order
                 PROVE  k = l
    OBVIOUS
  <2>2. k + 1 = l + 1
    BY <1>4, <1>5, <2>1
  <2>3. k \in Nat /\ l \in Nat
    BY <1>4, <2>1
  <2>. QED
    BY <2>2, <2>3
<1>7. \A k, l \in DOMAIN jobs' : k <= l => \A t \in ToSet(jobs'[k].trades) : t.maker # jobs'[l].order
  <2>1. SUFFICES ASSUME NEW k \in DOMAIN jobs', NEW l \in DOMAIN jobs', k <= l
                 PROVE  \A t \in ToSet(jobs'[k].trades) : t.maker # jobs'[l].order
    OBVIOUS
  <2>2. k + 1 <= l + 1 /\ k + 1 \in DOMAIN jobs /\ l + 1 \in DOMAIN jobs
    BY <1>4, <2>1
  <2>3. jobs'[k] = jobs[k + 1] /\ jobs'[l] = jobs[l + 1]
    BY <1>4, <2>1
  <2>. QED
    BY <1>5, <2>2, <2>3
<1>8. \A t \in ToSet(j.trades) : t.maker \notin Queued'
  <2>1. ASSUME NEW l \in DOMAIN jobs', NEW t \in ToSet(j.trades) PROVE t.maker # jobs'[l].order
    <3>1. 1 <= l + 1 /\ 1 \in DOMAIN jobs /\ l + 1 \in DOMAIN jobs /\ jobs'[l] = jobs[l + 1]
      BY <1>4, <2>1
    <3>. QED
      BY <1>4, <1>5, <2>1, <3>1
  <2>. QED
    BY <2>1 DEF Queued
<1>9. LineInv(y)'
  <2>1. \A u, v \in Busy' : u = v
    BY <1>2
  <2>2. \A t \in dbTrades' \union ToSet(y.job.trades) : t.maker \notin Queued'
    BY <1>2, <1>5, <1>8
  <2>3. y.at = "order" => \A t \in dbTrades' : t.maker # y.job.order
    BY <1>2, <1>5
  <2>. QED
    BY <1>2, <1>6, <1>7, <2>1, <2>2, <2>3 DEF LineInv
<1>10. DoneInv(y)'
  BY <1>2, <1>5 DEF DoneInv
<1>. QED
  BY <1>9, <1>10

\* The rows.
LEMMA TakeRows ==
    ASSUME NEW w \in Workers, NEW j, NEW y, TakesFirst(w, j, y)
    PROVE  RowsInv(y)' /\ LongInv(y)' /\ VolumeInv(y)' /\ SentInv(y)'
<1>1. PICK x : x = Idle
  OBVIOUS
<1>2. /\ y.at = "order" /\ y.job = j /\ x.at = "idle" /\ order' = order /\ Recorded' = Recorded
      /\ \A o : Made(o)' = Made(o) /\ Result(o)' = Result(o) /\ ByContract(o)' = ByContract(o)
      /\ UNCHANGED <<dbStatus, dbTrades, positions, volume, sent>>
      /\ Queued \subseteq Queued' \union {j.order} /\ Exact(x)
      /\ LeftAre(x, {}, {}, {}, {}, {}) /\ LeftAre(y, {}, {}, {}, {}, {})
  BY <1>1, TakesFacts
<1>3. /\ MakersLeft(x) = {} /\ SendsLeft(x) = {} /\ VolumeLeft(x) = {}
      /\ MakersLeft(y) = {} /\ SendsLeft(y) = {} /\ VolumeLeft(y) = {}
  BY <1>2 DEF LeftAre
<1>4. RowsInv(x) /\ LongInv(x) /\ VolumeInv(x) /\ SentInv(x)
  BY <1>2 DEF Exact
<1>5. RowsInv(y)'
  <2>1. \A o : Seen(y, o)' = Seen(x, o)
    BY <1>2, <1>3 DEF Seen
  <2>2. ASSUME NEW o, RowOK(x, o) PROVE RowOK(y, o)'
    BY <1>2, <2>1, <2>2 DEF RowOK
  <2>3. \A o \in Recorded \ Queued : RowOK(x, o)
    BY <1>2, <1>4 DEF RowsInv
  <2>4. \A o \in Recorded' \ Queued' : y.job.order # o => RowOK(y, o)'
    BY <1>2, <2>2, <2>3
  <2>. QED
    BY <1>2, <2>4 DEF RowsInv
<1>6. LongInv(y)'
  BY <1>2, <1>4 DEF LongInv, OneLong
<1>7. VolumeInv(y)'
  BY <1>2, <1>3, <1>4, VolumeFrame
<1>8. SentInv(y)'
  <2>1. \A o : Sent(y, o)' = Sent(x, o)
    BY <1>2, <1>3 DEF Sent
  <2>2. ASSUME NEW o \in Orders, order'[o].who.kind = "agent", HasSignature(o)'
        PROVE  sent'[o] = Cardinality(Sent(y, o)') + ByRoute(o)'
    <3>1. order[o].who.kind = "agent" /\ HasSignature(o)
      BY <1>2, <2>2 DEF HasSignature
    <3>2. Cardinality(Sent(y, o)') = Cardinality(Sent(x, o))
      BY <2>1, Zenon
    <3>3. sent[o] = Cardinality(Sent(x, o)) + ByRoute(o)
      BY <1>4, <3>1 DEF SentInv
    <3>4. ByRoute(o)' = ByRoute(o)
      BY <1>2, Zenon DEF ByRoute
    <3>. QED
      BY <1>2, <3>2, <3>3, <3>4
  <2>. QED
    BY <2>2, Zenon DEF SentInv
<1>. QED
  BY <1>5, <1>6, <1>7, <1>8

\* The sums of the positions.
LEMMA TakeNet ==
    ASSUME NEW w \in Workers, NEW j, NEW y, TakesFirst(w, j, y)
    PROVE  NetInv(y)'
<1>1. PICK x : x = Idle
  OBVIOUS
<1>2. /\ y.at = "order" /\ x.at = "idle" /\ dbTrades' = dbTrades /\ positions' = positions
      /\ \A t : BuyerAcct(t)' = BuyerAcct(t) /\ SellerAcct(t)' = SellerAcct(t)
      /\ LeftAre(x, {}, {}, {}, {}, {}) /\ LeftAre(y, {}, {}, {}, {}, {}) /\ Exact(x)
  BY <1>1, TakesFacts
<1>3. BuysLeft(x) = {} /\ SalesLeft(x) = {} /\ BuysLeft(y) = {} /\ SalesLeft(y) = {} /\ NetInv(x)
  BY <1>2 DEF LeftAre, Exact
<1>4. \A a : Buys(y, a)' = Buys(x, a) /\ Sales(y, a)' = Sales(x, a)
  BY <1>2, <1>3 DEF Buys, Sales
<1>5. \A a : HalfSold(y, a)' = HalfSold(x, a)
  BY <1>2 DEF HalfSold
<1>6. \A a : Net(a)' = Net(a)
  <2>0. positions \in Seq(RowType)
    BY DEF TakesFirst, SafeInv, TablesInv
  <2>1. NetsAre
    BY <2>0, NetIs
  <2>2. (positions \in Seq(RowType))'
    BY <1>2, <2>0
  <2>3. NetsAre'
    BY <2>2, NetIs, PTL
  <2>. QED
    BY <1>2, <2>1, <2>3 DEF NetsAre
<1>7. ASSUME NEW a \in Accounts
      PROVE  Net(a)' = QtySum(Buys(y, a)') - QtySum(Sales(y, a)') + Supply(a) - HalfSold(y, a)'
  <2>1. Net(a) = QtySum(Buys(x, a)) - QtySum(Sales(x, a)) + Supply(a) - HalfSold(x, a)
    BY <1>3 DEF NetInv
  <2>2. QtySum(Buys(y, a)') = QtySum(Buys(x, a)) /\ QtySum(Sales(y, a)') = QtySum(Sales(x, a))
    BY <1>4
  <2>. QED
    BY <1>5, <1>6, <2>1, <2>2
<1>. QED
  BY <1>7, Zenon DEF NetInv

\* A worker takes a job.
LEMMA TakeInv ==
    ASSUME Inv, NEW w \in Workers, Take(w)
    PROVE  Inv'
<1>1. SafeInv /\ ExactInv
  BY DEF Inv, SafeInv
<1>2. SafeInv'
  BY <1>1, TakeSafe
<1>3. PICK j, y : /\ j = jobs[1] /\ JobOK(j) /\ y = Taken(j) /\ work' = [work EXCEPT ![w] = y]
                  /\ work[w] = Idle /\ UNCHANGED <<engineVars, dbVars, dropped>>
                  /\ faults' = 0 => faults = 0 /\ \A v \in Workers : work[v] = Idle
  BY <1>1, TakeIs
<1>4. ExactInv'
  <2>1. SUFFICES ASSUME faults' = 0
                 PROVE  dropped' = {} /\ \A z \in {Cur'} : Exact(z)'
    BY DEF ExactInv
  <2>2. faults = 0 /\ dropped = {} /\ Exact(Cur) /\ \A v \in Workers : work[v] = Idle
    BY <1>1, <1>3, <2>1 DEF ExactInv
  <2>3. Cur = Idle
    BY <2>2 DEF Cur, Busy
  <2>4. TakesFirst(w, j, y)
    BY <1>1, <1>2, <1>3, <2>2, <2>3 DEF TakesFirst
  <2>5. LineInv(y)' /\ DoneInv(y)' /\ RowsInv(y)' /\ LongInv(y)' /\ NetInv(y)' /\ VolumeInv(y)' /\ SentInv(y)'
    BY <2>4, TakeLine, TakeRows, TakeNet
  <2>6. Exact(y)'
    BY <2>5 DEF Exact
  <2>7. Cur' = y
    <3>1. Busy' = {w}
      BY <2>4, TakesFacts
    <3>2. work \in [Workers -> WorkType]
      BY <1>1 DEF SafeInv, WorkInv
    <3>3. work'[w] = y
      BY <1>3, <3>2
    <3>. QED
      BY <3>1, <3>3 DEF Cur
  <2>. QED
    BY <1>3, <2>2, <2>6, <2>7
<1>. QED
  BY <1>2, <1>4 DEF Inv, SafeInv

----------------------------------------------------------------------------
(* The initial states, and all steps. *)

\* The platform's row, which is there from the start.
FirstRow == [acct |-> PlatformAcct, chain |-> "main", side |-> "LONG", open |-> TRUE, amt |-> PlatformSupply]

\* The platform's row is its supply.
LEMMA FirstRowIs ==
    /\ FirstRow \in RowType /\ <<FirstRow>> \in Seq(RowType)
    /\ \A a \in Accounts : NetOf(<<FirstRow>>, a) = Supply(a)
<1>1. PlatformSupply \in Nat
  BY NumbersAssumption
<1>2. PICK r : r = FirstRow
  OBVIOUS
<1>3. r \in RowType
  BY <1>1, <1>2 DEF FirstRow, RowType, RowAccts
<1>4. <<r>> \in Seq(RowType)
  BY <1>3
<1>5. r.acct = PlatformAcct /\ r.side = "LONG" /\ r.open /\ r.amt = PlatformSupply
  BY <1>2 DEF FirstRow
<1>6. ASSUME NEW a \in Accounts PROVE NetOf(<<r>>, a) = Supply(a)
  <2>1. NetOf(<<r>>, a) = NetStep(0, r, a)
    BY <1>3, NetOfOne
  <2>2. NetStep(0, r, a) = Supply(a)
    <3>1. NetStep(0, r, a) = IF r.acct = a THEN 0 + r.amt ELSE 0
      BY <1>5, Zenon DEF NetStep
    <3>. QED
      BY <1>1, <1>5, <3>1 DEF Supply
  <2>. QED
    BY <2>1, <2>2
<1>. QED
  BY <1>2, <1>3, <1>4, <1>6

\* At first.
LEMMA FirstFacts ==
    ASSUME Init
    PROVE  /\ Recorded = {} /\ trades = << >> /\ jobs = << >> /\ Busy = {} /\ dbTrades = {} /\ direct = {}
           /\ routing = {} /\ platformFilled \in [Orders -> Nat]
           /\ work = [w \in Workers |-> Idle] /\ dbStatus = [o \in Orders |-> "none"]
           /\ positions = <<FirstRow>> /\ volume = 0 /\ sent = [o \in Orders |-> 0]
           /\ dropped = {} /\ faults = 0 /\ AllTrades = {}
<1>1. /\ status = [o \in Orders |-> "NEW"] /\ trades = << >> /\ platformFilled = [o \in Orders |-> 0]
      /\ work = [w \in Workers |-> Idle]
  BY DEF Init, FillInit, BookInit
<1>2. Recorded = {}
  BY <1>1 DEF Recorded
<1>3. AllTrades = {}
  BY <1>2 DEF AllTrades
<1>4. Busy = {}
  BY <1>1 DEF Busy
<1>. QED
  BY <1>1, <1>2, <1>3, <1>4 DEF Init, FirstRow

\* What holds in spite of failures does at first.
LEMMA SafeInit == Init => SafeInv
<1>. SUFFICES ASSUME Init PROVE SafeInv
  OBVIOUS
<1>. USE FirstFacts
<1>1. BooksInv
  BY BooksInit
<1>2. ListInv
  BY DEF ListInv
<1>3. JobsInv
  BY DEF JobsInv, ToSet
<1>4. WorkInv
  <2>1. PICK y : y = Idle
    OBVIOUS
  <2>2. y \in WorkType /\ WorkOK(y)
    BY <2>1, IdleIs
  <2>3. work \in [Workers -> WorkType] /\ \A w \in Workers : work[w] = y
    BY <2>1, <2>2
  <2>. QED
    BY <2>2, <2>3 DEF WorkInv
<1>5. TablesInv
  <2>1. positions \in Seq(RowType)
    BY FirstRowIs
  <2>2. faults \in 0..MaxFaults
    BY NumbersAssumption
  <2>. QED
    BY <2>1, <2>2 DEF TablesInv
<1>6. NewInv
  BY DEF NewInv
<1>7. CoverInv
  BY DEF CoverInv
<1>. QED
  BY <1>1, <1>2, <1>3, <1>4, <1>5, <1>6, <1>7 DEF SafeInv

\* So does what holds while nothing has failed.
LEMMA ExactInit ==
    ASSUME Init, NEW x, x = Idle
    PROVE  Exact(x)
<1>. USE FirstFacts
<1>1. x.at = "idle" /\ x.job.trades = << >>
  BY DEF Idle, NoJob
<1>2. LineInv(x) /\ DoneInv(x)
  BY <1>1 DEF LineInv, DoneInv, ToSet
<1>3. RowsInv(x)
  BY <1>1 DEF RowsInv
<1>4. LongInv(x)
  BY <1>1 DEF LongInv, OneLong
<1>5. \A a : Buys(x, a) = {} /\ Sales(x, a) = {} /\ HalfSold(x, a) = 0
  BY <1>1 DEF Buys, Sales, HalfSold
<1>6. NetInv(x)
  <2>1. ASSUME NEW a \in Accounts PROVE Net(a) = QtySum(Buys(x, a)) - QtySum(Sales(x, a)) + Supply(a) - HalfSold(x, a)
    <3>1. Net(a) = Supply(a)
      BY FirstRowIs, NetIs DEF NetsAre
    <3>2. QtySum(Buys(x, a)) = 0 /\ QtySum(Sales(x, a)) = 0 /\ HalfSold(x, a) = 0
      BY <1>5, NoSums
    <3>3. Supply(a) \in Int
      BY NumbersAssumption DEF Supply
    <3>. QED
      BY <3>1, <3>2, <3>3
  <2>. QED
    BY <2>1 DEF NetInv
<1>7. VolumeInv(x)
  <2>1. dbTrades \ VolumeLeft(x) = {}
    OBVIOUS
  <2>. QED
    BY <2>1, NoSums DEF VolumeInv
<1>8. SentInv(x)
  <2>1. ASSUME NEW o \in Orders PROVE sent[o] = Cardinality(Sent(x, o)) + ByRoute(o)
    <3>1. Sent(x, o) = {}
      BY DEF Sent
    <3>2. order[o] = NoInput
      BY <2>1 DEF Init, FillInit, BookInit
    <3>3. ~ByContract(o)
      BY <3>2 DEF ByContract, GoesToContract, NoInput
    <3>4. ByRoute(o) = 0
      BY <3>3, Zenon DEF ByRoute
    <3>. QED
      BY <3>1, <3>4, FS_EmptySet
  <2>. QED
    BY <2>1 DEF SentInv
<1>. QED
  BY <1>2, <1>3, <1>4, <1>6, <1>7, <1>8 DEF Exact

\* The initial states.
LEMMA StartsInInv == Init => Inv
<1>. SUFFICES ASSUME Init PROVE Inv
  OBVIOUS
<1>1. SafeInv
  BY SafeInit
<1>2. Cur = Idle /\ dropped = {}
  BY FirstFacts DEF Cur
<1>3. ExactInv
  BY <1>2, ExactInit DEF ExactInv
<1>. QED
  BY <1>1, <1>3 DEF SafeInv, Inv

\* A step of the route or of the engine.
LEMMA EngineInv ==
    ASSUME Inv, EngineEffect
    PROVE  Inv'
<1>1. BooksInv' /\ ListInv'
  BY DEF EngineEffect
<1>2. JobsInv' /\ WorkInv' /\ TablesInv' /\ NewInv' /\ CoverInv' /\ ExactInv'
  BY JobsUnderEngine, WorkUnderEngine, TablesUnderEngine, NewUnderEngine, CoverUnderEngine, ExactUnderEngine
     DEF Inv
<1>. QED
  BY <1>1, <1>2 DEF Inv

\* Nothing changes.
LEMMA StutterInv ==
    ASSUME Inv, UNCHANGED vars
    PROVE  Inv'
<1>1. /\ UNCHANGED engineVars /\ UNCHANGED dbVars /\ UNCHANGED faultVars /\ jobs' = jobs /\ work' = work
  BY DEF vars
<1>2. UNCHANGED <<order, rem, status, trades, platformFilled, routing, direct, sent, dbStatus, dbTrades, positions, volume>>
  BY <1>1 DEF engineVars, bookVars, routeVars, dbVars
<1>3. BooksInv' /\ ListInv'
  BY <1>1, <1>2, BooksSame, ListSame DEF Inv
<1>4. \A x \in Recorded : Kept(x)
  BY <1>2, KeptSame
<1>5. Recorded' = Recorded
  BY <1>2 DEF Recorded
<1>6. EngineEffect
  <2>1. TablesInv
    BY DEF Inv
  <2>. QED
    BY <1>1, <1>2, <1>3, <1>4, <1>5, <2>1 DEF EngineEffect, TablesInv
<1>. QED
  BY <1>6, EngineInv

\* Every step keeps the invariant.
LEMMA StepInv ==
    ASSUME Inv, Next
    PROVE  Inv'
<1>0. BooksInv /\ ListInv /\ TablesInv
  BY DEF Inv
<1>1. CASE Route
  <2>1. ASSUME NEW o \in FreshIds, NEW in \in Inputs, Place(o, in) \/ DirectSend(o, in) PROVE EngineEffect
    <3>1. o \in Orders
      BY <2>1 DEF FreshIds
    <3>. QED
      BY <1>0, <2>1, <3>1, PlaceEffect, SendEffect
  <2>2. ASSUME NEW o \in routing, DirectRecord(o) \/ DirectFails(o) PROVE EngineEffect
    <3>1. o \in Orders
      BY <1>0, <2>2 DEF TablesInv
    <3>. QED
      BY <1>0, <2>2, <3>1, RecordEffect, FailEffect
  <2>3. EngineEffect
    BY <1>1, <2>1, <2>2 DEF Route
  <2>. QED
    BY <2>3, EngineInv
<1>2. CASE Engine
  BY <1>0, <1>2, RoundEffect, ReturnEffect, EngineInv DEF Engine
<1>3. CASE \E w \in Workers : Worker(w)
  BY <1>3, TakeInv, PersistInv DEF Worker
<1>4. CASE Faults
  BY <1>4, FaultInv
<1>. QED
  BY <1>1, <1>2, <1>3, <1>4 DEF Next

\* Inv holds in every state of the system: of the book and its fills, of the jobs that
\* enqueueOrderAndTradesForPersistence adds, of the workers' progress through
\* persistTrades, and of the tables that they write.
THEOREM Invariance == Spec => []Inv
<1>1. Inv /\ [Next]_vars => Inv'
  BY StepInv, StutterInv
<1>. QED
  BY StartsInInv, <1>1, PTL DEF Spec

----------------------------------------------------------------------------
(* The properties. *)

\* No variable leaves its type.
LEMMA InvTypes == Inv => DbTypeOK
<1>. SUFFICES ASSUME Inv PROVE DbTypeOK
  OBVIOUS
<1>1. TablesInv /\ JobsInv /\ WorkInv /\ BooksInv /\ ListInv
  BY DEF Inv
<1>2. /\ routing \union direct \union dropped \subseteq Orders /\ jobs \in Seq(JobType)
      /\ dbStatus \in [Orders -> Status \union {"none"}] /\ volume \in Nat /\ sent \in [Orders -> Nat]
      /\ faults \in 0..MaxFaults /\ positions \in Seq(RowType) /\ dbTrades \subseteq AllTrades
  BY <1>1 DEF TablesInv, JobsInv
<1>3. dbTrades \subseteq JobTrade
  BY <1>1, <1>2, AllTradesAre
<1>4. ASSUME NEW i \in DOMAIN positions PROVE positions[i].amt \in Nat
  <2>1. positions[i] \in RowType
    BY <1>2, <1>4
  <2>. QED
    BY <2>1 DEF RowType
<1>5. ASSUME NEW w \in Workers
      PROVE  /\ work[w].job \in JobType \union {NoJob}
             /\ work[w].i \in 0..Len(work[w].job.trades) \union {1}
             /\ work[w].seen \in Status \union {"none"}
             /\ work[w].row.id \in 0..Len(positions)
  <2>1. PICK x : x = work[w]
    OBVIOUS
  <2>2. x \in WorkType /\ WorkOK(x)
    BY <1>1, <2>1 DEF WorkInv
  <2>3. x.job \in JobType \union {NoJob} /\ x.seen \in Status \union {"none"} /\ x.row \in [id : Nat, amt : Nat]
    BY <2>2 DEF WorkType
  <2>4. Len(x.job.trades) \in Nat
    <3>1. x.job.trades \in Seq(JobTrade)
      <4>1. CASE x.job \in JobType
        BY <4>1 DEF JobType
      <4>2. CASE x.job = NoJob
        <5>1. x.job.trades = << >>
          BY <4>2 DEF NoJob
        <5>. QED
          BY <5>1
      <4>. QED
        BY <2>3, <4>1, <4>2
    <3>. QED
      BY <3>1
  <2>5. x.i \in 0..Len(x.job.trades) \union {1}
    BY <2>2, <2>4 DEF WorkOK
  <2>6. x.row.id \in 0..Len(positions)
    <3>1. Len(positions) \in Nat /\ DOMAIN positions = 1..Len(positions)
      BY <1>2
    <3>2. x.row = NoRow \/ x.row.id \in DOMAIN positions
      BY <2>2 DEF WorkOK
    <3>. QED
      BY <3>1, <3>2 DEF NoRow
  <2>. QED
    BY <2>1, <2>3, <2>5, <2>6
<1>. QED
  BY <1>2, <1>3, <1>4, <1>5 DEF DbTypeOK

\* The jobs, the workers' progress and the rows of the database keep their types, and no
\* position ever holds a negative amount: applyTradesToPositions splits a sale into what the
\* LONG row has and a SHORT row so that neither goes below zero, whatever a stale read says.
THEOREM DbTypes == Spec => []DbTypeOK
BY Invariance, InvTypes, PTL

\* The rows of an account on a chain.
LEMMA InvOneLong == Inv => AtMostOneOpenLong
<1>. SUFFICES ASSUME Inv, faults = 0 PROVE OneLong
  BY DEF AtMostOneOpenLong, OneLong
<1>1. Exact(Cur)
  BY DEF Inv, ExactInv
<1>2. PICK c : c = Cur
  OBVIOUS
<1>3. LongInv(c)
  BY <1>1, <1>2 DEF Exact
<1>. QED
  BY <1>3 DEF LongInv

\* While no job has failed or been taken twice, the updates of positions (a read of the
\* open row, then a write to it or a new row) leave an account one open LONG position
\* of a chain at most.
THEOREM OpenLongs == Spec => []AtMostOneOpenLong
BY Invariance, InvOneLong, PTL

\* What is known when the worker has caught up and nothing has failed.
Settled(x) ==
    /\ x.at = "idle" /\ Exact(x) /\ LeftAre(x, {}, {}, {}, {}, {}) /\ Queued = {}
    /\ dbTrades = AllTrades /\ taker = NoOrder /\ BooksInv /\ ListInv

\* Nothing queued and no worker at work.
LEMMA QuietIsSettled ==
    ASSUME Inv, Quiet, faults = 0, NEW x, x = Idle
    PROVE  Settled(x)
<1>1. jobs = << >> /\ Busy = {} /\ taker = NoOrder
  BY DEF Quiet
<1>2. dropped = {} /\ Exact(Cur) /\ Cur = x
  BY <1>1 DEF Inv, ExactInv, Cur
<1>3. x.at = "idle"
  BY DEF Idle
<1>4. LeftAre(x, {}, {}, {}, {}, {})
  BY <1>3, LeftIs
<1>5. Queued = {}
  BY <1>1 DEF Queued
<1>6. \A o \in Recorded : TradesOf(o) \subseteq dbTrades
  BY <1>1, <1>2 DEF Inv, CoverInv
<1>7. AllTrades \subseteq dbTrades
  BY <1>6 DEF AllTrades
<1>8. dbTrades = AllTrades
  BY <1>7 DEF Inv, TablesInv
<1>. QED
  BY <1>1, <1>2, <1>3, <1>4, <1>5, <1>8 DEF Settled, Inv

\* The fills in the Trade table, and the volume.
LEMMA InvCounted == Inv => TradesAreCounted
<1>. SUFFICES ASSUME Inv PROVE TradesAreCounted
  OBVIOUS
<1>1. TradeRowsExact
  BY DEF Inv, TablesInv, CoverInv, TradeRowsExact, Quiet
<1>2. ASSUME Quiet, faults = 0 PROVE volume = CostSum(dbTrades)
  <2>1. PICK x : x = Idle
    OBVIOUS
  <2>2. Settled(x)
    BY <1>2, <2>1, QuietIsSettled
  <2>3. VolumeInv(x) /\ VolumeLeft(x) = {}
    BY <2>2 DEF Settled, Exact, LeftAre
  <2>4. dbTrades \ VolumeLeft(x) = dbTrades
    BY <2>3
  <2>. QED
    BY <2>3, <2>4 DEF VolumeInv
<1>3. VolumeIsTradeSum
  BY <1>2, Zenon DEF VolumeIsTradeSum, CostSum
<1>. QED
  BY <1>1, <1>3 DEF TradesAreCounted

\* Every fill of an order whose job was not dropped has its Trade row once the worker has
\* caught up, though jobs fail, are retried, run twice or are cut short by a restart
\* (createMany with skipDuplicates); while nothing fails, Market.volume is the cost of them.
THEOREM FillsCounted == Spec => []TradesAreCounted
BY Invariance, InvCounted, PTL

\* What CRE has been sent for the agents' orders.
LEMMA InvSent == Inv => AgentSignaturesCounted
<1>. SUFFICES ASSUME Inv, Quiet, faults = 0, NEW o \in Recorded, Signed(o)
              PROVE  sent[o] = Cardinality(FillsOf(o)) + (IF o \in direct THEN 1 ELSE 0)
  BY DEF AgentSignaturesCounted
<1>1. PICK x : x = Idle
  OBVIOUS
<1>2. Settled(x)
  BY <1>1, QuietIsSettled
<1>3. SentInv(x) /\ SendsLeft(x) = {} /\ dbTrades = AllTrades /\ BooksInv
  BY <1>2 DEF Settled, Exact, LeftAre
<1>4. o \in Orders /\ StatusOK(o) /\ status[o] # "PENDING"
  BY <1>3 DEF BooksInv, FillsInv, Recorded
<1>5. ByContract(o) <=> o \in direct
  BY <1>4 DEF StatusOK
<1>6. sent[o] = Cardinality(Sent(x, o)) + ByRoute(o)
  BY <1>3, <1>4 DEF SentInv, HasSignature, Signed
<1>7. Sent(x, o) = FillsOf(o)
  BY <1>3 DEF Sent, FillsOf
<1>8. ByRoute(o) = IF o \in direct THEN 1 ELSE 0
  <2>1. CASE o \in direct
    BY <1>5, <2>1, Zenon DEF ByRoute
  <2>2. CASE o \notin direct
    BY <1>5, <2>2, Zenon DEF ByRoute
  <2>. QED
    BY <2>1, <2>2
<1>. QED
  BY <1>6, <1>7, <1>8

\* While nothing fails, once the worker has caught up an agent's signature has been sent to CRE
\* once for every fill of its order, as maker and as taker (executeCreTrades), and once more
\* when it is the order of a signed MARKET request, which POST /api/orders has sent first: so
\* twice in all for that order, and never twice for a fill of any other.
THEOREM SignaturesCounted == Spec => []AgentSignaturesCounted
BY Invariance, InvSent, PTL

\* The positions and the trades.
LEMMA InvBalance == Inv => BooksBalance
<1>. SUFFICES ASSUME Inv, Quiet, faults = 0, NEW a \in Accounts
              PROVE  Net(a) = Bought(a) - Sold(a) + (IF a = PlatformAcct THEN PlatformSupply ELSE 0)
  BY DEF BooksBalance
<1>1. PICK x : x = Idle
  OBVIOUS
<1>2. Settled(x)
  BY <1>1, QuietIsSettled
<1>3. NetInv(x) /\ BuysLeft(x) = {} /\ SalesLeft(x) = {} /\ dbTrades = AllTrades /\ x.at = "idle"
  BY <1>2 DEF Settled, Exact, LeftAre
<1>4. Net(a) = QtySum(Buys(x, a)) - QtySum(Sales(x, a)) + Supply(a) - HalfSold(x, a)
  BY <1>3 DEF NetInv
<1>5. HalfSold(x, a) = 0
  BY <1>3 DEF HalfSold
<1>6. /\ Buys(x, a) = {t \in AllTrades : Acct(Buyer(t)) = a}
      /\ Sales(x, a) = {t \in AllTrades : Acct(Seller(t)) = a}
  BY <1>3 DEF Buys, Sales, BuyerAcct, SellerAcct
<1>7. QtySum(Buys(x, a)) = Bought(a) /\ QtySum(Sales(x, a)) = Sold(a)
  BY <1>6, Zenon DEF QtySum, Bought, Sold
<1>8. Bought(a) \in Nat /\ Sold(a) \in Nat
  <2>1. IsFiniteSet(AllTrades) /\ AllTrades \in SUBSET JobTrade
    BY <1>2, AllTradesAre DEF Settled
  <2>2. IsFiniteSet(Buys(x, a)) /\ IsFiniteSet(Sales(x, a))
    BY <1>6, <2>1, FS_Subset
  <2>3. \A t \in Buys(x, a) \union Sales(x, a) : t.qty \in Nat
    BY <1>6, <2>1 DEF JobTrade
  <2>4. QtySum(Buys(x, a)) \in Nat /\ QtySum(Sales(x, a)) \in Nat
    BY <2>2, <2>3, QtySumCovers
  <2>. QED
    BY <1>7, <2>4
<1>9. Supply(a) \in Int
  BY NumbersAssumption DEF Supply
<1>10. Net(a) = Bought(a) - Sold(a) + Supply(a)
  <2>1. PICK p, q, u : p = Bought(a) /\ q = Sold(a) /\ u = Supply(a)
    OBVIOUS
  <2>2. Net(a) = p - q + u - 0
    BY <1>4, <1>5, <1>7, <2>1
  <2>3. p - q + u - 0 = p - q + u
    BY <1>8, <1>9, <2>1
  <2>. QED
    BY <2>1, <2>2, <2>3
<1>. QED
  BY <1>10 DEF Supply

\* While nothing fails, once the queue is empty the positions of an account add up to what
\* it has bought less what it has sold: the split of a sale into the LONG row it closes
\* and the SHORT row it opens loses nothing.
THEOREM AccountsBalance == Spec => []BooksBalance
BY Invariance, InvBalance, PTL

\* What an order has traded: in the book, and with the platform.
LEMMA FilledIs ==
    ASSUME BooksInv, ListInv, taker = NoOrder, NEW o \in Recorded, o \notin direct
    PROVE  {t \in AllTrades : o \in {t.maker, t.taker}} = TradesWith(o) \union FromPlatform(o)
<1>1. /\ ToSet(trades) \subseteq AllTrades /\ TradesOf(o) \subseteq AllTrades /\ o \in Orders
      /\ \A t \in AllTrades : t \in TradesOf(t.taker) /\ (t.maker \in Orders => t \in ToSet(trades))
  BY AllTradesAre DEF Recorded
<1>2. TradesOf(o) = {t \in ToSet(trades) : t.taker = o} \union FromPlatform(o)
  BY TradesOfIs
<1>3. \A t \in FromPlatform(o) : t.taker = o
  BY DEF FromPlatform, PlatformTrade
<1>4. ASSUME NEW t \in AllTrades, o \in {t.maker, t.taker} PROVE t \in TradesWith(o) \union FromPlatform(o)
  <2>1. CASE t.maker = o
    BY <1>1, <1>4, <2>1 DEF TradesWith
  <2>2. CASE t.taker = o
    <3>1. t \in TradesOf(o)
      BY <1>1, <1>4, <2>2
    <3>. QED
      BY <1>2, <2>2, <3>1 DEF TradesWith
  <2>. QED
    BY <1>4, <2>1, <2>2
<1>5. ASSUME NEW t \in TradesWith(o) \union FromPlatform(o) PROVE t \in AllTrades /\ o \in {t.maker, t.taker}
  BY <1>1, <1>2, <1>3, <1>5 DEF TradesWith
<1>. QED
  BY <1>4, <1>5

\* A row that says FILLED.
LEMMA InvNotAhead == Inv => RowNeverAheadOfBook
<1>. SUFFICES ASSUME Inv, taker = NoOrder, NEW o \in Orders, dbStatus[o] = "FILLED"
              PROVE  Filled(o) = order[o].qty
  BY DEF RowNeverAheadOfBook
<1>1. BooksInv /\ ListInv /\ o \in Recorded /\ Result(o) = "FILLED"
  BY DEF Inv, TablesInv
<1>2. /\ StatusOK(o) /\ PlatformOK(o) /\ TypeOK /\ (Accepted(o) => QtySum(TradesWith(o)) = order[o].qty - rem[o])
      /\ rem[o] \in Nat /\ order[o].qty \in Int
  <2>1. rem[o] \in Nat
    BY <1>1 DEF BooksInv, ShelfInv, TypeOK
  <2>2. order[o].qty \in Int
    BY <1>1, WhoIs DEF OrderInput
  <2>. QED
    BY <1>1, <2>1, <2>2 DEF BooksInv, FillsInv, ShelfInv
<1>3. PICK T : T = {t \in AllTrades : o \in {t.maker, t.taker}}
  OBVIOUS
<1>4. Filled(o) = QtySum(T)
  BY <1>3, Zenon DEF Filled, QtySum
<1>5. CASE o \in direct
  <2>1. ~Accepted(o)
    BY <1>1, <1>5, RoutedOrder
  <2>2. \A t \in ToSet(trades) : t.maker # o /\ t.taker # o
    BY <1>1, <2>1, TradersAccepted
  <2>3. TradesOf(o) = {ContractTrade(o)} /\ order[o].qty \in Nat
    BY <1>1, <1>5, TradesOfIs
  <2>4. /\ \A t \in AllTrades : t \in TradesOf(t.taker) /\ (t.maker \in Orders => t \in ToSet(trades))
        /\ TradesOf(o) \subseteq AllTrades
    BY <1>1, AllTradesAre
  <2>5. PICK c : c = ContractTrade(o)
    OBVIOUS
  <2>6. c.taker = o /\ c.qty = order[o].qty
    BY <2>5 DEF ContractTrade
  <2>7. T = {c}
    BY <1>3, <2>2, <2>3, <2>4, <2>5, <2>6
  <2>8. QtySum({} \union {c}) = QtySum({}) + c.qty /\ QtySum({}) = 0
    <3>1. \A x \in {} \union {c} : x.qty \in Nat
      BY <2>3, <2>6
    <3>. QED
      BY <3>1, QtySumAdds, NoSums, FS_EmptySet
  <2>9. {} \union {c} = T
    BY <2>7
  <2>10. QtySum(T) = 0 + c.qty
    BY <2>8, <2>9
  <2>. QED
    BY <1>2, <1>4, <2>6, <2>10
<1>6. CASE o \notin direct
  <2>1. T = TradesWith(o) \union FromPlatform(o)
    BY <1>1, <1>3, <1>6, FilledIs
  <2>2. /\ IsFiniteSet(TradesWith(o)) /\ \A t \in TradesWith(o) : t.qty \in Nat /\ t.maker \in Orders
        /\ QtySum(TradesWith(o)) \in Nat
    <3>1. IsFiniteSet(TradesWith(o)) /\ \A t \in TradesWith(o) : t.qty \in Nat /\ t.maker \in Orders
      BY <1>2, BookTrade
    <3>. QED
      BY <3>1, QtySumCovers
  <2>3. CASE platformFilled[o] = 0
    <3>1. status[o] = "FILLED"
      BY <1>1, <2>3 DEF Result, ResultStatus
    <3>2. Accepted(o) /\ o # taker
      BY <1>2, <1>6, <3>1, NoOrderAssumption DEF StatusOK, Accepted
    <3>3. rem[o] = 0
      BY <1>2, <3>1, <3>2 DEF StatusOK
    <3>4. T = TradesWith(o)
      BY <2>1, <2>3 DEF FromPlatform
    <3>. QED
      BY <1>2, <1>4, <3>2, <3>3, <3>4
  <2>4. CASE platformFilled[o] # 0
    <3>1. PICK n : n = platformFilled[o]
      OBVIOUS
    <3>2. n \in Nat /\ n > 0 /\ Accepted(o) /\ n <= rem[o]
      BY <1>2, <2>4, <3>1 DEF PlatformOK
    <3>3. ~(n = 0) /\ rem[o] - n <= 0
      BY <1>1, <2>4, <3>1 DEF Result, ResultStatus
    <3>4. n = rem[o]
      BY <1>2, <3>2, <3>3
    <3>5. PICK c : c = PlatformTrade(o, n)
      OBVIOUS
    <3>6. FromPlatform(o) = {c} /\ c.qty = n /\ c.maker = Platform
      BY <3>1, <3>2, <3>5 DEF FromPlatform, PlatformTrade
    <3>7. c \notin TradesWith(o)
      BY <2>2, <3>6, PlatformAssumption
    <3>8. QtySum(TradesWith(o) \union {c}) = QtySum(TradesWith(o)) + c.qty
      <4>1. \A x \in TradesWith(o) \union {c} : x.qty \in Nat
        BY <2>2, <3>2, <3>6
      <4>. QED
        BY <2>2, <3>7, <4>1, QtySumAdds
    <3>9. QtySum(TradesWith(o)) = order[o].qty - rem[o]
      BY <1>2, <3>2
    <3>10. QtySum(T) = (order[o].qty - rem[o]) + n
      BY <2>1, <3>6, <3>8, <3>9
    <3>. QED
      BY <1>2, <1>4, <3>4, <3>10
  <2>. QED
    BY <2>3, <2>4
<1>. QED
  BY <1>5, <1>6

\* An order's row says FILLED only when all of its quantity has traded in the book, with
\* the platform or with the contract, though jobs run twice, beside each other or after a
\* restart that has emptied the book.
THEOREM NeverAhead == Spec => []RowNeverAheadOfBook
BY Invariance, InvNotAhead, PTL

\* A maker's fills are some of what it has traded.
LEMMA MakerTrades ==
    ASSUME BooksInv, ListInv, taker = NoOrder, NEW o \in Recorded, Made(o) # {}
    PROVE  /\ o \notin direct /\ Result(o) = status[o] /\ status[o] \in {"PARTIALLY_FILLED", "FILLED"}
           /\ order[o].qty \in Int /\ rem[o] \in Nat /\ (status[o] = "FILLED" <=> rem[o] = 0)
           /\ \A t \in Made(o) : t.qty \in Nat /\ t.qty > 0 /\ t.qty <= order[o].qty - rem[o]
           /\ \A t, u \in Made(o) : t # u => t.qty + u.qty <= order[o].qty - rem[o]
<1>1. o \in Orders /\ TypeOK
  BY DEF Recorded, BooksInv, ShelfInv
<1>2. PICK t \in ToSet(trades) : t.maker = o
  BY DEF Made
<1>3. PICK i \in DOMAIN trades : t = trades[i]
  BY <1>1, BookTrade
<1>4. /\ order[o].type = "LIMIT" /\ Accepted(o) /\ status[o] \in {"PARTIALLY_FILLED", "FILLED"}
  BY <1>2, <1>3 DEF BooksInv, FillsInv, TradeOK
<1>5. StatusOK(o) /\ PlatformOK(o) /\ QtySum(TradesWith(o)) = order[o].qty - rem[o]
  BY <1>1, <1>4 DEF BooksInv, FillsInv
<1>6. rem[o] \in Nat /\ order[o].qty \in Int /\ o # taker
  <2>1. rem[o] \in Nat
    BY <1>1 DEF TypeOK
  <2>. QED
    BY <1>1, <2>1, WhoIs, NoOrderAssumption DEF OrderInput
<1>7. (status[o] = "FILLED" <=> rem[o] = 0)
  BY <1>4, <1>5, <1>6 DEF StatusOK
<1>8. Result(o) = status[o]
  BY <1>4, <1>5 DEF PlatformOK, Result, ResultStatus
<1>9. o \notin direct
  BY <1>1, <1>4, RoutedOrder
<1>10. IsFiniteSet(TradesWith(o)) /\ \A u \in TradesWith(o) : u.qty \in Nat
  BY <1>1, BookTrade
<1>11. Made(o) \subseteq TradesWith(o)
  BY DEF Made, TradesWith
<1>12. ASSUME NEW u \in Made(o) PROVE u.qty > 0
  <2>1. u \in ToSet(trades)
    BY <1>12 DEF Made
  <2>2. PICK k \in DOMAIN trades : u = trades[k]
    BY <1>1, <2>1, BookTrade
  <2>. QED
    BY <2>2 DEF BooksInv, FillsInv, TradeOK
<1>13. \A u \in TradesWith(o) : u.qty <= order[o].qty - rem[o]
  BY <1>5, <1>10, QtySumCovers
<1>14. \A u, v \in TradesWith(o) : u # v => u.qty + v.qty <= order[o].qty - rem[o]
  BY <1>5, <1>10, QtySumCovers
<1>. QED
  BY <1>4, <1>6, <1>7, <1>8, <1>9, <1>10, <1>11, <1>12, <1>13, <1>14

\* What the Order rows say in the end.
LEMMA InvSettle == Inv => RowsSettle
<1>. SUFFICES ASSUME Inv, Quiet, faults = 0, NEW o \in Recorded
              PROVE  LET result == IF o \in direct THEN "FILLED" ELSE ResultStatus(o, platformFilled[o])
                     IN  dbStatus[o] = IF result = "FILLED" /\ FilledPiecemeal(o)
                                       THEN "PARTIALLY_FILLED" ELSE result
  BY DEF RowsSettle
<1>1. PICK x : x = Idle
  OBVIOUS
<1>2. Settled(x)
  BY <1>1, QuietIsSettled
<1>3. /\ RowsInv(x) /\ MakersLeft(x) = {} /\ dbTrades = AllTrades /\ x.at = "idle" /\ Queued = {}
      /\ BooksInv /\ ListInv /\ taker = NoOrder
  BY <1>2 DEF Settled, Exact, LeftAre
<1>4. o \in Orders /\ StatusOK(o) /\ RowOK(x, o)
  BY <1>3 DEF RowsInv, BooksInv, FillsInv, Recorded
<1>5. Made(o) = {t \in AllTrades : t.maker = o}
  <2>1. /\ ToSet(trades) \subseteq AllTrades
        /\ \A t \in AllTrades : t.maker \in Orders => t \in ToSet(trades)
    BY <1>3, AllTradesAre
  <2>. QED
    BY <1>4, <2>1 DEF Made
<1>6. Seen(x, o) = Made(o)
  BY <1>3, <1>5 DEF Seen
<1>7. FilledPiecemeal(o) <=> \E t \in Made(o) : t.qty < order[o].qty
  BY <1>5 DEF FilledPiecemeal
<1>8. PICK r : r = IF o \in direct THEN "FILLED" ELSE ResultStatus(o, platformFilled[o])
  OBVIOUS
<1>9. r = Result(o)
  <2>1. CASE o \in direct
    <3>1. platformFilled[o] = 0 /\ status[o] = "FILLED"
      BY <1>3, <1>4, <2>1, RoutedOrder
    <3>. QED
      BY <1>8, <2>1, <3>1 DEF Result, ResultStatus
  <2>2. CASE o \notin direct
    BY <1>8, <2>2 DEF Result
  <2>. QED
    BY <2>1, <2>2
<1>10. dbStatus[o] = IF r = "FILLED" /\ FilledPiecemeal(o) THEN "PARTIALLY_FILLED" ELSE r
  <2>1. CASE Made(o) = {}
    BY <1>4, <1>6, <1>7, <1>9, <2>1 DEF RowOK
  <2>2. CASE Made(o) # {}
    <3>1. /\ r = status[o] /\ status[o] \in {"PARTIALLY_FILLED", "FILLED"}
          /\ order[o].qty \in Int /\ rem[o] \in Nat /\ (status[o] = "FILLED" <=> rem[o] = 0)
          /\ \A t \in Made(o) : t.qty \in Nat /\ t.qty > 0 /\ t.qty <= order[o].qty - rem[o]
          /\ \A t, u \in Made(o) : t # u => t.qty + u.qty <= order[o].qty - rem[o]
      BY <1>3, <1>9, <2>2, MakerTrades
    <3>2. dbStatus[o] = IF \E t \in Made(o) : t.qty >= order[o].qty THEN "FILLED" ELSE "PARTIALLY_FILLED"
      BY <1>4, <1>6, <2>2 DEF RowOK
    <3>3. CASE \E t \in Made(o) : t.qty >= order[o].qty
      <4>1. PICK t \in Made(o) : t.qty >= order[o].qty
        BY <3>3
      <4>2. rem[o] = 0
        BY <3>1, <4>1
      <4>3. ASSUME NEW u \in Made(o), u.qty < order[o].qty PROVE FALSE
        <5>1. t # u
          BY <3>1, <4>1, <4>3
        <5>2. t.qty + u.qty <= order[o].qty - rem[o] /\ u.qty > 0 /\ u.qty \in Nat /\ t.qty \in Nat
          BY <3>1, <4>1, <4>3, <5>1
        <5>. QED
          BY <3>1, <4>1, <4>2, <5>2
      <4>. QED
        BY <1>7, <3>1, <3>2, <3>3, <4>2, <4>3
    <3>4. CASE ~ \E t \in Made(o) : t.qty >= order[o].qty
      <4>1. PICK t \in Made(o) : TRUE
        BY <2>2
      <4>2. t.qty < order[o].qty
        BY <3>1, <3>4, <4>1
      <4>3. FilledPiecemeal(o)
        BY <1>7, <4>1, <4>2
      <4>. QED
        BY <3>1, <3>2, <3>4, <4>3
    <3>. QED
      BY <3>3, <3>4
  <2>. QED
    BY <2>1, <2>2
<1>. QED
  BY <1>8, <1>10

\* While nothing fails, once the worker has caught up an order's row has the status that
\* the book, the platform or the contract gave the order, and PARTIALLY_FILLED only
\* when its fills as a maker came piecemeal: updateMakerOrderStatuses' reads and writes
\* and the jobs of its takers come in an order that loses none of it.
THEOREM RowsSettleInTheEnd == Spec => []RowsSettle
BY Invariance, InvSettle, PTL
============================================================================
