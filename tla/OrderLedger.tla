---------------------------- MODULE OrderLedger ----------------------------
(***************************************************************************)
(* The order ledger of one strategy: the rows of table "orders", the       *)
(* strategy's realized_pnl and total_capital, and the events that keep     *)
(* them in step with the exchange.                                         *)
(*                                                                         *)
(* Three writers touch a row: ExecutionService creates it AFTER the        *)
(* exchange accepted the order, StreamService.handle_order_trade_update    *)
(* overwrites it for every ORDER_TRADE_UPDATE of the user stream, and      *)
(* zombie_guardian.detect_orphan_db_orders repairs it over REST.  Only the *)
(* stream books units into the strategy.                                   *)
(*                                                                         *)
(* An order's purpose is "EXIT", or "ADD": an ENTRY placed as a LIMIT with *)
(* no stage number, which raises total_capital as it fills.                *)
(***************************************************************************)
EXTENDS Integers, Sequences, FiniteSets, Functions

CONSTANTS
    Orders,         \* client order ids
    Purpose,        \* [Orders -> {"EXIT", "ADD"}]
    OrderQty,       \* orig_qty of every order
    Prices,         \* prices a trade can execute at
    Entry,          \* the strategy's avg_entry_price
    Sign,           \* 1 for a LONG strategy, -1 for a SHORT one
    Fee,            \* commission of one trade, in USDT
    Scale,          \* amounts are counted in units of 1/Scale
    ProbeBudget,    \* get_order calls of one repair pass (20 in the code)
    MaxLost,        \* bound: events the stream loses
    MaxRepeated,    \* bound: events the stream delivers again
    WithRepair,     \* whether the reconcile worker's orphan repair runs
    RepeatOld       \* TRUE: any past event may return; FALSE: the last one

ASSUME OrderAssumption ==
    /\ IsFiniteSet(Orders)
    /\ Purpose \in [Orders -> {"EXIT", "ADD"}]
    /\ OrderQty \in Nat \ {0}

ASSUME MoneyAssumption ==
    /\ Prices \subseteq Nat \ {0}
    /\ Entry \in Nat \ {0}
    /\ Sign \in {1, -1}
    /\ Fee \in Nat
    /\ Scale \in Nat \ {0}
    /\ \A q \in 1 .. OrderQty : Scale % q = 0

ASSUME BoundAssumption ==
    /\ {ProbeBudget, MaxLost, MaxRepeated} \subseteq Nat
    /\ {WithRepair, RepeatOld} \subseteq BOOLEAN

FillStatus  == {"PARTIALLY_FILLED", "FILLED"}
OpenStatus  == {"NEW", "PARTIALLY_FILLED"}
FinalStatus == {"FILLED", "CANCELED"}
Status      == OpenStatus \cup FinalStatus
NoOrder     == "NONE"           \* not placed yet, or no row yet

(***************************************************************************)
(* What is known of an order: its status, the cumulative executed quantity *)
(* ("z") and the cumulative notional.  The exchange reports the average    *)
(* price notional / z ("ap"), never the notional itself.                   *)
(***************************************************************************)
Fills == [status : Status \cup {NoOrder}, z : Nat, notional : Nat]
Event == [order : Orders, status : Status, z : Nat, notional : Nat]

VARIABLES
    exch,           \* external: the orders as the exchange has them
    trades,         \* external: number of trades of each order
    prices,         \* external: the prices each order was traded at
    stream,         \* external: events on their way to the consumer
    past,           \* external: delivered events that may come again
    row,            \* table orders: status, executed_qty, avg_price
    booked,         \* units of each order the stream has booked so far
    realized,       \* strategy.realized_pnl, in units of 1/Scale
    capital,        \* strategy.total_capital * leverage, in 1/Scale
    missed,         \* orders of which a fill event was never booked
    lost, repeated  \* counters for the bounds

world  == <<exch, trades, prices>>
money  == <<booked, realized, capital>>
bounds == <<lost, repeated>>
vars   == <<world, stream, past, row, money, missed, bounds>>

Nothing == [status |-> NoOrder, z |-> 0, notional |-> 0]

Init ==
    /\ exch = [o \in Orders |-> Nothing]
    /\ row = [o \in Orders |-> Nothing]
    /\ trades = [o \in Orders |-> 0]
    /\ prices = [o \in Orders |-> {}]
    /\ booked = [o \in Orders |-> 0]
    /\ stream = <<>> /\ past = <<>>
    /\ realized = 0 /\ capital = 0
    /\ missed = {}
    /\ lost = 0 /\ repeated = 0

EventOf(o, x) ==
    [order |-> o, status |-> x.status, z |-> x.z, notional |-> x.notional]

(* The exchange moves order o to state x and reports it on the stream. *)
Report(o, x) ==
    /\ exch' = [exch EXCEPT ![o] = x]
    /\ stream' = Append(stream, EventOf(o, x))
    /\ UNCHANGED <<past, row, money, missed, bounds>>

(***************************************************************************)
(* The exchange (external).                                                *)
(***************************************************************************)
Accept(o) ==
    /\ exch[o].status = NoOrder
    /\ Report(o, [exch[o] EXCEPT !.status = "NEW"])
    /\ UNCHANGED <<trades, prices>>

Trade(o, q, p) ==
    LET z == exch[o].z + q
    IN  /\ exch[o].status \in OpenStatus
        /\ z <= OrderQty
        /\ Report(o, [status   |-> IF z = OrderQty THEN "FILLED"
                                   ELSE "PARTIALLY_FILLED",
                      z        |-> z,
                      notional |-> exch[o].notional + q * p])
        /\ trades' = [trades EXCEPT ![o] = @ + 1]
        /\ prices' = [prices EXCEPT ![o] = @ \cup {p}]

Cancel(o) ==
    /\ exch[o].status \in OpenStatus
    /\ Report(o, [exch[o] EXCEPT !.status = "CANCELED"])
    /\ UNCHANGED <<trades, prices>>

(***************************************************************************)
(* place_order has returned; the row is created and committed.  The answer *)
(* is the exchange's ACK, so the row starts as NEW with nothing executed.  *)
(***************************************************************************)
CreateRow(o) ==
    /\ exch[o].status # NoOrder
    /\ row[o].status = NoOrder
    /\ row' = [row EXCEPT ![o].status = "NEW"]
    /\ UNCHANGED <<world, stream, past, money, missed, bounds>>

(***************************************************************************)
(* handle_order_trade_update.                                              *)
(***************************************************************************)

\* Average price of a non-empty execution, in units of 1/Scale.
Avg(e) == e.notional * (Scale \div e.z)

\* Profit booked for delta units at the event's average price, net of the
\* event's own commission.
ExitProfit(e, delta) == delta * Sign * (Avg(e) - Entry * Scale) - Fee * Scale

\* Bug variant (#92): the cumulative quantity taken for the new one.
DeltaCumulative(e) == e.z

Delta(e) == e.z - row[e.order].z

\* Bug variants: a partial fill is not booked; a repeated or a late event is.
BooksOnlyFilled(e) == Delta(e) > 0 /\ e.status = "FILLED"
BooksRepeats(e) == Delta(e) >= 0 /\ e.status \in FillStatus

\* An EXIT books on the two fill statuses only; an ADD books any new unit.
Books(e) ==
    /\ Delta(e) > 0
    /\ Purpose[e.order] = "EXIT" => e.status \in FillStatus

RealizedBy(e) ==
    CASE Books(e) /\ Purpose[e.order] = "EXIT" -> ExitProfit(e, Delta(e))
      [] Books(e) /\ Purpose[e.order] = "ADD" /\ e.status = "FILLED"
            -> - Fee * Scale
      [] OTHER -> 0

\* Bug variant: every event adds the whole execution so far.
CapitalCumulative(e) ==
    IF Books(e) /\ Purpose[e.order] = "ADD" THEN e.z * Avg(e) ELSE 0

CapitalBy(e) ==
    IF Books(e) /\ Purpose[e.order] = "ADD" THEN Delta(e) * Avg(e) ELSE 0

(* No row has this client_order_id: the event is logged and dropped. *)
DropUnmatched(e) ==
    /\ row[e.order].status = NoOrder
    /\ missed' = IF e.status \in FillStatus THEN missed \cup {e.order}
                 ELSE missed
    /\ UNCHANGED <<row, money>>

(* The row takes the event's status, z and average, whatever they are. *)
ApplyEvent(e) ==
    /\ row[e.order].status # NoOrder
    /\ row' = [row EXCEPT ![e.order] = [status   |-> e.status,
                                        z        |-> e.z,
                                        notional |-> e.notional]]
    /\ booked' = [booked EXCEPT ![e.order] =
                     @ + (IF Books(e) THEN Delta(e) ELSE 0)]
    /\ realized' = realized + RealizedBy(e)
    /\ capital' = capital + CapitalBy(e)
    /\ UNCHANGED missed

Deliver ==
    /\ stream # <<>>
    /\ DropUnmatched(Head(stream)) \/ ApplyEvent(Head(stream))
    /\ stream' = Tail(stream)
    /\ past' = IF RepeatOld THEN Append(past, Head(stream))
               ELSE <<Head(stream)>>
    /\ UNCHANGED <<world, bounds>>

(***************************************************************************)
(* The transport: an event is lost while the consumer reconnects or when   *)
(* its handler raises (the consumer logs and goes on), or comes again.     *)
(***************************************************************************)
Lose ==
    /\ stream # <<>>
    /\ lost < MaxLost
    /\ lost' = lost + 1
    /\ stream' = Tail(stream)
    /\ missed' = IF Head(stream).status \in FillStatus
                 THEN missed \cup {Head(stream).order} ELSE missed
    /\ UNCHANGED <<world, past, row, money, repeated>>

Repeat(i) ==
    /\ repeated < MaxRepeated
    /\ repeated' = repeated + 1
    /\ stream' = <<past[i]>> \o stream
    /\ UNCHANGED <<world, past, row, money, missed, lost>>

(***************************************************************************)
(* detect_orphan_db_orders: rows still NEW or PARTIALLY_FILLED that are    *)
(* not among the exchange's open orders.  "old" are those past the minimum *)
(* age; the first ProbeBudget of them are looked up with get_order, a      *)
(* failed look-up leaves the row alone, and a row beyond the budget is     *)
(* marked CANCELED without being looked up.                                *)
(***************************************************************************)
\* Bug variant: partially filled rows are never looked at.
StaleNew == {o \in Orders : /\ row[o].status = "NEW"
                            /\ exch[o].status \in FinalStatus}

Stale == {o \in Orders : /\ row[o].status \in OpenStatus
                         /\ exch[o].status \in FinalStatus}

\* Bug variant (before Fix 272): not open means cancelled.
RepairedUnasked(o, probed) == [row[o] EXCEPT !.status = "CANCELED"]

Repaired(o, probed) ==
    IF o \in probed /\ exch[o].status = "FILLED"
    THEN exch[o]
    ELSE [row[o] EXCEPT !.status = "CANCELED"]

RepairOrphanDbOrders(old, probed, answered) ==
    /\ WithRepair
    /\ Cardinality(probed) = IF Cardinality(old) < ProbeBudget
                             THEN Cardinality(old) ELSE ProbeBudget
    /\ row' = [o \in Orders |->
                  IF o \in old /\ (o \in probed => o \in answered)
                  THEN Repaired(o, probed) ELSE row[o]]
    /\ UNCHANGED <<world, stream, past, money, missed, bounds>>

Repair == \E old \in SUBSET Stale :
             \E probed \in SUBSET old :
                \E answered \in SUBSET probed :
                   RepairOrphanDbOrders(old, probed, answered)

Next ==
    \/ \E o \in Orders : \/ Accept(o) \/ Cancel(o) \/ CreateRow(o)
                         \/ \E q \in 1 .. OrderQty, p \in Prices : Trade(o, q, p)
    \/ Deliver
    \/ Lose
    \/ \E i \in 1 .. Len(past) : Repeat(i)
    \/ Repair

Spec == Init /\ [][Next]_vars

(***************************************************************************)
(* The consumer keeps reading, and the reconcile job, scheduled every two  *)
(* minutes, keeps looking rows up until it gets an answer for each.        *)
(***************************************************************************)
Lookup(o) == \E old \in SUBSET Stale :
                \E probed \in SUBSET old :
                   \E answered \in SUBSET probed :
                      /\ o \in answered
                      /\ RepairOrphanDbOrders(old, probed, answered)

Fairness == WF_vars(Deliver) /\ \A o \in Orders : WF_vars(Lookup(o))

FairSpec == Spec /\ Fairness
-----------------------------------------------------------------------------
(* Every variable has its type; a fill has a quantity, and at most OrderQty. *)
TypeOK ==
    /\ exch \in [Orders -> Fills]
    /\ row \in [Orders -> Fills]
    /\ trades \in [Orders -> Nat]
    /\ prices \in [Orders -> SUBSET Prices]
    /\ stream \in Seq(Event)
    /\ past \in Seq(Event)
    /\ booked \in [Orders -> Nat]
    /\ realized \in Int
    /\ capital \in Int
    /\ missed \in SUBSET Orders
    /\ lost \in Nat /\ repeated \in Nat

(***************************************************************************)
(* What the ledger promises, whatever is lost, repaired or comes again     *)
(* next to itself: see FillLedger.  No unit of a trade is booked twice and *)
(* nothing booked is taken back (handle_order_trade_update's delta).       *)
(***************************************************************************)
Filled == [o \in Orders |-> exch[o].z]
AtMostOnce == INSTANCE FillLedger WITH filled <- Filled
BooksAtMostOnce == AtMostOnce!Spec

(* No order has more units booked than the exchange executed: the state    *)
(* form of the same promise of handle_order_trade_update.                  *)
NeverBookedTwice == \A o \in Orders : booked[o] <= exch[o].z

(***************************************************************************)
(* A fill event makes up for the lost ones before it: a row whose last     *)
(* event was a fill has every executed unit booked.  A row that ended      *)
(* CANCELED has not (an EXIT books on the fill statuses only), nor has one *)
(* that the orphan repair completed, so this is for runs without repairs.  *)
(***************************************************************************)
CatchesUp == \A o \in Orders :
                row[o].status \in FillStatus => booked[o] = row[o].z

(***************************************************************************)
(* Why nothing is booked twice, for a stream that repeats only its last    *)
(* event: what is still to come of an order, and what may come again, is   *)
(* in order and never behind what is booked.                               *)
(***************************************************************************)
StreamInOrder ==
    /\ \A i \in 1 .. Len(stream) :
          /\ stream[i].z <= exch[stream[i].order].z
          /\ booked[stream[i].order] <= stream[i].z
    /\ \A i, j \in 1 .. Len(stream) :
          i < j /\ stream[i].order = stream[j].order
             => stream[i].z <= stream[j].z

PastInOrder ==
    /\ Len(past) <= 1
    /\ \A i \in 1 .. Len(past) :
          /\ past[i].z <= exch[past[i].order].z
          /\ booked[past[i].order] <= past[i].z
          /\ \A j \in 1 .. Len(stream) :
                past[i].order = stream[j].order => past[i].z <= stream[j].z

RowsInOrder == \A o \in Orders : booked[o] <= row[o].z /\ row[o].z <= exch[o].z

InOrder == StreamInOrder /\ PastInOrder /\ RowsInOrder

LedgerInv == TypeOK /\ InOrder

Exits == {o \in Orders : Purpose[o] = "EXIT"}
Adds  == Orders \ Exits

Drained == stream = <<>> /\ missed = {} /\ ~WithRepair

(* What the exits of such fills have earned, before commissions, and the   *)
(* notional of the additions.                                              *)
Profit(fills)   == [o \in Exits |-> Sign * (fills[o].notional - fills[o].z * Entry)]
Notional(fills) == [o \in Adds |-> fills[o].notional]

(* What the strategy has earned on the exchange: profit of the exits less  *)
(* the commission of every trade.                                          *)
NetOfTrades ==
    Scale * (SumFunction(Profit(exch)) - SumFunction([o \in Orders |-> Fee * trades[o]]))

OnePrice(o)  == \A p, q \in prices[o] : p = q
OneTradeAdds == \A o \in Adds : trades[o] = (IF exch[o].status = "FILLED" THEN 1 ELSE 0)

(***************************************************************************)
(* With all events in and none missed, realized_pnl is what was earned on  *)
(* the exchange, if every exit was filled at one price: the code prices a  *)
(* new part at the average of the whole order.  Entries of more than one   *)
(* trade are left out: only their last commission is deducted.             *)
(***************************************************************************)
ProfitIsExact ==
    Drained /\ OneTradeAdds /\ (\A o \in Exits : OnePrice(o)) => realized = NetOfTrades

(* With all events in and none missed, total_capital has grown by the      *)
(* margin of the executed part of the LIMIT additions (Fix 396), each      *)
(* filled at one price.                                                    *)
CapitalIsExact ==
    Drained /\ (\A o \in Adds : OnePrice(o)) => capital = Scale * SumFunction(Notional(exch))

(* A repair marks a row CANCELED only if the exchange cancelled the order  *)
(* (Fix 272: "not in openOrders" is not "cancelled").                      *)
CanceledIsReal == \A o \in Orders :
                     row[o].status = "CANCELED" => exch[o].status = "CANCELED"

(* A row of an order that ended on the exchange ends up with that final    *)
(* status for good, though its events are lost, late or repeated: the      *)
(* stream and the orphan repair together never leave it open.              *)
RowsSettle == \A o \in Orders :
    row[o].status # NoOrder /\ exch[o].status \in FinalStatus
        ~> [](row[o].status = exch[o].status)
=============================================================================
