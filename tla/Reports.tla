------------------------------ MODULE Reports ------------------------------
(***************************************************************************)
(* Answers that are put together from several statements of one READ       *)
(* COMMITTED transaction: GET /orders/{id} (order, item, movements) and    *)
(* GET /analytics/summary (stock, order counts, revenue, refunds,          *)
(* movements).  Writers commit between the statements.  And lists that go  *)
(* out of date while they are looked at: GET /orders and                   *)
(* GET /stock/{item_id}/movements.                                         *)
(*                                                                         *)
(* A reader writes nothing, so one is enough.  Values are counted in       *)
(* units, since no operation changes a price.  Order and movement figures  *)
(* are those of the last days, and each method of AnalyticsService reads   *)
(* the clock for itself.                                                   *)
(***************************************************************************)
EXTENDS Timestamps

CONSTANTS NothingRead,
          PageLimit,     \* movements to a page
          Days           \* length of the reporting window
ASSUME PageAssumption   == PageLimit \in Nat \ {0}
ASSUME WindowAssumption == Days \in Nat \ {0}

VARIABLES
    at,              \* the next statement of the reader, or idle, or shown
    page             \* what its statements have returned

reportvars == <<vars, timevars, at, page>>

ReportsInit == Init /\ TimesInit /\ at = "idle" /\ page = NothingRead

With(status)       == {o \in Orders : orders[o].status = status}
ValueOf(S)         == SumFunctionOnSet(quantity, S)
Statement(from, to) == at = from /\ at' = to /\ UNCHANGED <<vars, timevars>>

-----------------------------------------------------------------------------
(* GET /orders/{id}: OrderService.get_order_detail.                        *)

\* A missing order is a 404 and nothing more is read.
ReadOrderRow(o) ==
    /\ orders[o] # AbsentRow
    /\ Statement("idle", "detail movements")
    /\ page' = [order |-> o, row |-> orders[o], deductions |-> 0, restorations |-> 0]

\* The item, read in between, has a constant name and price.
ReadMovements ==
    /\ Statement("detail movements", "detail shown")
    /\ page' = [page EXCEPT !.deductions = Moves(page.order, "DEDUCTION"),
                            !.restorations = Moves(page.order, "RESTORATION")]

-----------------------------------------------------------------------------
(* GET /analytics/summary: the statements of AnalyticsService in order.    *)

\* The versions are no part of the answer: they tell whether stock has moved since.
ItemVersions == [i \in Items |-> menu_items[i].version]
TotalUnits   == SumFunction([i \in Items |-> menu_items[i].stock_quantity])

\* created_at >= since, of orders and of the lines of a trail.
Recent(S)      == {o \in S : placed_at[o] >= page.since}
RecentLines(i) == {k \in 1..Len(stock_movements[i]) : moved_at[i][k] >= page.since}

ReadStock ==
    /\ Statement("idle", "order clock")
    /\ page' = [versions |-> ItemVersions, total_units |-> TotalUnits, since |-> 0,
                holding |-> {}, delivered |-> 0, cancelled |-> 0, revenue |-> 0,
                refund |-> 0, deductions |-> 0, net |-> 0]

\* datetime.now(UTC) - timedelta(days): one reading for the three order statements.
ReadOrderClock ==
    /\ Statement("order clock", "counts")
    /\ page' = [page EXCEPT !.since = now - Days]

\* Of the orders holding stock, which the answer has as numbers, the page knows which.
ReadCounts ==
    /\ Statement("counts", "revenue")
    /\ page' = [page EXCEPT !.holding = Recent({o \in Orders : Holding(o)}),
                            !.delivered = Cardinality(Recent(With("DELIVERED"))),
                            !.cancelled = Cardinality(Recent(With("CANCELLED")))]

ReadRevenue ==
    /\ Statement("revenue", "refund")
    /\ page' = [page EXCEPT !.revenue = ValueOf(Recent(With("DELIVERED")))]

Refunded == Recent(With("CANCELLED"))

ReadRefund ==
    /\ Statement("refund", "movement clock")
    /\ page' = [page EXCEPT !.refund = ValueOf(Refunded)]

\* A second reading, for the movements.
ReadMovementClock ==
    /\ Statement("movement clock", "movements")
    /\ page' = [page EXCEPT !.since = now - Days]

Deductions == SumFunction([o \in Orders |->
                  Cardinality(MovesOf(o, "DEDUCTION") \cap RecentLines(item_id[o]))])
NetChange  == SumFunction([i \in Items |-> SumFunctionOnSet(DeltasOf(i), RecentLines(i))])

ReadNet ==
    /\ Statement("movements", "summary shown")
    /\ page' = [page EXCEPT !.net = NetChange, !.deductions = Deductions]

-----------------------------------------------------------------------------
(* GET /orders?status= and GET /stock/{item_id}/movements.                 *)

ListOrders(status) ==
    /\ Statement("idle", "orders listed")
    /\ page' = [status |-> status, orders |-> With(status)]

\* Newer by created_at; flushes of one row are never in the same microsecond, so ticks
\* that the bounded clock does not separate are in the order of the trail.
Newer(i, k, l) == moved_at[i][k] > moved_at[i][l] \/ (moved_at[i][k] = moved_at[i][l] /\ k > l)

\* order_by(created_at.desc()).limit(..)
Newest(i, limit) ==
    LET log == stock_movements[i]
        Line(n) == CHOOSE k \in 1..Len(log) :
                       Cardinality({l \in 1..Len(log) : Newer(i, l, k)}) = n - 1
    IN  [n \in 1..Min({limit, Len(log)}) |-> log[Line(n)]]

ListMovements(i) ==
    /\ Statement("idle", "movements listed")
    /\ page' = [item |-> i, lines |-> Newest(i, PageLimit)]

Close ==
    /\ at \in {"detail shown", "summary shown", "orders listed", "movements listed"}
    /\ at' = "idle" /\ page' = NothingRead
    /\ UNCHANGED <<vars, timevars>>

-----------------------------------------------------------------------------
Report == \/ \E o \in Orders : ReadOrderRow(o)
          \/ ReadMovements
          \/ ReadStock \/ ReadOrderClock \/ ReadCounts \/ ReadRevenue \/ ReadRefund
          \/ ReadMovementClock \/ ReadNet
          \/ \E status \in OrderStatuses : ListOrders(status)
          \/ \E i \in Items : ListMovements(i)
          \/ Close

Proceed == (Serve \/ Tick) /\ UNCHANGED <<at, page>>

ReportsSpec == ReportsInit /\ [][Proceed \/ Report]_reportvars

-----------------------------------------------------------------------------
(* Properties.                                                             *)

\* The trail of an order detail is never behind its status: an order shown as
\* holding stock is shown with its deduction.
DetailShowsDeduction ==
    at = "detail shown" /\ page.row.status \in StockHoldingStates => page.deductions > 0

\* get_order_detail: a PENDING order with movements is shown only if the order moved on between the
\* statements, however many requests for it were lost, failed or died.
TornOnlyByRace ==
    [][ReadMovements /\ page.row.status = "PENDING"
           /\ page'.deductions + page'.restorations > 0
           => orders[page.order].version > page.row.version]_reportvars

\* Terminal orders stay: what revenue and refunds sum up includes every order that
\* the status counts of the same answer have counted as delivered or cancelled.
TotalsCoverCounts ==
    at = "summary shown" => page.revenue >= page.delivered /\ page.refund >= page.cancelled

\* Every order that the counts of a summary show confirmed, shipped or delivered is among
\* its total_deductions, which are read three statements later; but for the orders at the
\* edge, placed before the bound of the movements, which is computed later than theirs.
DeductionsCoverCounts ==
    [][ReadNet => page'.deductions >= Cardinality(Recent(page.holding))]_reportvars

\* A list of orders in a terminal status never goes out of date: list_orders may
\* miss orders that end later, but none leaves the list.
TerminalListStands ==
    at = "orders listed" /\ page.status \in TerminalStates =>
        page.orders \subseteq With(page.status)

\* A page of movements accounts for the stock without a gap: its first line is what the
\* item has, each line continues the one below it, and a page that is not full reaches
\* down to the opening.  It is sorted by a time taken before the commit.
PageIsGapless ==
    [][\A i \in Items : ListMovements(i) =>
           LET lines == page'.lines IN
           /\ lines[1].stock_after = menu_items[i].stock_quantity
           /\ \A k \in 1..Len(lines) - 1 : lines[k].stock_before = lines[k + 1].stock_after
           /\ Len(lines) < PageLimit => lines[Len(lines)].stock_before = 0]_reportvars

\* What item i had in stock when the window of the movements began.
StockAtEdge(i) ==
    LET older == (1..Len(stock_movements[i])) \ RecentLines(i)
    IN  IF older = {} THEN 0 ELSE stock_movements[i][Max(older)].stock_after

\* If no stock moves between the first statement and the last, net_stock_change is what
\* total_units have changed by since the window began: beside writers, at any clock.
DashboardAgrees ==
    [][ReadNet /\ page.versions = ItemVersions =>
           page.total_units = SumFunction([i \in Items |-> StockAtEdge(i)]) + page'.net]_reportvars

\* refund_value sums the cancelled orders "that had stock deducted".
RefundsOnlyDeducted ==
    [][ReadRefund => page'.refund = ValueOf({o \in Refunded : Moves(o, "DEDUCTION") > 0})]_reportvars
=============================================================================
