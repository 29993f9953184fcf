--------------------------- MODULE ShopOrderHistory ---------------------------
(***************************************************************************)
(* What the shop promises about orders.  Two history variables say which   *)
(* orders had an undisturbed life, so that the promises can be stated for  *)
(* each order on its own, whatever happens to the others:                  *)
(*   - contended: two requests for the order overlapped at some time;      *)
(*   - interrupted: a request for the order died half way.                 *)
(* Neither restricts the behaviour of module ShopOrder.                    *)
(***************************************************************************)
EXTENDS ShopOrder

VARIABLES contended, interrupted

historyVars == <<contended, interrupted>>

InFlight(o) == \E w \in Workers : req[w].order = o

HistoryInit == Init /\ contended = {} /\ interrupted = {}

HistoryNext ==
  /\ \/ (\E w \in Workers : Serve(w)) /\ UNCHANGED interrupted
     \/ \E w \in Workers :
          Crash(w) /\ interrupted' = interrupted \cup {req[w].order}
  /\ contended' = contended \cup
       {o \in Orders : \E v, w \in Workers :
                          v # w /\ req'[v].order = o /\ req'[w].order = o}

HistorySpec == HistoryInit /\ [][HistoryNext]_<<vars, historyVars>>

\* A thread that serves a request keeps running until the request is over.
HistoryFairSpec ==
  HistorySpec /\ \A w \in Workers :
                   WF_<<vars, historyVars>>(HistoryNext /\ Continue(w))

\* Requests for one order come one after the other; those for different
\* orders overlap freely.
IsolatedSpec ==
  HistoryInit /\ [][HistoryNext /\ contended' = {}]_<<vars, historyVars>>

Lifecycle == INSTANCE OrderLifecycle WITH state <- paymentState,
                                          lines <- lineItems

-----------------------------------------------------------------------------
(* State formulae *)

Holding == {o \in Orders : paymentState[o] \in {"open", "paid"}}
HeldUnits(p) == UNION {{o} \X (1..lineItems[o][p]) : o \in Holding}
Reserved(p) == Cardinality(HeldUnits(p))
IssuedFor(o, p) == {i.id : i \in {j \in issued : j.order = o /\ j.product = p}}

-----------------------------------------------------------------------------
(* Whatever requests overlap, and wherever they stop *)

\* No two orders carry the same number, and every number in use, stored or
\* still held by a worker, was drawn from the sequence (generate_order_number
\* and the unique column shop_orders.order_number).
OrderNumbersUnique ==
  /\ \A o1, o2 \in Placed : orderNumber[o1] = orderNumber[o2] => o1 = o2
  /\ \A o \in Placed : orderNumber[o] \in 1..sequence
  /\ \A w \in Workers : pc[w] = "persist" =>
       /\ req[w].number \in 1..sequence
       /\ \A o \in Placed : orderNumber[o] # req[w].number

\* Stock never leaks away: what is in stock and what open and paid orders hold
\* together is at least what was put on sale (place_order and cancel_order
\* change the state and the stock in one transaction each).
NoStockLost ==
  \A p \in Products : stock[p] + Reserved(p) >= InitialStock[p]

\* Every fulfilment of a line item is backed by a committed payment of its
\* own: an order never has more tickets or bundles than its payments bought.
IssuedPerPayment ==
  \A o \in Orders, p \in Products :
     Cardinality(IssuedFor(o, p)) <= lineItems[o][p] * payments[o]

\* Only tickets and bundles that were created for the order's own line item
\* are recorded for it, and only such are ever revoked.
RecordedAreIssued ==
  /\ \A o \in Orders, p \in Products :
        processingResult[o][p] \subseteq IssuedFor(o, p)
  /\ revoked \subseteq UsedIds

\* A placed order never becomes open again, and neither its number nor its
\* line items ever change, whichever requests overlap.
NeverReopened ==
  [][\A o \in Placed : /\ paymentState'[o] = "open" => paymentState[o] = "open"
                       /\ paymentState'[o] # "none"
                       /\ lineItems'[o] = lineItems[o]
                       /\ orderNumber'[o] = orderNumber[o]]_vars

-----------------------------------------------------------------------------
(* As long as no two requests for the same order overlap *)

\* The stock is exact: quantities of canceled orders are available again, once.
StockExact ==
  contended = {} =>
    \A p \in Products : stock[p] + Reserved(p) = InitialStock[p]

\* A canceled order keeps its payment state for good.
CanceledIsFinal ==
  [][\A o \in Orders \ contended' :
        paymentState[o] \in Canceled => paymentState'[o] = paymentState[o]]_vars

\* Tickets and bundles exist only for orders that are or were paid, never more
\* than were ordered, and they belong to the order's orderer.
OnlyOrdered ==
  \A o \in Orders \ contended :
     /\ \A p \in Products : Cardinality(IssuedFor(o, p)) <= lineItems[o][p]
     /\ \A i \in issued : i.order = o =>
          /\ paymentState[o] \in {"paid", "canceled_after_paid"}
          /\ i.owner = placedBy[o]

\* No item of a paid order is revoked.
PaidItemsAreValid ==
  \A i \in issued : i.order \notin contended /\ paymentState[i.order] = "paid"
                      => i.id \notin revoked

\* What is issued, recorded and revoked for an order is what was ordered.
IssuedAsOrdered == RecordedAreIssued /\ OnlyOrdered /\ PaidItemsAreValid

\* An order with no request under way, none of whose requests overlapped or
\* died, is settled: a paid order has all its tickets, recorded with the line
\* items; an order canceled after payment has none that is still valid; and it
\* has a payment exactly if it is or was paid.
Settled ==
  \A o \in Placed \ (contended \cup interrupted) : ~InFlight(o) =>
     /\ paymentState[o] \in {"paid", "canceled_after_paid"} =>
          /\ payments[o] >= 1
          /\ \A p \in Actionable(o) :
               /\ processingResult[o][p] = IssuedFor(o, p)
               /\ Cardinality(IssuedFor(o, p)) = lineItems[o][p]
     /\ paymentState[o] = "canceled_after_paid" =>
          \A p \in Products : IssuedFor(o, p) \subseteq revoked
     /\ paymentState[o] \in {"open", "canceled_before_paid"} => payments[o] = 0

\* Refinement: the payment states, line items and the stock evolve as module
\* OrderLifecycle says, although every request takes several transactions.
ImplementsLifecycle == Lifecycle!Spec

-----------------------------------------------------------------------------
(* Progress, as long as no request dies *)

\* A paid order gets what was ordered, whichever requests overlap, unless it
\* is canceled first.
PaidIsFulfilled ==
  \A o \in Orders :
    paymentState[o] = "paid" ~>
      \/ paymentState[o] # "paid"
      \/ \A p \in Actionable(o) : processingResult[o][p] # {}

-----------------------------------------------------------------------------
(* What the repository says of the shop, without regard to overlapping     *)
(* requests and failures.  These do not hold of the code.                  *)

\* cancel_order: "Reserved quantities of products from that order are made
\* available again" - those quantities, and no more.
ReleasedOnce ==
  \A p \in Products : stock[p] + Reserved(p) <= InitialStock[p]

\* actions.ticket: "Revoke all tickets in the order."  Once the cancellation
\* of a paid order is through, the order has no valid ticket.
AllTicketsRevoked ==
  \A o \in Orders : paymentState[o] = "canceled_after_paid" /\ ~InFlight(o) =>
     \A p \in Products : IssuedFor(o, p) \subseteq revoked

\* test_service_mark_order_as_paid: an order that was marked as paid has
\* exactly one payment.
PaidOnce == \A o \in Orders : paymentState[o] = "paid" => payments[o] = 1
=============================================================================
