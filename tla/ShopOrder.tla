------------------------------ MODULE ShopOrder ------------------------------
(***************************************************************************)
(* Orders of the shop: checkout, payment, fulfilment, cancellation.        *)
(*                                                                         *)
(* The application runs as several uWSGI processes with threads; each      *)
(* request is executed by a worker, and a worker talks to PostgreSQL       *)
(* (isolation level READ COMMITTED, no row locks in this part of the       *)
(* code).  One action of this module is one database round trip whose      *)
(* effect other workers can observe: a committed transaction, or a SELECT  *)
(* whose result the worker goes on using.  Between two actions of a worker *)
(* any other worker may run, or the worker may die (Crash).                *)
(***************************************************************************)
EXTENDS Naturals, FiniteSets

CONSTANTS
  Workers,       \* threads that serve requests
  Users,         \* user accounts that place orders
  Orders,        \* order IDs
  Products,      \* products of the shop
  Kind,          \* product -> "ticket", "bundle" or "plain" (product type)
  Carts,         \* the carts users submit: product -> quantity
  InitialStock,  \* product -> quantity on sale at the start
  Items,         \* IDs of tickets and ticket bundles
  MaxNumber,     \* bound: order numbers generated
  MaxPayments,   \* bound: an order is not paid again once it has so many
  MayCrash,      \* may a worker die in the middle of a request?
  None

ASSUME ConstantsAssumption ==
  /\ Kind \in [Products -> {"ticket", "bundle", "plain"}]
  /\ Carts \subseteq [Products -> Nat]
  /\ InitialStock \in [Products -> Nat]
  /\ MaxNumber \in Nat /\ MaxPayments \in Nat
  /\ MayCrash \in BOOLEAN
  /\ None \notin Users \cup Orders \cup Products

VARIABLES
  stock,            \* shop_products.quantity
  sequence,         \* shop_order_number_sequences.value
  paymentState,     \* shop_orders.payment_state; "none" if there is no row
  orderNumber,      \* shop_orders.order_number
  placedBy,         \* shop_orders.placed_by_id
  lineItems,        \* shop_order_line_items: product -> quantity
  processingResult, \* shop_order_line_items.processing_result: recorded IDs
  payments,         \* number of rows of shop_payments per order
  issued,           \* tickets and bundles, with the order they belong to
  revoked,          \* IDs of revoked tickets and bundles
  pc, req           \* per worker: next step, and data of the request

shopVars == <<stock, sequence>>
orderVars == <<paymentState, orderNumber, placedBy, lineItems>>
itemVars == <<processingResult, issued, revoked>>
vars == <<shopVars, orderVars, payments, itemVars, pc, req>>

-----------------------------------------------------------------------------
(* Types and state formulae *)

EmptyCart == [p \in Products |-> 0]
Canceled == {"canceled_before_paid", "canceled_after_paid"}
PaymentStates == {"open", "paid"} \cup Canceled
Placed == {o \in Orders : paymentState[o] # "none"}

Steps == {"idle", "number", "persist", "capture", "add_payment", "set_paid",
          "reread_paid", "fulfil", "record", "read_payments", "set_orderer",
          "set_canceled", "reread_canceled", "revoke"}

Item == [id : Items, order : Orders, product : Products, owner : Users]

Request == [order : Orders \cup {None}, user : Users \cup {None},
            seen : PaymentStates \cup {"none"}, cart : [Products -> Nat],
            number : Nat, todo : SUBSET Products,
            line : Products \cup {None}, made : SUBSET Items,
            recorded : [Products -> SUBSET Items]]

NothingRecorded == [p \in Products |-> {}]

NoRequest == [order |-> None, user |-> None, seen |-> "none",
              cart |-> EmptyCart, number |-> 0, todo |-> {}, line |-> None,
              made |-> {}, recorded |-> NothingRecorded]

\* Product types with an action procedure (find_procedure_for_product_type).
Actionable(o) == {p \in Products : lineItems[o][p] > 0 /\ Kind[p] # "plain"}

TypeOK ==
  /\ stock \in [Products -> Nat]
  /\ sequence \in Nat
  /\ paymentState \in [Orders -> PaymentStates \cup {"none"}]
  /\ orderNumber \in [Orders -> Nat]
  /\ placedBy \in [Orders -> Users \cup {None}]
  /\ lineItems \in [Orders -> [Products -> Nat]]
  /\ processingResult \in [Orders -> [Products -> SUBSET Items]]
  /\ payments \in [Orders -> Nat]
  /\ issued \subseteq Item
  /\ revoked \subseteq Items
  /\ pc \in [Workers -> Steps]
  /\ req \in [Workers -> Request]

Init ==
  /\ stock = InitialStock
  /\ sequence = 0
  /\ paymentState = [o \in Orders |-> "none"]
  /\ orderNumber = [o \in Orders |-> 0]
  /\ placedBy = [o \in Orders |-> None]
  /\ lineItems = [o \in Orders |-> EmptyCart]
  /\ processingResult = [o \in Orders |-> NothingRecorded]
  /\ payments = [o \in Orders |-> 0]
  /\ issued = {}
  /\ revoked = {}
  /\ pc = [w \in Workers |-> "idle"]
  /\ req = [w \in Workers |-> NoRequest]

-----------------------------------------------------------------------------
(* Decisions and results the actions are built from.  A definition with an *)
(* underscore is the one after it with a bug; no specification uses it.    *)

NextNumber_CountsOrders == Cardinality(Placed) + 1
NextNumber == sequence + 1

StockSuffices_Unchecked(cart) == TRUE
StockSuffices(cart) == \A p \in Products : cart[p] <= stock[p]

IsCanceled_BeforePaidOnly(state) == state = "canceled_before_paid"
IsCanceled_Never(state) == FALSE
IsCanceled(state) == state \in Canceled

IsPaid_Never(state) == FALSE
IsPaid(state) == state = "paid"

CanceledState_AlwaysBefore(seen) == "canceled_before_paid"
CanceledState(seen) ==
  IF seen = "paid" THEN "canceled_after_paid" ELSE "canceled_before_paid"

Restocked_Nothing(o) == stock
Restocked(o) == [p \in Products |-> stock[p] + lineItems[o][p]]

PaymentAdded_Lost(o) == payments
PaymentAdded(o) == [payments EXCEPT ![o] = @ + 1]

ResultOf_Dropped(w) == processingResult[req[w].order]
ResultOf(w) ==
  [processingResult[req[w].order] EXCEPT ![req[w].line] = req[w].made]

LinesLeft_None(w) == {}
LinesLeft(w) == req[w].todo \ {req[w].line}

-----------------------------------------------------------------------------
(* Steps of a request *)

Proceed(w, step) == pc' = [pc EXCEPT ![w] = step]

\* The request is over: response sent, error returned, or exception raised.
Finish(w) == Proceed(w, "idle") /\ req' = [req EXCEPT ![w] = NoRequest]

-----------------------------------------------------------------------------
(* Checkout: the `order` view and order_checkout_service.place_order *)

\* The order form offers at most the quantities in stock at that moment.
SubmitCart(w, u, o, cart) ==
  /\ pc[w] = "idle" /\ sequence < MaxNumber
  /\ paymentState[o] = "none" /\ \A v \in Workers : req[v].order # o
  /\ cart # EmptyCart /\ StockSuffices(cart)
  /\ req' = [req EXCEPT ![w] = [NoRequest EXCEPT !.order = o, !.user = u,
                                                 !.cart = cart]]
  /\ Proceed(w, "number")
  /\ UNCHANGED <<shopVars, orderVars, payments, itemVars>>

\* UPDATE ... SET value = value + 1 RETURNING value, committed on its own.
GenerateOrderNumber(w) ==
  /\ pc[w] = "number"
  /\ sequence' = sequence + 1
  /\ req' = [req EXCEPT ![w].number = NextNumber]
  /\ Proceed(w, "persist")
  /\ UNCHANGED <<stock, orderVars, payments, itemVars>>

\* One transaction inserts the order and decreases the stock.  The CHECK
\* constraint on the quantity or the unique order number may abort it.
PersistOrder(w) ==
  LET r == req[w]
      numberIsFree == \A o \in Placed : orderNumber[o] # r.number
  IN  /\ pc[w] = "persist"
      /\ IF StockSuffices(r.cart) /\ numberIsFree
           THEN /\ stock' = [p \in Products |-> stock[p] - r.cart[p]]
                /\ paymentState' = [paymentState EXCEPT ![r.order] = "open"]
                /\ orderNumber' = [orderNumber EXCEPT ![r.order] = r.number]
                /\ placedBy' = [placedBy EXCEPT ![r.order] = r.user]
                /\ lineItems' = [lineItems EXCEPT ![r.order] = r.cart]
           ELSE UNCHANGED <<stock, orderVars>>
      /\ Finish(w)
      /\ UNCHANGED <<sequence, payments, itemVars>>

-----------------------------------------------------------------------------
(* Payment: order_command_service.mark_order_as_paid *)

\* PayPal capture and Stripe webhook look for an open order first.
FindOpenOrder(w, o) ==
  /\ pc[w] = "idle" /\ paymentState[o] = "open" /\ payments[o] < MaxPayments
  /\ req' = [req EXCEPT ![w].order = o]
  /\ Proceed(w, "capture")
  /\ UNCHANGED <<shopVars, orderVars, payments, itemVars>>

RefuseCapture_ResetsState(w) ==
  /\ pc[w] = "capture"
  /\ paymentState' = [paymentState EXCEPT ![req[w].order] = "open"]
  /\ Finish(w)
  /\ UNCHANGED <<shopVars, orderNumber, placedBy, lineItems, payments, itemVars>>

\* The gateway cannot be reached, or its transaction does not match.
RefuseCapture(w) ==
  /\ pc[w] = "capture"
  /\ Finish(w)
  /\ UNCHANGED <<shopVars, orderVars, payments, itemVars>>

\* The order and its orderer are loaded; a canceled order is refused.
LoadOrderToPay(w, o) ==
  /\ \/ pc[w] = "idle" /\ payments[o] < MaxPayments
     \/ pc[w] = "capture" /\ req[w].order = o
  /\ o \in Placed
  /\ IF IsCanceled(paymentState[o])
       THEN Finish(w)
       ELSE /\ req' = [req EXCEPT ![w] = [NoRequest EXCEPT
                         !.order = o, !.user = placedBy[o],
                         !.seen = paymentState[o]]]
            /\ Proceed(w, "add_payment")
  /\ UNCHANGED <<shopVars, orderVars, payments, itemVars>>

\* The payment is committed before the loaded order is checked for `paid`.
AddPayment(w) ==
  /\ pc[w] = "add_payment"
  /\ payments' = PaymentAdded(req[w].order)
  /\ IF IsPaid(req[w].seen)
       THEN Finish(w)
       ELSE Proceed(w, "set_paid") /\ UNCHANGED req
  /\ UNCHANGED <<shopVars, orderVars, itemVars>>

SetPaid(w) ==
  /\ pc[w] = "set_paid"
  /\ paymentState' = [paymentState EXCEPT ![req[w].order] = "paid"]
  /\ Proceed(w, "reread_paid")
  /\ UNCHANGED <<shopVars, orderNumber, placedBy, lineItems, payments,
                 itemVars, req>>

\* to_paid_order reads the order again and raises if it is not paid.
RereadPaidOrder(w) ==
  LET o == req[w].order
  IN  /\ pc[w] = "reread_paid"
      /\ IF paymentState[o] = "paid" /\ Actionable(o) # {}
           THEN /\ req' = [req EXCEPT ![w].todo = Actionable(o)]
                /\ Proceed(w, "fulfil")
           ELSE Finish(w)
      /\ UNCHANGED <<shopVars, orderVars, payments, itemVars>>

-----------------------------------------------------------------------------
(* Fulfilment: actions.ticket and actions.ticket_bundle, on_payment *)

UsedIds == {i.id : i \in issued}

\* Generated UUIDs are new; which ones they are makes no difference.
Fresh(n) ==
  {ids \in SUBSET (Items \ UsedIds) : IsFiniteSet(ids) /\ Cardinality(ids) = n}

Issue(w, p, new) ==
  issued' = issued \cup [id : new, order : {req[w].order}, product : {p},
                         owner : {req[w].user}]

\* All tickets of a line item are created by one transaction.
CreateTickets(w, p) ==
  /\ pc[w] = "fulfil" /\ req[w].line = None
  /\ p \in req[w].todo /\ Kind[p] = "ticket"
  /\ LET new == Fresh(lineItems[req[w].order][p])
         ids == CHOOSE ids \in new : TRUE
     IN  /\ new # {}
         /\ Issue(w, p, ids)
         /\ req' = [req EXCEPT ![w].line = p, ![w].made = ids]
  /\ Proceed(w, "record")
  /\ UNCHANGED <<shopVars, orderVars, payments, processingResult, revoked>>

\* Each bundle of a line item is created by a transaction of its own.
CreateBundle(w, p) ==
  /\ pc[w] = "fulfil" /\ req[w].line \in {None, p}
  /\ p \in req[w].todo /\ Kind[p] = "bundle"
  /\ LET ids == CHOOSE ids \in Fresh(1) : TRUE
     IN  /\ Fresh(1) # {}
         /\ Issue(w, p, ids)
         /\ req' = [req EXCEPT ![w].line = p, ![w].made = @ \cup ids]
  /\ Proceed(w, IF Cardinality(req'[w].made) = lineItems[req[w].order][p]
                  THEN "record" ELSE "fulfil")
  /\ UNCHANGED <<shopVars, orderVars, payments, processingResult, revoked>>

UpdateProcessingResult(w) ==
  /\ pc[w] = "record"
  /\ processingResult' = [processingResult EXCEPT ![req[w].order] = ResultOf(w)]
  /\ IF LinesLeft(w) = {}
       THEN Finish(w)
       ELSE /\ req' = [req EXCEPT ![w].todo = LinesLeft(w), ![w].line = None,
                                  ![w].made = {}]
            /\ Proceed(w, "fulfil")
  /\ UNCHANGED <<shopVars, orderVars, payments, issued, revoked>>

-----------------------------------------------------------------------------
(* Change of the orderer: order_command_service.update_orderer *)

LoadOrderToUpdate(w, o, u) ==
  /\ pc[w] = "idle" /\ o \in Placed /\ placedBy[o] # u
  /\ req' = [req EXCEPT ![w] = [NoRequest EXCEPT !.order = o, !.user = u,
                                                 !.seen = paymentState[o]]]
  /\ Proceed(w, "read_payments")
  /\ UNCHANGED <<shopVars, orderVars, payments, itemVars>>

\* Only open orders without payments may get another orderer.
ReadPayments(w) ==
  /\ pc[w] = "read_payments"
  /\ IF req[w].seen = "open" /\ payments[req[w].order] = 0
       THEN Proceed(w, "set_orderer") /\ UNCHANGED req
       ELSE Finish(w)
  /\ UNCHANGED <<shopVars, orderVars, payments, itemVars>>

SetOrderer(w) ==
  /\ pc[w] = "set_orderer"
  /\ placedBy' = [placedBy EXCEPT ![req[w].order] = req[w].user]
  /\ Finish(w)
  /\ UNCHANGED <<shopVars, paymentState, orderNumber, lineItems, payments,
                 itemVars>>

-----------------------------------------------------------------------------
(* Cancellation: order_command_service.cancel_order *)

LoadOrderToCancel(w, o) ==
  /\ pc[w] = "idle" /\ o \in Placed /\ ~IsCanceled(paymentState[o])
  /\ req' = [req EXCEPT ![w] = [NoRequest EXCEPT !.order = o,
                                                 !.seen = paymentState[o]]]
  /\ Proceed(w, "set_canceled")
  /\ UNCHANGED <<shopVars, orderVars, payments, itemVars>>

\* One transaction sets the state and puts the quantities back in stock.
SetCanceled(w) ==
  LET o == req[w].order
  IN  /\ pc[w] = "set_canceled"
      /\ paymentState' = [paymentState EXCEPT ![o] = CanceledState(req[w].seen)]
      /\ stock' = Restocked(o)
      /\ IF req[w].seen = "paid"
           THEN Proceed(w, "reread_canceled") /\ UNCHANGED req
           ELSE Finish(w)
      /\ UNCHANGED <<sequence, orderNumber, placedBy, lineItems, payments,
                     itemVars>>

\* to_order reads the line items, with the IDs recorded so far.
RereadCanceledOrder(w) ==
  LET o == req[w].order
  IN  /\ pc[w] = "reread_canceled"
      /\ IF Actionable(o) = {}
           THEN Finish(w)
           ELSE /\ req' = [req EXCEPT ![w].todo = Actionable(o),
                                      ![w].recorded = processingResult[o]]
                /\ Proceed(w, "revoke")
      /\ UNCHANGED <<shopVars, orderVars, payments, itemVars>>

LineRevoked(w, p) ==
  IF req[w].todo = {p}
    THEN Finish(w)
    ELSE /\ req' = [req EXCEPT ![w].todo = @ \ {p}, ![w].line = None,
                               ![w].made = {}]
         /\ UNCHANGED pc

\* No IDs were recorded: processing_result['ticket_ids'] raises KeyError.
RevokeNothingRecorded(w, p) ==
  /\ pc[w] = "revoke" /\ p \in req[w].todo /\ req[w].line = None
  /\ req[w].recorded[p] = {}
  /\ Finish(w)
  /\ UNCHANGED <<shopVars, orderVars, payments, itemVars>>

RevokeTickets(w, p) ==
  /\ pc[w] = "revoke" /\ p \in req[w].todo /\ req[w].line = None
  /\ Kind[p] = "ticket" /\ req[w].recorded[p] # {}
  /\ revoked' = revoked \cup req[w].recorded[p]
  /\ LineRevoked(w, p)
  /\ UNCHANGED <<shopVars, orderVars, payments, processingResult, issued>>

\* Bundles are revoked one transaction at a time.
RevokeBundle(w, p) ==
  /\ pc[w] = "revoke" /\ p \in req[w].todo /\ req[w].line \in {None, p}
  /\ Kind[p] = "bundle"
  /\ \E b \in req[w].recorded[p] \ req[w].made :
       /\ revoked' = revoked \cup {b}
       /\ IF req[w].made \cup {b} = req[w].recorded[p]
            THEN LineRevoked(w, p)
            ELSE /\ req' = [req EXCEPT ![w].line = p,
                                       ![w].made = @ \cup {b}]
                 /\ UNCHANGED pc
  /\ UNCHANGED <<shopVars, orderVars, payments, processingResult, issued>>

-----------------------------------------------------------------------------
(* Specification *)

\* A worker dies, or a step raises; what was not committed is lost.
Crash(w) ==
  /\ MayCrash /\ pc[w] # "idle"
  /\ Finish(w)
  /\ UNCHANGED <<shopVars, orderVars, payments, itemVars>>

\* A user, an admin or a payment gateway sends a request.
Begin(w) ==
  \E o \in Orders :
    \/ \E u \in Users, cart \in Carts : SubmitCart(w, u, o, cart)
    \/ FindOpenOrder(w, o)
    \/ pc[w] = "idle" /\ LoadOrderToPay(w, o)
    \/ \E u \in Users : LoadOrderToUpdate(w, o, u)
    \/ LoadOrderToCancel(w, o)

\* A worker goes on with the request it is serving.
Continue(w) ==
  \/ GenerateOrderNumber(w) \/ PersistOrder(w)
  \/ \E o \in Orders : pc[w] = "capture" /\ LoadOrderToPay(w, o)
  \/ AddPayment(w) \/ SetPaid(w) \/ RereadPaidOrder(w)
  \/ \E p \in Products : CreateTickets(w, p) \/ CreateBundle(w, p)
  \/ UpdateProcessingResult(w)
  \/ ReadPayments(w) \/ SetOrderer(w)
  \/ SetCanceled(w) \/ RereadCanceledOrder(w)
  \/ \E p \in Products : \/ RevokeNothingRecorded(w, p)
                         \/ RevokeTickets(w, p) \/ RevokeBundle(w, p)

Serve(w) == Begin(w) \/ Continue(w) \/ RefuseCapture(w)

Next == \E w \in Workers : Serve(w) \/ Crash(w)

Spec == Init /\ [][Next]_vars
=============================================================================
