--------------------------- MODULE ShopOrderProofs ---------------------------
(***************************************************************************)
(* Theorems about ShopOrder and ShopOrderHistory, for any number of        *)
(* workers, orders, products, tickets, and any bounds: types, orders whose *)
(* requests do not overlap, order numbers, and the stock.                  *)
(*                                                                         *)
(* Of orders whose requests do not overlap, the argument is that a worker  *)
(* writes what follows from the payment state it loaded, so all is well as *)
(* long as what it loaded is still what is stored; and only another        *)
(* request for the same order can make it stale.                           *)
(*                                                                         *)
(* Of the numbers, of what is fixed once an order is placed, and of the    *)
(* stock, whichever requests overlap or die: a number is drawn by one step *)
(* and used by a later one, and nobody else may have either the number or  *)
(* the order in between.  So an order joins those that hold stock once,    *)
(* with the units it takes.                                                *)
(***************************************************************************)
EXTENDS ShopOrderHistory, TLAPS, FiniteSetTheorems

-----------------------------------------------------------------------------
(* Types *)

\* Steps that go on with an orderer the worker knows.
OrdererSteps == Steps \ {"idle", "capture", "set_canceled",
                        "reread_canceled", "revoke"}

\* Steps that concern an order that was placed before.
PlacedSteps == Steps \ {"idle", "number", "persist"}

\* What the data of a request says about the step its worker is at.
RequestOK ==
  \A w \in Workers :
    /\ pc[w] = "idle" => req[w] = NoRequest
    /\ pc[w] # "idle" => req[w].order \in Orders
    /\ pc[w] = "record" => req[w].line \in Products
    /\ pc[w] \in OrdererSteps => req[w].user \in Users
    /\ pc[w] \in PlacedSteps => req[w].order \in Placed

\* Every placed order has an orderer.
OrdererOK == \A o \in Placed : placedBy[o] \in Users

TypeInv == TypeOK /\ RequestOK /\ OrdererOK

(* The well-formed requests include the one of an idle worker. *)
LEMMA NoRequestType == NoRequest \in Request
  BY DEF NoRequest, Request, EmptyCart, NothingRecorded

(* A worker that finishes leaves all workers well-formed. *)
LEMMA FinishType ==
  ASSUME TypeInv, NEW w \in Workers, Finish(w), Placed \subseteq Placed'
  PROVE  pc' \in [Workers -> Steps] /\ req' \in [Workers -> Request] /\ RequestOK'
<1>1. pc \in [Workers -> Steps] /\ req \in [Workers -> Request]
  BY DEF TypeInv, TypeOK
<1>2. pc' \in [Workers -> Steps] /\ req' \in [Workers -> Request]
  BY <1>1, NoRequestType DEF Finish, Proceed, Steps
<1>3. RequestOK'
  BY <1>1 DEF Finish, Proceed, TypeInv, RequestOK, OrdererSteps, PlacedSteps
<1> QED
  BY <1>2, <1>3

(* A worker that proceeds with well-formed data leaves all well-formed. *)
LEMMA ProceedType ==
  ASSUME TypeInv, NEW w \in Workers, Placed \subseteq Placed',
         pc' = [pc EXCEPT ![w] = pc'[w]], req' = [req EXCEPT ![w] = req'[w]],
         pc'[w] \in Steps \ {"idle"}, req'[w] \in Request,
         req'[w].order \in Orders,
         pc'[w] = "record" => req'[w].line \in Products,
         pc'[w] \in OrdererSteps => req'[w].user \in Users,
         pc'[w] \in PlacedSteps => req'[w].order \in Placed'
  PROVE  pc' \in [Workers -> Steps] /\ req' \in [Workers -> Request] /\ RequestOK'
<1>1. pc \in [Workers -> Steps] /\ req \in [Workers -> Request]
  BY DEF TypeInv, TypeOK
<1>2. pc' \in [Workers -> Steps] /\ req' \in [Workers -> Request]
  BY <1>1
<1>3. RequestOK'
  BY <1>1 DEF TypeInv, RequestOK
<1> QED
  BY <1>2, <1>3

(* A step that only concerns the worker keeps the types of the database. *)
LEMMA QuietType ==
  ASSUME TypeInv, UNCHANGED <<shopVars, orderVars, payments, itemVars>>,
         pc' \in [Workers -> Steps] /\ req' \in [Workers -> Request] /\ RequestOK'
  PROVE  TypeInv'
  BY DEF TypeInv, TypeOK, OrdererOK, Placed, shopVars, orderVars, itemVars

(* Placed orders are never deleted. *)
LEMMA PlacedGrows ==
  ASSUME TypeOK, [Next]_vars
  PROVE  Placed \subseteq Placed'
<1>1. paymentState \in [Orders -> PaymentStates \cup {"none"}]
  BY DEF TypeOK
<1>2. \/ paymentState' = paymentState
      \/ \E o \in Orders \cup {None}, s \in PaymentStates :
            paymentState' = [paymentState EXCEPT ![o] = s]
  <2>1. ASSUME NEW w \in Workers, Begin(w) \/ RefuseCapture(w) \/ Crash(w)
        PROVE  paymentState' = paymentState
    BY <2>1 DEF Begin, SubmitCart, FindOpenOrder, LoadOrderToPay,
       LoadOrderToUpdate, LoadOrderToCancel, RefuseCapture, Crash, orderVars
  <2>2. ASSUME NEW w \in Workers, Continue(w),
               ~(PersistOrder(w) \/ SetPaid(w) \/ SetCanceled(w))
        PROVE  paymentState' = paymentState
    BY <2>2 DEF Continue, GenerateOrderNumber, LoadOrderToPay, AddPayment,
       RereadPaidOrder, CreateTickets, CreateBundle, UpdateProcessingResult,
       ReadPayments, SetOrderer, RereadCanceledOrder, RevokeNothingRecorded,
       RevokeTickets, RevokeBundle, orderVars
  <2>3. ASSUME NEW w \in Workers,
               PersistOrder(w) \/ SetPaid(w) \/ SetCanceled(w)
        PROVE  <1>2!2 \/ paymentState' = paymentState
    <3>1. req[w].order \in Orders \cup {None}
      BY DEF TypeOK, Request
    <3> QED
      BY <2>3, <3>1 DEF PersistOrder, SetPaid, SetCanceled, CanceledState,
         PaymentStates, Canceled, orderVars
  <2> QED
    BY <2>1, <2>2, <2>3 DEF Next, Serve, vars, orderVars
<1> QED
  BY <1>1, <1>2 DEF Placed, PaymentStates, Canceled

(* The initial state is well-formed. *)
LEMMA InitType == Init => TypeInv
<1> SUFFICES ASSUME Init PROVE TypeInv
  OBVIOUS
<1>1. lineItems \in [Orders -> [Products -> Nat]]
  BY DEF Init, EmptyCart
<1>2. processingResult \in [Orders -> [Products -> SUBSET Items]]
  BY DEF Init, NothingRecorded
<1>3. pc \in [Workers -> Steps] /\ req \in [Workers -> Request]
  BY NoRequestType DEF Init, Steps
<1>4. RequestOK
  BY DEF Init, RequestOK, OrdererSteps, PlacedSteps
<1> QED
  BY <1>1, <1>2, <1>3, <1>4, ConstantsAssumption
  DEF Init, TypeInv, TypeOK, OrdererOK, Placed

(* The steps of the checkout keep the types. *)
LEMMA CheckoutType ==
  ASSUME TypeInv, NEW w \in Workers, Placed \subseteq Placed'
  PROVE  /\ \A u \in Users, o \in Orders, cart \in Carts :
              SubmitCart(w, u, o, cart) => TypeInv'
         /\ GenerateOrderNumber(w) => TypeInv'
         /\ PersistOrder(w) => TypeInv'
<1>0. /\ req[w] \in Request /\ sequence + 1 \in Nat /\ pc[w] \in Steps
      /\ pc[w] # "idle" => req[w].order \in Orders
      /\ pc[w] \in OrdererSteps => req[w].user \in Users
      /\ pc \in [Workers -> Steps] /\ req \in [Workers -> Request]
  BY DEF TypeInv, TypeOK, RequestOK
<1>1. ASSUME NEW u \in Users, NEW o \in Orders, NEW cart \in Carts,
             SubmitCart(w, u, o, cart)
      PROVE  TypeInv'
  <2>1. [NoRequest EXCEPT !.order = o, !.user = u, !.cart = cart] \in Request
    BY NoRequestType, ConstantsAssumption DEF Request
  <2>2. pc' \in [Workers -> Steps] /\ req' \in [Workers -> Request] /\ RequestOK'
    <3>1. /\ req' = [req EXCEPT ![w] = req'[w]] /\ pc' = [pc EXCEPT ![w] = pc'[w]]
          /\ req'[w] \in Request /\ req'[w].order = o /\ pc'[w] = "number"
          /\ req'[w].user \in Users
      BY <1>0, <1>1, <2>1 DEF SubmitCart, Proceed, NoRequest
    <3> QED
      BY <3>1, ProceedType DEF Steps, PlacedSteps
  <2> QED
    BY <1>1, <2>2, QuietType DEF SubmitCart
<1>2. ASSUME GenerateOrderNumber(w)
      PROVE  TypeInv'
  <2>1. [req[w] EXCEPT !.number = NextNumber] \in Request
    BY <1>0 DEF Request, NextNumber
  <2>2. /\ req' = [req EXCEPT ![w] = req'[w]] /\ pc' = [pc EXCEPT ![w] = pc'[w]]
        /\ req'[w] \in Request /\ req'[w].order \in Orders /\ pc'[w] = "persist"
        /\ req'[w].user \in Users
    BY <1>0, <1>2, <2>1 DEF GenerateOrderNumber, Proceed, Request, OrdererSteps, Steps
  <2>3. pc' \in [Workers -> Steps] /\ req' \in [Workers -> Request] /\ RequestOK'
    BY <2>2, ProceedType DEF Steps, PlacedSteps
  <2> QED
    BY <1>0, <1>2, <2>3
    DEF GenerateOrderNumber, TypeInv, TypeOK, OrdererOK, Placed, orderVars, itemVars
<1>3. ASSUME PersistOrder(w)
      PROVE  TypeInv'
  <2>1. pc' \in [Workers -> Steps] /\ req' \in [Workers -> Request] /\ RequestOK'
    BY <1>3, FinishType DEF PersistOrder
  <2>2. req[w].cart \in [Products -> Nat] /\ req[w].order \in Orders
        /\ req[w].number \in Nat /\ req[w].user \in Users
    BY <1>0, <1>3 DEF Request, PersistOrder, OrdererSteps, Steps
  <2>3. stock \in [Products -> Nat] /\ stock' \in [Products -> Nat]
    BY <1>3, <2>2 DEF PersistOrder, StockSuffices, TypeInv, TypeOK, orderVars
  <2>4. /\ paymentState' \in [Orders -> PaymentStates \cup {"none"}]
        /\ orderNumber' \in [Orders -> Nat]
        /\ placedBy' \in [Orders -> Users \cup {None}]
        /\ lineItems' \in [Orders -> [Products -> Nat]]
        /\ OrdererOK'
    BY <1>3, <2>2 DEF PersistOrder, TypeInv, TypeOK, OrdererOK, Placed,
                         orderVars, PaymentStates
  <2> QED
    BY <1>3, <2>1, <2>3, <2>4 DEF PersistOrder, TypeInv, TypeOK, itemVars
<1> QED
  BY <1>1, <1>2, <1>3

(* The steps of a payment keep the types. *)
LEMMA PaymentType ==
  ASSUME TypeInv, NEW w \in Workers, Placed \subseteq Placed'
  PROVE  /\ \A o \in Orders : FindOpenOrder(w, o) \/ LoadOrderToPay(w, o) => TypeInv'
         /\ RefuseCapture(w) \/ Crash(w) => TypeInv'
         /\ AddPayment(w) => TypeInv'
         /\ SetPaid(w) => TypeInv'
         /\ RereadPaidOrder(w) => TypeInv'
<1>0. /\ req[w] \in Request /\ pc[w] \in Steps
      /\ pc[w] # "idle" => req[w].order \in Orders
      /\ pc[w] = "idle" => req[w] = NoRequest
      /\ pc[w] \in OrdererSteps => req[w].user \in Users
      /\ pc[w] \in PlacedSteps => req[w].order \in Placed
      /\ pc \in [Workers -> Steps] /\ req \in [Workers -> Request]
  BY DEF TypeInv, TypeOK, RequestOK
<1>1. ASSUME NEW o \in Orders, FindOpenOrder(w, o)
      PROVE  TypeInv'
  <2>1. /\ req' = [req EXCEPT ![w] = req'[w]] /\ pc' = [pc EXCEPT ![w] = pc'[w]]
        /\ req'[w] = [req[w] EXCEPT !.order = o] /\ pc'[w] = "capture"
    BY <1>0, <1>1 DEF FindOpenOrder, Proceed
  <2>2. req'[w] \in Request /\ req'[w].order = o /\ o \in Placed
    BY <1>0, <1>1, <2>1 DEF FindOpenOrder, Placed, Request
  <2> QED
    BY <1>1, <2>1, <2>2, ProceedType, QuietType
    DEF FindOpenOrder, Steps, OrdererSteps, PlacedSteps
<1>2. ASSUME NEW o \in Orders, LoadOrderToPay(w, o)
      PROVE  TypeInv'
  <2>1. CASE Finish(w)
    BY <1>2, <2>1, FinishType, QuietType DEF LoadOrderToPay
  <2>2. CASE ~IsCanceled(paymentState[o])
    <3>1. /\ req' = [req EXCEPT ![w] = req'[w]] /\ pc' = [pc EXCEPT ![w] = pc'[w]]
          /\ pc'[w] = "add_payment"
          /\ req'[w] = [NoRequest EXCEPT !.order = o, !.user = placedBy[o],
                                         !.seen = paymentState[o]]
      BY <1>0, <1>2, <2>2 DEF LoadOrderToPay, Proceed
    <3>2. placedBy[o] \in Users /\ paymentState[o] \in PaymentStates \cup {"none"}
      BY <1>2 DEF LoadOrderToPay, TypeInv, TypeOK, OrdererOK
    <3>3. req'[w] \in Request /\ req'[w].order = o /\ req'[w].user \in Users
      BY <3>1, <3>2, NoRequestType DEF Request
    <3> QED
      BY <1>2, <3>1, <3>3, ProceedType, QuietType DEF LoadOrderToPay, Steps
  <2> QED
    BY <1>2, <2>1, <2>2 DEF LoadOrderToPay
<1>3. ASSUME RefuseCapture(w) \/ Crash(w)
      PROVE  TypeInv'
  BY <1>3, FinishType, QuietType DEF RefuseCapture, Crash
<1>4. ASSUME AddPayment(w)
      PROVE  TypeInv'
  <2>1. pc' \in [Workers -> Steps] /\ req' \in [Workers -> Request] /\ RequestOK'
    <3>1. CASE Finish(w)
      BY <3>1, FinishType
    <3>2. CASE Proceed(w, "set_paid") /\ UNCHANGED req
      BY <1>0, <1>4, <3>2, ProceedType DEF AddPayment, Proceed, Steps, OrdererSteps, PlacedSteps
    <3> QED
      BY <1>4, <3>1, <3>2 DEF AddPayment
  <2>2. payments' \in [Orders -> Nat]
    BY <1>0, <1>4 DEF AddPayment, PaymentAdded, TypeInv, TypeOK
  <2> QED
    BY <1>4, <2>1, <2>2
    DEF AddPayment, TypeInv, TypeOK, OrdererOK, Placed, shopVars, orderVars, itemVars
<1>5. ASSUME SetPaid(w)
      PROVE  TypeInv'
  <2>1. pc' \in [Workers -> Steps] /\ req' \in [Workers -> Request] /\ RequestOK'
    BY <1>0, <1>5, ProceedType DEF SetPaid, Proceed, Steps, OrdererSteps, PlacedSteps
  <2>2. paymentState' \in [Orders -> PaymentStates \cup {"none"}]
    BY <1>5 DEF SetPaid, PaymentStates, TypeInv, TypeOK
  <2>3. OrdererOK'
    BY <1>0, <1>5, <2>2
    DEF SetPaid, TypeInv, TypeOK, OrdererOK, Placed, Steps, PlacedSteps
  <2> QED
    BY <1>5, <2>1, <2>2, <2>3 DEF SetPaid, TypeInv, TypeOK, shopVars, itemVars
<1>6. ASSUME RereadPaidOrder(w)
      PROVE  TypeInv'
  <2>1. CASE Finish(w)
    BY <1>6, <2>1, FinishType, QuietType DEF RereadPaidOrder
  <2>2. CASE Proceed(w, "fulfil")
             /\ req' = [req EXCEPT ![w].todo = Actionable(req[w].order)]
    <3>1. /\ req' = [req EXCEPT ![w] = req'[w]] /\ pc' = [pc EXCEPT ![w] = pc'[w]]
          /\ pc'[w] = "fulfil"
          /\ req'[w] = [req[w] EXCEPT !.todo = Actionable(req[w].order)]
      BY <1>0, <2>2 DEF Proceed
    <3>2. /\ req'[w] \in Request /\ req'[w].user \in Users
          /\ req'[w].order \in Orders /\ req'[w].order \in Placed
      <4>1. Actionable(req[w].order) \in SUBSET Products
        BY DEF Actionable
      <4> QED
        BY <1>0, <1>6, <3>1, <4>1 DEF RereadPaidOrder, Request, OrdererSteps, PlacedSteps, Steps
    <3> QED
      BY <1>6, <3>1, <3>2, ProceedType, QuietType DEF RereadPaidOrder, Steps
  <2> QED
    BY <1>6, <2>1, <2>2 DEF RereadPaidOrder
<1> QED
  BY <1>1, <1>2, <1>3, <1>4, <1>5, <1>6

(* The steps that create tickets and bundles keep the types. *)
LEMMA FulfilmentType ==
  ASSUME TypeInv, NEW w \in Workers, Placed \subseteq Placed'
  PROVE  /\ \A p \in Products : CreateTickets(w, p) \/ CreateBundle(w, p) => TypeInv'
         /\ UpdateProcessingResult(w) => TypeInv'
<1>0. /\ req[w] \in Request /\ pc[w] \in Steps
      /\ pc[w] # "idle" => req[w].order \in Orders
      /\ pc[w] = "record" => req[w].line \in Products
      /\ pc[w] \in OrdererSteps => req[w].user \in Users
      /\ pc[w] \in PlacedSteps => req[w].order \in Placed
      /\ pc \in [Workers -> Steps] /\ req \in [Workers -> Request]
  BY DEF TypeInv, TypeOK, RequestOK
<1>1. ASSUME NEW n \in Nat, Fresh(n) # {}
      PROVE  (CHOOSE ids \in Fresh(n) : TRUE) \in SUBSET Items
  BY <1>1 DEF Fresh
<1>2. ASSUME NEW p \in Products, CreateTickets(w, p) \/ CreateBundle(w, p)
      PROVE  TypeInv'
  <2>1. PICK ids \in SUBSET Items :
          /\ Issue(w, p, ids)
          /\ \/ req' = [req EXCEPT ![w].line = p, ![w].made = ids]
             \/ req' = [req EXCEPT ![w].line = p, ![w].made = @ \cup ids]
    <3>1. lineItems[req[w].order][p] \in Nat
      BY <1>0, <1>2 DEF CreateTickets, CreateBundle, TypeInv, TypeOK
    <3> QED
      BY <1>1, <1>2, <3>1 DEF CreateTickets, CreateBundle
  <2>2. PICK step \in {"record", "fulfil"} : Proceed(w, step)
    BY <1>2 DEF CreateTickets, CreateBundle
  <2>3. /\ req' = [req EXCEPT ![w] = req'[w]] /\ pc' = [pc EXCEPT ![w] = pc'[w]]
        /\ pc'[w] = step
        /\ \/ req'[w] = [req[w] EXCEPT !.line = p, !.made = ids]
           \/ req'[w] = [req[w] EXCEPT !.line = p, !.made = @ \cup ids]
    BY <1>0, <2>1, <2>2 DEF Proceed
  <2>4. /\ req'[w] \in Request /\ req'[w].line = p /\ req'[w].user \in Users
        /\ req'[w].order \in Orders /\ req'[w].order \in Placed
    <3>1. /\ req[w].order \in Orders /\ req[w].order \in Placed
          /\ req[w].user \in Users
      BY <1>0, <1>2 DEF CreateTickets, CreateBundle, OrdererSteps, PlacedSteps, Steps
    <3>2. CASE req'[w] = [req[w] EXCEPT !.line = p, !.made = ids]
      BY <1>0, <3>1, <3>2 DEF Request
    <3>3. CASE req'[w] = [req[w] EXCEPT !.line = p, !.made = @ \cup ids]
      <4>1. req[w].made \cup ids \in SUBSET Items
        BY <1>0 DEF Request
      <4> QED
        BY <1>0, <3>1, <3>3, <4>1 DEF Request
    <3> QED
      BY <2>3, <3>2, <3>3
  <2>5. pc' \in [Workers -> Steps] /\ req' \in [Workers -> Request] /\ RequestOK'
    BY <2>3, <2>4, ProceedType DEF Steps
  <2>6. issued' \subseteq Item
    <3>1. issued \subseteq Item /\ req[w].order \in Orders /\ req[w].user \in Users
      BY <1>0, <1>2
      DEF CreateTickets, CreateBundle, TypeInv, TypeOK, OrdererSteps, PlacedSteps, Steps
    <3> QED
      BY <2>1, <3>1 DEF Issue, Item
  <2> QED
    BY <1>2, <2>5, <2>6
    DEF CreateTickets, CreateBundle, TypeInv, TypeOK, OrdererOK, Placed,
        shopVars, orderVars
<1>3. ASSUME UpdateProcessingResult(w)
      PROVE  TypeInv'
  <2>1. pc' \in [Workers -> Steps] /\ req' \in [Workers -> Request] /\ RequestOK'
    <3>1. CASE Finish(w)
      BY <3>1, FinishType
    <3>2. CASE /\ req' = [req EXCEPT ![w].todo = LinesLeft(w), ![w].line = None,
                                     ![w].made = {}]
               /\ Proceed(w, "fulfil")
      <4>1. /\ req' = [req EXCEPT ![w] = req'[w]]
            /\ pc' = [pc EXCEPT ![w] = pc'[w]] /\ pc'[w] = "fulfil"
            /\ req'[w] = [req[w] EXCEPT !.todo = LinesLeft(w), !.line = None,
                                        !.made = {}]
        BY <1>0, <3>2 DEF Proceed
      <4>2. /\ req'[w] \in Request /\ req'[w].user \in Users
            /\ req'[w].order \in Orders /\ req'[w].order \in Placed
        <5>1. LinesLeft(w) \in SUBSET Products
          BY <1>0 DEF LinesLeft, Request
        <5> QED
          BY <1>0, <1>3, <4>1, <5>1
          DEF UpdateProcessingResult, Request, OrdererSteps, PlacedSteps, Steps
      <4> QED
        BY <4>1, <4>2, ProceedType DEF Steps
    <3> QED
      BY <1>3, <3>1, <3>2 DEF UpdateProcessingResult
  <2>2. ResultOf(w) \in [Products -> SUBSET Items]
    <3>1. req[w].made \in SUBSET Items /\ req[w].line \in Products
          /\ req[w].order \in Orders
      BY <1>0, <1>3 DEF UpdateProcessingResult, Request
    <3>2. processingResult[req[w].order] \in [Products -> SUBSET Items]
      BY <3>1 DEF TypeInv, TypeOK
    <3> QED
      BY <3>1, <3>2 DEF ResultOf
  <2>3. processingResult' \in [Orders -> [Products -> SUBSET Items]]
    BY <1>3, <2>2 DEF UpdateProcessingResult, TypeInv, TypeOK
  <2> QED
    BY <1>3, <2>1, <2>3
    DEF UpdateProcessingResult, TypeInv, TypeOK, OrdererOK, Placed,
        shopVars, orderVars
<1> QED
  BY <1>2, <1>3

(* The steps of a change of the orderer keep the types. *)
LEMMA OrdererType ==
  ASSUME TypeInv, NEW w \in Workers, Placed \subseteq Placed'
  PROVE  /\ \A o \in Orders, u \in Users : LoadOrderToUpdate(w, o, u) => TypeInv'
         /\ ReadPayments(w) => TypeInv'
         /\ SetOrderer(w) => TypeInv'
<1>0. /\ req[w] \in Request /\ pc[w] \in Steps
      /\ pc[w] # "idle" => req[w].order \in Orders
      /\ pc[w] \in OrdererSteps => req[w].user \in Users
      /\ pc[w] \in PlacedSteps => req[w].order \in Placed
      /\ pc \in [Workers -> Steps] /\ req \in [Workers -> Request]
  BY DEF TypeInv, TypeOK, RequestOK
<1>1. ASSUME NEW o \in Orders, NEW u \in Users, LoadOrderToUpdate(w, o, u)
      PROVE  TypeInv'
  <2>1. /\ req' = [req EXCEPT ![w] = req'[w]] /\ pc' = [pc EXCEPT ![w] = pc'[w]]
        /\ pc'[w] = "read_payments"
        /\ req'[w] = [NoRequest EXCEPT !.order = o, !.user = u,
                                       !.seen = paymentState[o]]
    BY <1>0, <1>1 DEF LoadOrderToUpdate, Proceed
  <2>2. /\ req'[w] \in Request /\ req'[w].user \in Users
        /\ req'[w].order \in Orders /\ req'[w].order \in Placed
    <3>1. paymentState[o] \in PaymentStates \cup {"none"} /\ o \in Placed
      BY <1>1 DEF LoadOrderToUpdate, TypeInv, TypeOK
    <3> QED
      BY <2>1, <3>1, NoRequestType DEF Request
  <2> QED
    BY <1>1, <2>1, <2>2, ProceedType, QuietType DEF LoadOrderToUpdate, Steps
<1>2. ASSUME ReadPayments(w)
      PROVE  TypeInv'
  <2>1. CASE Finish(w)
    BY <1>2, <2>1, FinishType, QuietType DEF ReadPayments
  <2>2. CASE Proceed(w, "set_orderer") /\ UNCHANGED req
    <3>1. pc' \in [Workers -> Steps] /\ req' \in [Workers -> Request] /\ RequestOK'
      BY <1>0, <1>2, <2>2, ProceedType
      DEF ReadPayments, Proceed, Steps, OrdererSteps, PlacedSteps
    <3> QED
      BY <1>2, <3>1, QuietType DEF ReadPayments
  <2> QED
    BY <1>2, <2>1, <2>2 DEF ReadPayments
<1>3. ASSUME SetOrderer(w)
      PROVE  TypeInv'
  <2>1. pc' \in [Workers -> Steps] /\ req' \in [Workers -> Request] /\ RequestOK'
    BY <1>3, FinishType DEF SetOrderer
  <2>2. placedBy' \in [Orders -> Users \cup {None}] /\ OrdererOK'
    BY <1>0, <1>3
    DEF SetOrderer, TypeInv, TypeOK, OrdererOK, Placed, OrdererSteps, Steps
  <2> QED
    BY <1>3, <2>1, <2>2 DEF SetOrderer, TypeInv, TypeOK, shopVars, itemVars
<1> QED
  BY <1>1, <1>2, <1>3

(* The steps of a cancellation keep the types. *)
LEMMA CancellationType ==
  ASSUME TypeInv, NEW w \in Workers, Placed \subseteq Placed'
  PROVE  /\ \A o \in Orders : LoadOrderToCancel(w, o) => TypeInv'
         /\ SetCanceled(w) => TypeInv'
         /\ RereadCanceledOrder(w) => TypeInv'
         /\ \A p \in Products :
              RevokeNothingRecorded(w, p) \/ RevokeTickets(w, p) \/ RevokeBundle(w, p)
                => TypeInv'
<1>0. /\ req[w] \in Request /\ pc[w] \in Steps
      /\ pc[w] # "idle" => req[w].order \in Orders
      /\ pc[w] \in PlacedSteps => req[w].order \in Placed
      /\ pc \in [Workers -> Steps] /\ req \in [Workers -> Request]
  BY DEF TypeInv, TypeOK, RequestOK
<1>1. ASSUME NEW o \in Orders, LoadOrderToCancel(w, o)
      PROVE  TypeInv'
  <2>1. /\ req' = [req EXCEPT ![w] = req'[w]] /\ pc' = [pc EXCEPT ![w] = pc'[w]]
        /\ pc'[w] = "set_canceled"
        /\ req'[w] = [NoRequest EXCEPT !.order = o, !.seen = paymentState[o]]
    BY <1>0, <1>1 DEF LoadOrderToCancel, Proceed
  <2>2. /\ req'[w] \in Request
        /\ req'[w].order \in Orders /\ req'[w].order \in Placed
    <3>1. paymentState[o] \in PaymentStates \cup {"none"} /\ o \in Placed
      BY <1>1 DEF LoadOrderToCancel, TypeInv, TypeOK
    <3> QED
      BY <2>1, <3>1, NoRequestType DEF Request
  <2> QED
    BY <1>1, <2>1, <2>2, ProceedType, QuietType
    DEF LoadOrderToCancel, Steps, OrdererSteps
<1>2. ASSUME SetCanceled(w)
      PROVE  TypeInv'
  <2>1. pc' \in [Workers -> Steps] /\ req' \in [Workers -> Request] /\ RequestOK'
    <3>1. CASE Finish(w)
      BY <3>1, FinishType
    <3>2. CASE Proceed(w, "reread_canceled") /\ UNCHANGED req
      BY <1>0, <1>2, <3>2, ProceedType
      DEF SetCanceled, Proceed, Steps, OrdererSteps, PlacedSteps
    <3> QED
      BY <1>2, <3>1, <3>2 DEF SetCanceled
  <2>2. req[w].order \in Orders /\ req[w].order \in Placed
    BY <1>0, <1>2 DEF SetCanceled, Steps, PlacedSteps
  <2>3. stock' \in [Products -> Nat]
    BY <1>2, <2>2 DEF SetCanceled, Restocked, TypeInv, TypeOK
  <2>4. paymentState' \in [Orders -> PaymentStates \cup {"none"}] /\ OrdererOK'
    BY <1>2, <2>2
    DEF SetCanceled, CanceledState, PaymentStates, Canceled, TypeInv, TypeOK,
        OrdererOK, Placed
  <2> QED
    BY <1>2, <2>1, <2>3, <2>4 DEF SetCanceled, TypeInv, TypeOK, itemVars
<1>3. ASSUME RereadCanceledOrder(w)
      PROVE  TypeInv'
  <2>1. CASE Finish(w)
    BY <1>3, <2>1, FinishType, QuietType DEF RereadCanceledOrder
  <2>2. CASE /\ req' = [req EXCEPT ![w].todo = Actionable(req[w].order),
                                   ![w].recorded = processingResult[req[w].order]]
             /\ Proceed(w, "revoke")
    <3>1. /\ req' = [req EXCEPT ![w] = req'[w]] /\ pc' = [pc EXCEPT ![w] = pc'[w]]
          /\ pc'[w] = "revoke"
          /\ req'[w] = [req[w] EXCEPT !.todo = Actionable(req[w].order),
                                      !.recorded = processingResult[req[w].order]]
      BY <1>0, <2>2 DEF Proceed
    <3>2. /\ req'[w] \in Request
          /\ req'[w].order \in Orders /\ req'[w].order \in Placed
      <4>1. req[w].order \in Orders /\ req[w].order \in Placed
        BY <1>0, <1>3 DEF RereadCanceledOrder, PlacedSteps, Steps
      <4>2. processingResult[req[w].order] \in [Products -> SUBSET Items]
        BY <4>1 DEF TypeInv, TypeOK
      <4>3. Actionable(req[w].order) \in SUBSET Products
        BY DEF Actionable
      <4> QED
        BY <1>0, <3>1, <4>1, <4>2, <4>3 DEF Request
    <3> QED
      BY <1>3, <3>1, <3>2, ProceedType, QuietType
      DEF RereadCanceledOrder, Steps, OrdererSteps
  <2> QED
    BY <1>3, <2>1, <2>2 DEF RereadCanceledOrder
<1>4. ASSUME NEW p \in Products,
             \/ RevokeNothingRecorded(w, p)
             \/ RevokeTickets(w, p) \/ RevokeBundle(w, p)
      PROVE  TypeInv'
  <2>0. /\ pc[w] = "revoke" /\ p \in req[w].todo
        /\ req[w].order \in Orders /\ req[w].order \in Placed
    BY <1>0, <1>4
    DEF RevokeNothingRecorded, RevokeTickets, RevokeBundle, PlacedSteps, Steps
  <2>1. pc' \in [Workers -> Steps] /\ req' \in [Workers -> Request] /\ RequestOK'
    <3>1. CASE Finish(w)
      BY <3>1, FinishType
    <3>2. ASSUME UNCHANGED pc,
                 \/ req' = [req EXCEPT ![w].todo = @ \ {p}, ![w].line = None,
                                       ![w].made = {}]
                 \/ \E b \in req[w].recorded[p] :
                      req' = [req EXCEPT ![w].line = p, ![w].made = @ \cup {b}]
          PROVE  pc' \in [Workers -> Steps] /\ req' \in [Workers -> Request]
                 /\ RequestOK'
      <4>1. /\ req' = [req EXCEPT ![w] = req'[w]]
            /\ \/ req'[w] = [req[w] EXCEPT !.todo = @ \ {p}, !.line = None,
                                           !.made = {}]
               \/ \E b \in req[w].recorded[p] :
                    req'[w] = [req[w] EXCEPT !.line = p, !.made = @ \cup {b}]
        BY <1>0, <3>2
      <4>2. req'[w] \in Request /\ req'[w].order = req[w].order
        <5>1. CASE req'[w] = [req[w] EXCEPT !.todo = @ \ {p}, !.line = None,
                                            !.made = {}]
          <6>1. req[w].todo \ {p} \in SUBSET Products
            BY <1>0 DEF Request
          <6> QED
            BY <1>0, <5>1, <6>1 DEF Request
        <5>2. ASSUME NEW b \in req[w].recorded[p],
                     req'[w] = [req[w] EXCEPT !.line = p, !.made = @ \cup {b}]
              PROVE  req'[w] \in Request /\ req'[w].order = req[w].order
          <6>1. req[w].made \cup {b} \in SUBSET Items
            BY <1>0 DEF Request
          <6> QED
            BY <1>0, <5>2, <6>1 DEF Request
        <5> QED
          BY <4>1, <5>1, <5>2
      <4> QED
        BY <1>0, <2>0, <3>2, <4>1, <4>2, ProceedType DEF Steps, OrdererSteps
    <3> QED
      BY <1>4, <3>1, <3>2
      DEF RevokeNothingRecorded, RevokeTickets, RevokeBundle, LineRevoked
  <2>2. revoked' \subseteq Items
    <3>1. req[w].recorded[p] \subseteq Items /\ revoked \subseteq Items
      BY <1>0 DEF Request, TypeInv, TypeOK
    <3> QED
      BY <1>4, <3>1
      DEF RevokeNothingRecorded, RevokeTickets, RevokeBundle, itemVars
  <2> QED
    BY <1>4, <2>1, <2>2
    DEF RevokeNothingRecorded, RevokeTickets, RevokeBundle, TypeInv, TypeOK,
        OrdererOK, Placed, shopVars, orderVars, itemVars
<1> QED
  BY <1>1, <1>2, <1>3, <1>4

(* Every step, of whichever worker, keeps the types. *)
LEMMA NextType ==
  ASSUME TypeInv, [Next]_vars
  PROVE  TypeInv'
<1>1. Placed \subseteq Placed'
  BY PlacedGrows DEF TypeInv
<1>2. ASSUME NEW w \in Workers, Begin(w)
      PROVE  TypeInv'
  BY <1>1, <1>2, CheckoutType, PaymentType, OrdererType, CancellationType DEF Begin
<1>3. ASSUME NEW w \in Workers, Continue(w)
      PROVE  TypeInv'
  BY <1>1, <1>3, CheckoutType, PaymentType, FulfilmentType, OrdererType,
     CancellationType DEF Continue
<1>4. ASSUME NEW w \in Workers, RefuseCapture(w) \/ Crash(w)
      PROVE  TypeInv'
  BY <1>1, <1>4, PaymentType
<1>5. CASE UNCHANGED vars
  BY <1>5 DEF vars, shopVars, orderVars, itemVars, TypeInv, TypeOK, RequestOK,
     OrdererOK, Placed
<1> QED
  BY <1>2, <1>3, <1>4, <1>5 DEF Next, Serve

\* Types: every variable keeps its type, every request its data, and every
\* placed order has an orderer, whichever requests overlap or die.
THEOREM TypeCorrect == Spec => []TypeOK
<1>1. Init => TypeInv
  BY InitType
<1>2. TypeInv /\ [Next]_vars => TypeInv'
  BY NextType
<1>3. TypeInv => TypeOK
  BY DEF TypeInv
<1> QED
  BY <1>1, <1>2, <1>3, PTL DEF Spec

-----------------------------------------------------------------------------
(* What the history records *)

hvars == <<vars, historyVars>>

WorkerStep(w) == Serve(w) \/ Crash(w)

-----------------------------------------------------------------------------
(* The inductive invariant *)

\* Steps between loading an order's payment state and acting on it.
LoadedSteps == {"add_payment", "set_paid", "set_canceled"}

\* Whenever two workers serve the same order, that is on record.
OverlapsKnown ==
  \A v, w \in Workers : v # w /\ req[v].order = req[w].order
                          => req[v].order \in contended \cup {None}

\* What a worker knows of an uncontended order is what is stored.
SeenIsStored(w) ==
  LET o == req[w].order
  IN  /\ pc[w] \in {"number", "persist"} =>
           paymentState[o] = "none" /\ req[w].cart \in Carts
      /\ pc[w] \in LoadedSteps =>
           req[w].seen = paymentState[o] /\ req[w].seen \in {"open", "paid"}
      /\ pc[w] = "set_paid" => req[w].seen = "open"

SeenInv ==
  /\ OverlapsKnown
  /\ \A w \in Workers : req[w].order \notin contended => SeenIsStored(w)

HistoryInv == TypeInv /\ SeenInv

-----------------------------------------------------------------------------
(* Steps *)

(* A step of a worker changes neither the requests of the others nor the   *)
(* payment state and line items of an order it does not serve.             *)
LEMMA StepIsLocal ==
  ASSUME TypeInv, NEW w \in Workers, WorkerStep(w)
  PROVE  /\ \A v \in Workers \ {w} : pc'[v] = pc[v] /\ req'[v] = req[v]
         /\ \A o \in Orders : o # req[w].order =>
              paymentState'[o] = paymentState[o] /\ lineItems'[o] = lineItems[o]
<1>0. /\ pc \in [Workers -> Steps] /\ req \in [Workers -> Request]
      /\ paymentState \in [Orders -> PaymentStates \cup {"none"}]
      /\ lineItems \in [Orders -> [Products -> Nat]]
  BY DEF TypeInv, TypeOK
<1>1. CASE Begin(w) \/ RefuseCapture(w) \/ Crash(w)
  BY <1>0, <1>1
  DEF Begin, SubmitCart, FindOpenOrder, LoadOrderToPay, LoadOrderToUpdate,
      LoadOrderToCancel, RefuseCapture, Crash, Finish, Proceed, orderVars
<1>2. CASE Continue(w)
  <2>1. CASE GenerateOrderNumber(w) \/ AddPayment(w) \/ RereadPaidOrder(w)
             \/ (\E o \in Orders : LoadOrderToPay(w, o))
    BY <1>0, <2>1
    DEF GenerateOrderNumber, AddPayment, RereadPaidOrder, LoadOrderToPay,
        Finish, Proceed, orderVars
  <2>2. CASE PersistOrder(w)
    BY <1>0, <2>2 DEF PersistOrder, Finish, Proceed, orderVars
  <2>3. CASE SetPaid(w) \/ SetCanceled(w)
    BY <1>0, <2>3 DEF SetPaid, SetCanceled, Finish, Proceed
  <2>4. CASE \E p \in Products : CreateTickets(w, p) \/ CreateBundle(w, p)
    BY <1>0, <2>4 DEF CreateTickets, CreateBundle, Proceed, orderVars
  <2>5. CASE UpdateProcessingResult(w) \/ ReadPayments(w) \/ SetOrderer(w)
             \/ RereadCanceledOrder(w)
    BY <1>0, <2>5
    DEF UpdateProcessingResult, ReadPayments, SetOrderer, RereadCanceledOrder,
        Finish, Proceed, orderVars
  <2>6. CASE \E p \in Products : \/ RevokeNothingRecorded(w, p)
                                 \/ RevokeTickets(w, p) \/ RevokeBundle(w, p)
    BY <1>0, <2>6
    DEF RevokeNothingRecorded, RevokeTickets, RevokeBundle, LineRevoked, Finish,
        Proceed, orderVars
  <2> QED
    BY <1>2, <2>1, <2>2, <2>3, <2>4, <2>5, <2>6 DEF Continue
<1> QED
  BY <1>1, <1>2 DEF WorkerStep, Serve

(* A worker serves one order until its request is over. *)
LEMMA BusyKeepsOrder ==
  ASSUME TypeInv, NEW w \in Workers, WorkerStep(w), pc[w] # "idle"
  PROVE  Finish(w) \/ req'[w].order = req[w].order
<1>0. req \in [Workers -> Request] /\ req[w] \in Request
  BY DEF TypeInv, TypeOK
<1>1. CASE Begin(w) \/ RefuseCapture(w) \/ Crash(w)
  BY <1>1
  DEF Begin, SubmitCart, FindOpenOrder, LoadOrderToUpdate, LoadOrderToCancel,
      RefuseCapture, Crash
<1>2. CASE \E o \in Orders : pc[w] = "capture" /\ LoadOrderToPay(w, o)
  BY <1>0, <1>2 DEF LoadOrderToPay, NoRequest
<1>3. CASE GenerateOrderNumber(w) \/ PersistOrder(w) \/ AddPayment(w)
           \/ SetPaid(w) \/ RereadPaidOrder(w) \/ UpdateProcessingResult(w)
           \/ ReadPayments(w) \/ SetOrderer(w) \/ SetCanceled(w)
           \/ RereadCanceledOrder(w)
  BY <1>0, <1>3
  DEF GenerateOrderNumber, PersistOrder, AddPayment, SetPaid, RereadPaidOrder,
      UpdateProcessingResult, ReadPayments, SetOrderer, SetCanceled,
      RereadCanceledOrder, Request
<1>4. CASE \E p \in Products : \/ CreateTickets(w, p) \/ CreateBundle(w, p)
                               \/ RevokeNothingRecorded(w, p)
                               \/ RevokeTickets(w, p) \/ RevokeBundle(w, p)
  BY <1>0, <1>4
  DEF CreateTickets, CreateBundle, RevokeNothingRecorded, RevokeTickets,
      RevokeBundle, LineRevoked, Request
<1> QED
  BY <1>1, <1>2, <1>3, <1>4 DEF WorkerStep, Serve, Continue

(* The worker that takes the step still knows what is stored. *)
LEMMA StepKeepsSeen ==
  ASSUME TypeInv, NEW w \in Workers, WorkerStep(w), SeenIsStored(w)
  PROVE  SeenIsStored(w)'
<1>0. /\ pc \in [Workers -> Steps] /\ req \in [Workers -> Request]
      /\ paymentState \in [Orders -> PaymentStates \cup {"none"}]
      /\ req[w] \in Request
      /\ pc[w] # "idle" => req[w].order \in Orders
  BY DEF TypeInv, TypeOK, RequestOK
<1>1. ASSUME NEW u \in Users, NEW o \in Orders, NEW cart \in Carts,
             SubmitCart(w, u, o, cart)
      PROVE  SeenIsStored(w)'
  BY <1>0, <1>1
  DEF SubmitCart, Proceed, orderVars, NoRequest, SeenIsStored, LoadedSteps
<1>2. CASE GenerateOrderNumber(w)
  BY <1>0, <1>2
  DEF GenerateOrderNumber, Proceed, orderVars, Request, SeenIsStored, LoadedSteps
<1>3. ASSUME Finish(w)
      PROVE  SeenIsStored(w)'
  BY <1>0, <1>3 DEF Finish, Proceed, SeenIsStored, LoadedSteps
<1>4. ASSUME NEW o \in Orders, LoadOrderToPay(w, o)
      PROVE  SeenIsStored(w)'
  <2>1. CASE IsCanceled(paymentState[o])
    BY <1>3, <1>4, <2>1 DEF LoadOrderToPay
  <2>2. CASE ~IsCanceled(paymentState[o])
    <3>1. /\ pc'[w] = "add_payment" /\ req'[w].order = o
          /\ req'[w].seen = paymentState[o] /\ paymentState' = paymentState
      BY <1>0, <1>4, <2>2 DEF LoadOrderToPay, Proceed, orderVars, NoRequest
    <3>2. paymentState[o] \in {"open", "paid"}
      BY <1>0, <1>4, <2>2
      DEF LoadOrderToPay, Placed, PaymentStates, IsCanceled, Canceled
    <3> QED
      BY <3>1, <3>2 DEF SeenIsStored, LoadedSteps
  <2> QED
    BY <2>1, <2>2
<1>5. ASSUME NEW o \in Orders, LoadOrderToCancel(w, o)
      PROVE  SeenIsStored(w)'
  BY <1>0, <1>5
  DEF LoadOrderToCancel, Proceed, orderVars, NoRequest, Placed, PaymentStates,
      IsCanceled, Canceled, SeenIsStored, LoadedSteps
<1>6. CASE AddPayment(w)
  <2>1. CASE IsPaid(req[w].seen)
    BY <1>3, <1>6, <2>1 DEF AddPayment
  <2>2. CASE ~IsPaid(req[w].seen)
    BY <1>0, <1>6, <2>2
    DEF AddPayment, Proceed, orderVars, IsPaid, SeenIsStored, LoadedSteps
  <2> QED
    BY <2>1, <2>2
<1>7. ASSUME pc'[w] \notin LoadedSteps \cup {"number", "persist"}
      PROVE  SeenIsStored(w)'
  BY <1>7 DEF SeenIsStored, LoadedSteps
<1>8. CASE \/ \E o \in Orders : \/ FindOpenOrder(w, o)
                                \/ \E u \in Users : LoadOrderToUpdate(w, o, u)
           \/ RefuseCapture(w) \/ Crash(w) \/ PersistOrder(w)
           \/ SetPaid(w) \/ RereadPaidOrder(w)
  <2>1. pc'[w] \notin LoadedSteps \cup {"number", "persist"}
    BY <1>0, <1>8
    DEF FindOpenOrder, LoadOrderToUpdate, RefuseCapture, Crash, PersistOrder,
        SetPaid, RereadPaidOrder, Finish, Proceed, LoadedSteps
  <2> QED
    BY <1>7, <2>1
<1>9. CASE \/ \E p \in Products : CreateTickets(w, p) \/ CreateBundle(w, p)
           \/ UpdateProcessingResult(w) \/ ReadPayments(w) \/ SetOrderer(w)
           \/ SetCanceled(w) \/ RereadCanceledOrder(w)
           \/ \E p \in Products : \/ RevokeNothingRecorded(w, p)
                                  \/ RevokeTickets(w, p) \/ RevokeBundle(w, p)
  <2>1. pc'[w] \notin LoadedSteps \cup {"number", "persist"}
    BY <1>0, <1>9
    DEF CreateTickets, CreateBundle, UpdateProcessingResult, ReadPayments,
        SetOrderer, SetCanceled, RereadCanceledOrder, RevokeNothingRecorded,
        RevokeTickets, RevokeBundle, LineRevoked, Finish, Proceed, LoadedSteps
  <2> QED
    BY <1>7, <2>1
<1> QED
  BY <1>1, <1>2, <1>4, <1>5, <1>6, <1>8, <1>9
  DEF WorkerStep, Serve, Begin, Continue

(* Every step keeps the invariant. *)
LEMMA HistoryNextInv ==
  ASSUME HistoryInv, [HistoryNext]_hvars
  PROVE  HistoryInv'
<1>0. /\ pc \in [Workers -> Steps] /\ req \in [Workers -> Request]
      /\ \A v \in Workers : req[v].order \in Orders \cup {None}
      /\ \A v \in Workers : pc[v] # "idle" => req[v].order \in Orders
      /\ \A v \in Workers : pc[v] = "idle" => req[v] = NoRequest
  BY DEF HistoryInv, TypeInv, TypeOK, RequestOK, Request
<1>1. TypeInv'
  BY NextType DEF HistoryInv, HistoryNext, Next, hvars
<1>2. CASE UNCHANGED hvars
  <2>1. SeenInv'
    BY <1>2
    DEF hvars, vars, historyVars, orderVars, HistoryInv, SeenInv, OverlapsKnown,
        SeenIsStored
  <2> QED
    BY <1>1, <2>1 DEF HistoryInv
<1>3. CASE HistoryNext
  <2>1. PICK w \in Workers : WorkerStep(w)
    BY <1>3 DEF HistoryNext, WorkerStep
  <2>2. /\ \A v \in Workers \ {w} : pc'[v] = pc[v] /\ req'[v] = req[v]
        /\ \A o \in Orders : o # req[w].order => paymentState'[o] = paymentState[o]
    BY <2>1, StepIsLocal DEF HistoryInv
  <2>3. contended \subseteq contended'
    BY <1>3 DEF HistoryNext
  <2>4. OverlapsKnown'
    <3> SUFFICES ASSUME NEW u \in Workers, NEW v \in Workers, u # v,
                        req'[u].order = req'[v].order, req'[u].order # None
                 PROVE  req'[u].order \in contended'
      BY DEF OverlapsKnown
    <3>1. req'[u].order \in Orders
      BY <1>1 DEF TypeInv, TypeOK, Request
    <3> QED
      BY <1>3, <3>1 DEF HistoryNext
  <2>5. ASSUME NEW v \in Workers, req'[v].order \notin contended'
        PROVE  SeenIsStored(v)'
    <3>1. CASE v = w /\ pc[w] = "idle"
      <4>1. SeenIsStored(w)
        BY <3>1 DEF SeenIsStored, LoadedSteps
      <4> QED
        BY <2>1, <3>1, <4>1, StepKeepsSeen DEF HistoryInv
    <3>2. CASE v = w /\ pc[w] # "idle"
      <4>1. CASE req[w].order \in contended
        <5>1. Finish(w)
          BY <2>1, <2>3, <2>5, <3>2, <4>1, BusyKeepsOrder DEF HistoryInv
        <5> QED
          BY <1>0, <3>2, <5>1 DEF Finish, Proceed, SeenIsStored, LoadedSteps
      <4>2. CASE req[w].order \notin contended
        BY <2>1, <3>2, <4>2, StepKeepsSeen DEF HistoryInv, SeenInv
      <4> QED
        BY <4>1, <4>2
    <3>3. CASE v # w
      <4>1. pc'[v] = pc[v] /\ req'[v] = req[v] /\ req[v].order \notin contended
        BY <2>2, <2>3, <2>5, <3>3
      <4>2. SeenIsStored(v)
        BY <4>1 DEF HistoryInv, SeenInv
      <4>3. CASE pc[v] = "idle"
        BY <4>1, <4>3 DEF SeenIsStored, LoadedSteps
      <4>4. CASE pc[v] # "idle"
        <5>1. req[v].order \in Orders /\ req[v].order # None
          BY <1>0, <4>4, ConstantsAssumption
        <5>2. req[v].order # req[w].order
          BY <3>3, <4>1, <5>1 DEF HistoryInv, SeenInv, OverlapsKnown
        <5>3. paymentState'[req[v].order] = paymentState[req[v].order]
          BY <2>2, <5>1, <5>2
        <5> QED
          BY <4>1, <4>2, <5>3 DEF SeenIsStored
      <4> QED
        BY <4>3, <4>4
    <3> QED
      BY <3>1, <3>2, <3>3
  <2> QED
    BY <1>1, <2>4, <2>5 DEF HistoryInv, SeenInv
<1> QED
  BY <1>2, <1>3

(* No order is loaded at the start, so nothing can be stale. *)
LEMMA HistoryInitInv == HistoryInit => HistoryInv
<1> SUFFICES ASSUME HistoryInit PROVE HistoryInv
  OBVIOUS
<1>1. TypeInv
  BY InitType DEF HistoryInit
<1>2. \A w \in Workers : pc[w] = "idle" /\ req[w].order = None
  BY DEF HistoryInit, Init, NoRequest
<1>3. OverlapsKnown
  BY <1>2 DEF OverlapsKnown
<1>4. \A w \in Workers : SeenIsStored(w)
  BY <1>2 DEF SeenIsStored, LoadedSteps
<1> QED
  BY <1>1, <1>3, <1>4 DEF HistoryInv, SeenInv

-----------------------------------------------------------------------------
(* The payment state of an order whose requests do not overlap *)

(* Of all steps, only three change what the life cycle is about. *)
LEMMA LifeChange ==
  ASSUME NEW w \in Workers, WorkerStep(w),
         <<paymentState, lineItems, stock>>' # <<paymentState, lineItems, stock>>
  PROVE  PersistOrder(w) \/ SetPaid(w) \/ SetCanceled(w)
<1>1. CASE Begin(w) \/ RefuseCapture(w) \/ Crash(w)
  BY <1>1
  DEF Begin, SubmitCart, FindOpenOrder, LoadOrderToPay, LoadOrderToUpdate,
      LoadOrderToCancel, RefuseCapture, Crash, orderVars, shopVars
<1>2. CASE Continue(w)
  BY <1>2
  DEF Continue, GenerateOrderNumber, LoadOrderToPay, AddPayment,
      RereadPaidOrder, CreateTickets, CreateBundle, UpdateProcessingResult,
      ReadPayments, SetOrderer, RereadCanceledOrder, RevokeNothingRecorded,
      RevokeTickets, RevokeBundle, orderVars, shopVars
<1> QED
  BY <1>1, <1>2 DEF WorkerStep, Serve

(* An order whose requests do not overlap is placed, paid and canceled only *)
(* from the states the life cycle allows.                                   *)
LEMMA UncontendedChange ==
  ASSUME HistoryInv, NEW w \in Workers, WorkerStep(w), NEW o \in Orders \ contended,
         paymentState'[o] # paymentState[o]
  PROVE  /\ req[w].order = o
         /\ \/ PersistOrder(w) /\ paymentState[o] = "none"
            \/ SetPaid(w) /\ paymentState[o] = "open"
            \/ SetCanceled(w) /\ req[w].seen = paymentState[o]
                              /\ paymentState[o] \in {"open", "paid"}
<1>1. req[w].order = o
  BY StepIsLocal DEF HistoryInv
<1>2. SeenIsStored(w)
  BY <1>1 DEF HistoryInv, SeenInv
<1>3. PersistOrder(w) \/ SetPaid(w) \/ SetCanceled(w)
  BY LifeChange
<1> QED
  BY <1>1, <1>2, <1>3
  DEF PersistOrder, SetPaid, SetCanceled, SeenIsStored, LoadedSteps

\* A canceled order whose requests never overlapped keeps its payment state
\* for good: no late payment or second cancellation gets through.
THEOREM CanceledStaysCanceled == HistorySpec => CanceledIsFinal
<1>1. HistoryInv /\ [HistoryNext]_hvars
        => [\A o \in Orders \ contended' :
              paymentState[o] \in Canceled => paymentState'[o] = paymentState[o]]_vars
  <2> SUFFICES ASSUME HistoryInv, HistoryNext, NEW o \in Orders \ contended',
                      paymentState[o] \in Canceled
               PROVE  paymentState'[o] = paymentState[o]
    BY DEF hvars
  <2>1. PICK w \in Workers : WorkerStep(w)
    BY DEF HistoryNext, WorkerStep
  <2>2. o \in Orders \ contended
    BY DEF HistoryNext
  <2> QED
    BY <2>1, <2>2, UncontendedChange DEF Canceled
<1> QED
  BY <1>1, HistoryInitInv, HistoryNextInv, PTL DEF HistorySpec, CanceledIsFinal, hvars

-----------------------------------------------------------------------------
(* Refinement *)

(* Each of the three steps is the step of the life cycle with its name, and *)
(* a transaction that is aborted is none.                                   *)
LEMMA StepRefines ==
  ASSUME HistoryInv, contended = {}, NEW w \in Workers, WorkerStep(w)
  PROVE  [Lifecycle!Next]_(Lifecycle!lifeVars)
<1>0. /\ \A v \in Workers : pc[v] # "idle" => req[v].order \in Orders
      /\ SeenIsStored(w)
      /\ paymentState \in [Orders -> PaymentStates \cup {"none"}]
      /\ lineItems \in [Orders -> [Products -> Nat]]
  BY DEF HistoryInv, SeenInv, TypeInv, TypeOK, RequestOK
<1> SUFFICES ASSUME <<paymentState, lineItems, stock>>'
                      # <<paymentState, lineItems, stock>>
             PROVE  Lifecycle!Next
  BY DEF Lifecycle!lifeVars
<1> DEFINE o == req[w].order
<1>1. CASE PersistOrder(w)
  <2>1. /\ o \in Orders /\ paymentState[o] = "none" /\ req[w].cart \in Carts
    BY <1>0, <1>1 DEF PersistOrder, SeenIsStored
  <2>2. Lifecycle!Place(o, req[w].cart)
    BY <1>1, <2>1 DEF PersistOrder, StockSuffices, orderVars, Lifecycle!Place
  <2> QED
    BY <2>1, <2>2 DEF Lifecycle!Next
<1>2. CASE SetPaid(w)
  <2>1. o \in Orders /\ paymentState[o] = "open"
    BY <1>0, <1>2 DEF SetPaid, SeenIsStored, LoadedSteps
  <2>2. Lifecycle!Pay(o)
    BY <1>2, <2>1 DEF SetPaid, shopVars, Lifecycle!Pay
  <2> QED
    BY <2>1, <2>2 DEF Lifecycle!Next
<1>3. CASE SetCanceled(w)
  <2>1. /\ o \in Orders /\ paymentState[o] \in {"open", "paid"}
        /\ req[w].seen = paymentState[o]
    BY <1>0, <1>3 DEF SetCanceled, SeenIsStored, LoadedSteps
  <2>2. Lifecycle!Cancel(o)
    BY <1>3, <2>1 DEF SetCanceled, CanceledState, Restocked, Lifecycle!Cancel
  <2> QED
    BY <2>1, <2>2 DEF Lifecycle!Next
<1> QED
  BY <1>1, <1>2, <1>3, LifeChange

\* The transactions of the shop implement the life cycle in which an order is
\* placed, paid and canceled in one step each, together with the stock, as
\* long as requests for one order do not overlap; those for different orders
\* may, and requests may die at any point.
THEOREM ShopImplementsLifecycle == IsolatedSpec => ImplementsLifecycle
<1>1. HistoryInit => Lifecycle!Init /\ contended = {}
  BY DEF HistoryInit, Init, EmptyCart, Lifecycle!Init
<1>2. HistoryInv /\ contended = {} /\ [HistoryNext /\ contended' = {}]_hvars
        => HistoryInv' /\ (contended = {})' /\ [Lifecycle!Next]_(Lifecycle!lifeVars)
  <2> SUFFICES ASSUME HistoryInv, contended = {},
                      [HistoryNext /\ contended' = {}]_hvars
               PROVE  /\ HistoryInv' /\ contended' = {}
                      /\ [Lifecycle!Next]_(Lifecycle!lifeVars)
    OBVIOUS
  <2>1. HistoryInv'
    BY HistoryNextInv
  <2>2. contended' = {}
    BY DEF hvars, historyVars
  <2>3. CASE HistoryNext
    <3>1. PICK w \in Workers : WorkerStep(w)
      BY <2>3 DEF HistoryNext, WorkerStep
    <3>2. [Lifecycle!Next]_(Lifecycle!lifeVars)
      BY <3>1, StepRefines
    <3> QED
      BY <2>1, <2>2, <3>2
  <2>4. CASE UNCHANGED hvars
    BY <2>1, <2>2, <2>4 DEF hvars, vars, shopVars, orderVars, Lifecycle!lifeVars
  <2> QED
    BY <2>3, <2>4
<1> QED
  BY <1>1, <1>2, HistoryInitInv, PTL
  DEF IsolatedSpec, hvars, ImplementsLifecycle, Lifecycle!Spec

-----------------------------------------------------------------------------
(* Numbers, and what holds of every order *)

\* No two requests hold the same number.
NumbersApart ==
  \A v, w \in Workers :
    v # w /\ pc[v] = "persist" /\ pc[w] = "persist" => req[v].number # req[w].number

\* An order that is being placed has no row, and no other request is about it.
CheckoutAlone ==
  \A w \in Workers : pc[w] \in {"number", "persist"} =>
    /\ req[w].order \notin Placed
    /\ \A v \in Workers \ {w} : req[v].order # req[w].order

NumberInv == TypeInv /\ OrderNumbersUnique /\ NumbersApart /\ CheckoutAlone

-----------------------------------------------------------------------------
(* Steps *)

(* Only drawing a number and placing an order are about numbers; and of the *)
(* others only a checkout begins with an order that is not placed.          *)
LEMMA OtherSteps ==
  ASSUME TypeInv, NEW w \in Workers, WorkerStep(w),
         ~GenerateOrderNumber(w), ~PersistOrder(w)
  PROVE  /\ sequence' = sequence /\ orderNumber' = orderNumber /\ lineItems' = lineItems
         /\ Placed' = Placed
         /\ \A o \in Placed : paymentState'[o] = "open" => paymentState[o] = "open"
         /\ pc'[w] # "persist"
         /\ \/ /\ pc'[w] = "number"
               /\ req'[w].order \notin Placed
               /\ \A v \in Workers : req[v].order # req'[w].order
            \/ /\ pc'[w] # "number"
               /\ req'[w].order \in Placed \cup {None}
<1>0. /\ pc \in [Workers -> Steps] /\ req \in [Workers -> Request]
      /\ paymentState \in [Orders -> PaymentStates \cup {"none"}]
      /\ pc[w] \in PlacedSteps => req[w].order \in Placed
  BY DEF TypeInv, TypeOK, RequestOK
<1>1. CASE \E u \in Users, o \in Orders, cart \in Carts : SubmitCart(w, u, o, cart)
  BY <1>0, <1>1
  DEF SubmitCart, Proceed, orderVars, shopVars, Placed, NoRequest
<1>2. CASE \E o \in Orders : \/ FindOpenOrder(w, o) \/ LoadOrderToPay(w, o)
                             \/ LoadOrderToCancel(w, o)
                             \/ \E u \in Users : LoadOrderToUpdate(w, o, u)
  <2>1. PICK o \in Orders : \/ FindOpenOrder(w, o) \/ LoadOrderToPay(w, o)
                            \/ LoadOrderToCancel(w, o)
                            \/ \E u \in Users : LoadOrderToUpdate(w, o, u)
    BY <1>2
  <2>2. o \in Placed
    BY <2>1 DEF FindOpenOrder, LoadOrderToPay, LoadOrderToCancel, LoadOrderToUpdate, Placed
  <2>3. pc'[w] \notin {"number", "persist"} /\ req'[w].order \in {o, None}
    <3>1. ASSUME Finish(w) PROVE pc'[w] = "idle" /\ req'[w].order = None
      BY <1>0, <3>1 DEF Finish, Proceed, NoRequest
    <3>2. CASE FindOpenOrder(w, o)
      BY <1>0, <3>2 DEF FindOpenOrder, Proceed, Request
    <3>3. CASE LoadOrderToPay(w, o)
      BY <1>0, <3>1, <3>3 DEF LoadOrderToPay, Proceed, NoRequest
    <3>4. CASE LoadOrderToCancel(w, o)
      BY <1>0, <3>1, <3>4 DEF LoadOrderToCancel, Proceed, NoRequest
    <3>5. CASE \E u \in Users : LoadOrderToUpdate(w, o, u)
      BY <1>0, <3>1, <3>5 DEF LoadOrderToUpdate, Proceed, NoRequest
    <3> QED
      BY <2>1, <3>2, <3>3, <3>4, <3>5
  <2>4. UNCHANGED <<shopVars, orderVars>>
    BY <2>1
    DEF FindOpenOrder, LoadOrderToPay, LoadOrderToCancel, LoadOrderToUpdate
  <2> QED
    BY <2>2, <2>3, <2>4 DEF orderVars, shopVars, Placed
<1>3. CASE RefuseCapture(w) \/ Crash(w)
  BY <1>0, <1>3
  DEF RefuseCapture, Crash, Finish, Proceed, orderVars, shopVars, Placed, NoRequest
<1>4. CASE AddPayment(w) \/ RereadPaidOrder(w) \/ UpdateProcessingResult(w)
           \/ ReadPayments(w) \/ RereadCanceledOrder(w)
  BY <1>0, <1>4
  DEF AddPayment, RereadPaidOrder, UpdateProcessingResult, ReadPayments,
      RereadCanceledOrder, Finish, Proceed, orderVars, shopVars, Placed, PlacedSteps,
      Steps, NoRequest, Request
<1>5. CASE SetOrderer(w)
  BY <1>0, <1>5
  DEF SetOrderer, Finish, Proceed, shopVars, Placed, NoRequest
<1>6. CASE SetPaid(w) \/ SetCanceled(w)
  <2>1. req[w].order \in Placed
    BY <1>0, <1>6 DEF SetPaid, SetCanceled, PlacedSteps, Steps
  <2>2. PICK new \in {"paid", "canceled_before_paid", "canceled_after_paid"} :
           paymentState' = [paymentState EXCEPT ![req[w].order] = new]
    BY <1>6 DEF SetPaid, SetCanceled, CanceledState
  <2>3. Placed' = Placed
    BY <1>0, <2>1, <2>2 DEF Placed
  <2> QED
    BY <1>0, <1>6, <2>1, <2>2, <2>3
    DEF SetPaid, SetCanceled, Finish, Proceed, shopVars, Placed, NoRequest, Request
<1>7. CASE \E p \in Products : CreateTickets(w, p) \/ CreateBundle(w, p)
  <2>1. req[w].order \in Placed
    BY <1>0, <1>7 DEF CreateTickets, CreateBundle, PlacedSteps, Steps
  <2> QED
    BY <1>0, <1>7, <2>1
    DEF CreateTickets, CreateBundle, Proceed, orderVars, shopVars, Placed, Request
<1>8. CASE \E p \in Products : \/ RevokeNothingRecorded(w, p)
                               \/ RevokeTickets(w, p) \/ RevokeBundle(w, p)
  <2>1. req[w].order \in Placed /\ pc[w] = "revoke"
    BY <1>0, <1>8
    DEF RevokeNothingRecorded, RevokeTickets, RevokeBundle, PlacedSteps, Steps
  <2> QED
    BY <1>0, <1>8, <2>1
    DEF RevokeNothingRecorded, RevokeTickets, RevokeBundle, LineRevoked, Finish,
        Proceed, orderVars, shopVars, Placed, NoRequest, Request
<1> QED
  BY <1>1, <1>2, <1>3, <1>4, <1>5, <1>6, <1>7, <1>8
  DEF WorkerStep, Serve, Begin, Continue

(* Placing an order, when it is not refused. *)
LEMMA PersistStep ==
  ASSUME TypeInv, NEW w \in Workers, PersistOrder(w)
  PROVE  /\ sequence' = sequence /\ pc[w] = "persist" /\ pc'[w] = "idle"
         /\ req'[w].order = None
         /\ \/ UNCHANGED orderVars
            \/ LET o == req[w].order
               IN  /\ Placed' = Placed \cup {o} /\ o \in Orders
                   /\ \A x \in Placed : orderNumber[x] # req[w].number
                   /\ orderNumber'[o] = req[w].number
                   /\ \A x \in Orders \ {o} :
                        /\ orderNumber'[x] = orderNumber[x]
                        /\ lineItems'[x] = lineItems[x]
                        /\ paymentState'[x] = paymentState[x]
<1>1. /\ pc \in [Workers -> Steps] /\ req \in [Workers -> Request]
      /\ paymentState \in [Orders -> PaymentStates \cup {"none"}]
      /\ orderNumber \in [Orders -> Nat]
      /\ lineItems \in [Orders -> [Products -> Nat]]
      /\ pc[w] # "idle" => req[w].order \in Orders
  BY DEF TypeInv, TypeOK, RequestOK
<1>2. /\ sequence' = sequence /\ pc[w] = "persist" /\ pc'[w] = "idle"
      /\ req'[w].order = None /\ req[w].order \in Orders
  BY <1>1 DEF PersistOrder, Finish, Proceed, NoRequest
<1> QED
  BY <1>1, <1>2 DEF PersistOrder, Placed, orderVars

(* Drawing a number, the next one. *)
LEMMA GenerateStep ==
  ASSUME TypeInv, NEW w \in Workers, GenerateOrderNumber(w)
  PROVE  /\ sequence \in Nat /\ sequence' = sequence + 1 /\ UNCHANGED orderVars
         /\ Placed' = Placed
         /\ pc[w] = "number" /\ pc'[w] = "persist"
         /\ req'[w].order = req[w].order /\ req'[w].number = sequence + 1
<1>1. pc \in [Workers -> Steps] /\ req \in [Workers -> Request] /\ sequence \in Nat
  BY ConstantsAssumption DEF TypeInv, TypeOK
<1> QED
  BY <1>1
  DEF GenerateOrderNumber, NextNumber, Proceed, orderVars, Placed, Request

(* Every step keeps the invariant. *)
LEMMA NumberNext == NumberInv /\ [HistoryNext]_hvars => NumberInv'
<1> SUFFICES ASSUME NumberInv, [HistoryNext]_hvars
             PROVE  NumberInv'
  OBVIOUS
<1>0. TypeInv /\ sequence \in Nat
      /\ \A w \in Workers : pc[w] # "idle" => req[w].order \in Orders
  BY DEF NumberInv, TypeInv, TypeOK, RequestOK
<1>1. TypeInv'
  BY NextType DEF NumberInv, HistoryNext, Next, hvars
<1>2. CASE UNCHANGED hvars
  BY <1>1, <1>2
  DEF hvars, vars, orderVars, shopVars, NumberInv, OrderNumbersUnique, NumbersApart,
      CheckoutAlone, Placed
<1>3. CASE HistoryNext
  <2>1. PICK w \in Workers : WorkerStep(w)
    BY <1>3 DEF HistoryNext, WorkerStep
  <2>2. \A v \in Workers \ {w} : pc'[v] = pc[v] /\ req'[v] = req[v]
    BY <1>0, <2>1, StepIsLocal
  <2>3. CASE GenerateOrderNumber(w)
    <3>1. /\ sequence' = sequence + 1 /\ Placed' = Placed /\ orderNumber' = orderNumber
          /\ pc[w] = "number" /\ pc'[w] = "persist"
          /\ req'[w].order = req[w].order /\ req'[w].number = sequence + 1
      BY <1>0, <2>3, GenerateStep DEF orderVars
    <3>2. OrderNumbersUnique'
      BY <1>0, <2>2, <3>1 DEF NumberInv, OrderNumbersUnique
    <3>3. NumbersApart'
      BY <1>0, <2>2, <3>1 DEF NumberInv, OrderNumbersUnique, NumbersApart
    <3>4. CheckoutAlone'
      BY <2>2, <3>1 DEF NumberInv, CheckoutAlone
    <3> QED
      BY <1>1, <3>2, <3>3, <3>4 DEF NumberInv
  <2>4. CASE PersistOrder(w)
    <3>1. /\ sequence' = sequence /\ pc[w] = "persist" /\ pc'[w] = "idle"
          /\ req'[w].order = None
      BY <1>0, <2>4, PersistStep
    <3>2. NumbersApart'
      BY <2>2, <3>1 DEF NumberInv, NumbersApart
    <3>3. CASE UNCHANGED orderVars
      <4>1. Placed' = Placed /\ orderNumber' = orderNumber
        BY <3>3 DEF orderVars, Placed
      <4>2. OrderNumbersUnique'
        BY <2>2, <3>1, <4>1 DEF NumberInv, OrderNumbersUnique
      <4>3. CheckoutAlone'
        BY <1>0, <2>2, <3>1, <4>1, ConstantsAssumption DEF NumberInv, CheckoutAlone
      <4> QED
        BY <1>1, <3>2, <4>2, <4>3 DEF NumberInv
    <3>4. CASE ~UNCHANGED orderVars
      <4> DEFINE o == req[w].order
      <4>1. /\ Placed' = Placed \cup {o} /\ o \in Orders
            /\ \A x \in Placed : orderNumber[x] # req[w].number
            /\ orderNumber'[o] = req[w].number
            /\ \A x \in Orders \ {o} : orderNumber'[x] = orderNumber[x]
        BY <1>0, <2>4, <3>4, PersistStep
      <4>2. o \notin Placed /\ \A v \in Workers \ {w} : req[v].order # o
        BY <3>1 DEF NumberInv, CheckoutAlone
      <4>3. \A x \in Placed : x # o /\ orderNumber'[x] = orderNumber[x]
        BY <4>1, <4>2 DEF Placed
      <4>4. OrderNumbersUnique'
        BY <2>2, <3>1, <4>1, <4>3 DEF NumberInv, OrderNumbersUnique, NumbersApart
      <4>5. CheckoutAlone'
        BY <1>0, <2>2, <3>1, <4>1, <4>2, ConstantsAssumption
        DEF NumberInv, CheckoutAlone
      <4> QED
        BY <1>1, <3>2, <4>4, <4>5 DEF NumberInv
    <3> QED
      BY <3>3, <3>4
  <2>5. CASE ~GenerateOrderNumber(w) /\ ~PersistOrder(w)
    <3>1. /\ sequence' = sequence /\ orderNumber' = orderNumber /\ Placed' = Placed
          /\ pc'[w] # "persist"
          /\ \/ /\ pc'[w] = "number"
                /\ req'[w].order \notin Placed
                /\ \A v \in Workers : req[v].order # req'[w].order
             \/ /\ pc'[w] # "number"
                /\ req'[w].order \in Placed \cup {None}
      BY <1>0, <2>1, <2>5, OtherSteps
    <3>2. OrderNumbersUnique'
      BY <2>2, <3>1 DEF NumberInv, OrderNumbersUnique
    <3>3. NumbersApart'
      BY <2>2, <3>1 DEF NumberInv, NumbersApart
    <3>4. CheckoutAlone'
      BY <1>0, <2>2, <3>1, ConstantsAssumption DEF NumberInv, CheckoutAlone
    <3> QED
      BY <1>1, <3>2, <3>3, <3>4 DEF NumberInv
  <2> QED
    BY <2>3, <2>4, <2>5
<1> QED
  BY <1>2, <1>3

(* At the start there is neither an order nor a request. *)
LEMMA NumberInit == HistoryInit => NumberInv
  BY InitType
  DEF HistoryInit, Init, NumberInv, OrderNumbersUnique, NumbersApart, CheckoutAlone, Placed

-----------------------------------------------------------------------------
(* What follows *)

\* No two orders carry the same number, and the number a checkout has drawn but
\* not yet used is on no stored order (generate_order_number commits on its own,
\* before place_order does), whichever requests overlap or die in between.
THEOREM NumbersUnique == HistorySpec => []OrderNumbersUnique
<1>1. HistoryInit => NumberInv
  BY NumberInit
<1>2. NumberInv /\ [HistoryNext]_hvars => NumberInv'
  BY NumberNext
<1>3. NumberInv => OrderNumbersUnique
  BY DEF NumberInv
<1> QED
  BY <1>1, <1>2, <1>3, PTL DEF HistorySpec, hvars

\* A placed order is never open again once it was paid or canceled, and its
\* number and its line items never change: no overlapping checkout places an
\* order a second time, and no late request reopens one.
THEOREM PlacedStaysPlaced == HistorySpec => NeverReopened
<1>1. NumberInv /\ [HistoryNext]_hvars
        => [\A o \in Placed : /\ paymentState'[o] = "open" => paymentState[o] = "open"
                              /\ paymentState'[o] # "none"
                              /\ lineItems'[o] = lineItems[o]
                              /\ orderNumber'[o] = orderNumber[o]]_vars
  <2> SUFFICES ASSUME NumberInv, HistoryNext, NEW o \in Placed
               PROVE  /\ paymentState'[o] = "open" => paymentState[o] = "open"
                      /\ o \in Placed'
                      /\ lineItems'[o] = lineItems[o]
                      /\ orderNumber'[o] = orderNumber[o]
    BY DEF hvars, Placed
  <2>1. PICK w \in Workers : WorkerStep(w)
    BY DEF HistoryNext, WorkerStep
  <2>2. CASE GenerateOrderNumber(w)
    BY <2>1, <2>2, GenerateStep DEF NumberInv, orderVars
  <2>3. CASE PersistOrder(w)
    <3>1. req[w].order \notin Placed
      BY <2>3 DEF PersistOrder, NumberInv, CheckoutAlone
    <3>2. CASE UNCHANGED orderVars
      BY <3>2 DEF orderVars, Placed
    <3>3. CASE ~UNCHANGED orderVars
      BY <2>3, <3>1, <3>3, PersistStep DEF NumberInv, Placed
    <3> QED
      BY <3>2, <3>3
  <2>4. CASE ~GenerateOrderNumber(w) /\ ~PersistOrder(w)
    BY <2>1, <2>4, OtherSteps DEF NumberInv
  <2> QED
    BY <2>2, <2>3, <2>4
<1>2. HistoryInit => NumberInv
  BY NumberInit
<1>3. NumberInv /\ [HistoryNext]_hvars => NumberInv'
  BY NumberNext
<1> QED
  BY <1>1, <1>2, <1>3, PTL DEF HistorySpec, NeverReopened, hvars

-----------------------------------------------------------------------------
(* The stock.  What an order holds is counted unit by unit, so what is      *)
(* added to or taken from the stock can be compared with the units that     *)
(* leave or join those held.                                                *)

\* The units of a product an order's line item stands for.
UnitsOf(o, n) == {o} \X (1..n)

\* There are always finitely many units held, and none is lost.
StockInv ==
  \A p \in Products : /\ IsFiniteSet(HeldUnits(p))
                      /\ stock[p] + Reserved(p) >= InitialStock[p]

\* Only orders of which requests overlapped can bring stock back twice.
ExactInv ==
  contended = {} => \A p \in Products : stock[p] + Reserved(p) <= InitialStock[p]

(* A line item of a quantity n stands for n units. *)
LEMMA UnitsCounted ==
  ASSUME NEW o, NEW n \in Nat
  PROVE  IsFiniteSet(UnitsOf(o, n)) /\ Cardinality(UnitsOf(o, n)) = n
<1>1. IsFiniteSet(1..n) /\ Cardinality(1..n) = n
  BY FS_Interval
<1>2. IsFiniteSet({o}) /\ Cardinality({o}) = 1
  BY FS_Singleton
<1> QED
  BY <1>1, <1>2, FS_Product DEF UnitsOf

(* An order that joins those that hold stock adds its quantity. *)
LEMMA OrderJoins ==
  ASSUME NEW H, NEW H1, NEW o, NEW n \in Nat, IsFiniteSet(H),
         H1 = H \cup UnitsOf(o, n), \A k : <<o, k>> \notin H
  PROVE  IsFiniteSet(H1) /\ Cardinality(H1) = Cardinality(H) + n
<1>1. H \cap UnitsOf(o, n) = {} /\ Cardinality({}) = 0
  BY FS_EmptySet DEF UnitsOf
<1>2. IsFiniteSet(UnitsOf(o, n)) /\ Cardinality(UnitsOf(o, n)) = n
  BY UnitsCounted
<1>3. Cardinality(H) \in Nat
  BY FS_CardinalityType
<1>4. /\ IsFiniteSet(H1)
      /\ Cardinality(H1)
           = Cardinality(H) + Cardinality(UnitsOf(o, n)) - Cardinality(H \cap UnitsOf(o, n))
  BY <1>2, FS_Union
<1>5. Cardinality(H \cap UnitsOf(o, n)) = 0
  BY <1>1
<1> QED
  BY <1>2, <1>3, <1>4, <1>5

(* An order that leaves them takes its quantity away, and no more. *)
LEMMA OrderLeaves ==
  ASSUME NEW H, NEW H1, NEW o, NEW n \in Nat, IsFiniteSet(H),
         H1 \subseteq H, H \subseteq H1 \cup UnitsOf(o, n)
  PROVE  /\ IsFiniteSet(H1) /\ Cardinality(H1) + n >= Cardinality(H)
         /\ UnitsOf(o, n) \subseteq H /\ UnitsOf(o, n) \cap H1 = {}
              => Cardinality(H1) + n = Cardinality(H)
<1>1. IsFiniteSet(UnitsOf(o, n)) /\ Cardinality(UnitsOf(o, n)) = n
  BY UnitsCounted
<1>2. IsFiniteSet(H1)
  BY FS_Subset
<1>3. /\ IsFiniteSet(H1 \cup UnitsOf(o, n))
      /\ Cardinality(H1 \cup UnitsOf(o, n))
           = Cardinality(H1) + n - Cardinality(H1 \cap UnitsOf(o, n))
  BY <1>1, <1>2, FS_Union
<1>4. IsFiniteSet(H1 \cap UnitsOf(o, n))
  BY <1>2, FS_Intersection
<1>5. Cardinality(H) <= Cardinality(H1 \cup UnitsOf(o, n))
  BY <1>3, FS_Subset
<1>6. /\ Cardinality(H) \in Nat /\ Cardinality(H1) \in Nat
      /\ Cardinality(H1 \cap UnitsOf(o, n)) \in Nat
  BY <1>2, <1>4, FS_CardinalityType
<1>7. ASSUME UnitsOf(o, n) \subseteq H, UnitsOf(o, n) \cap H1 = {}
      PROVE  Cardinality(H1) + n = Cardinality(H)
  <2>1. H = H1 \cup UnitsOf(o, n) /\ H1 \cap UnitsOf(o, n) = {}
    BY <1>7
  <2>2. Cardinality({}) = 0
    BY FS_EmptySet
  <2>3. Cardinality(H1 \cap UnitsOf(o, n)) = 0
    BY <2>1, <2>2
  <2> QED
    BY <1>3, <1>6, <2>1, <2>3
<1> QED
  BY <1>2, <1>3, <1>5, <1>6, <1>7

(* The units an order holds are the ones that bear its ID. *)
LEMMA UnitsBearID ==
  ASSUME NEW o, NEW k, NEW p
  PROVE  <<o, k>> \in HeldUnits(p) <=> o \in Holding /\ k \in 1..lineItems[o][p]
  BY DEF HeldUnits

(* What a step does to the stock and the units held: a checkout and a late *)
(* payment add the order's units, a cancellation takes them away.          *)
LEMMA StockStep ==
  ASSUME TypeInv, CheckoutAlone, NEW w \in Workers, WorkerStep(w), NEW p \in Products
  PROVE  \/ stock'[p] = stock[p] /\ HeldUnits(p)' = HeldUnits(p)
         \/ /\ PersistOrder(w)
            /\ \E n \in Nat : /\ n <= stock[p] /\ stock'[p] = stock[p] - n
                              /\ HeldUnits(p)' = HeldUnits(p) \cup UnitsOf(req[w].order, n)
                              /\ \A k : <<req[w].order, k>> \notin HeldUnits(p)
         \/ /\ SetPaid(w)
            /\ stock'[p] = stock[p]
            /\ HeldUnits(p)' = HeldUnits(p) \cup UnitsOf(req[w].order, lineItems[req[w].order][p])
         \/ /\ SetCanceled(w)
            /\ stock'[p] = stock[p] + lineItems[req[w].order][p]
            /\ HeldUnits(p)' \subseteq HeldUnits(p)
            /\ HeldUnits(p) \subseteq
                 HeldUnits(p)' \cup UnitsOf(req[w].order, lineItems[req[w].order][p])
            /\ UnitsOf(req[w].order, lineItems[req[w].order][p]) \cap HeldUnits(p)' = {}
<1> DEFINE o == req[w].order
<1>0. /\ stock \in [Products -> Nat]
      /\ paymentState \in [Orders -> PaymentStates \cup {"none"}]
      /\ lineItems \in [Orders -> [Products -> Nat]]
      /\ req[w] \in Request
      /\ pc[w] # "idle" => o \in Orders
  BY DEF TypeInv, TypeOK, RequestOK
<1>1. CASE PersistOrder(w)
  <2>1. o \in Orders /\ o \notin Holding /\ req[w].cart \in [Products -> Nat]
    BY <1>0, <1>1 DEF PersistOrder, CheckoutAlone, Holding, Placed, Request
  <2>2. CASE UNCHANGED <<stock, orderVars>>
    BY <2>2 DEF orderVars, HeldUnits, Holding
  <2>3. CASE /\ StockSuffices(req[w].cart)
             /\ stock' = [q \in Products |-> stock[q] - req[w].cart[q]]
             /\ paymentState' = [paymentState EXCEPT ![o] = "open"]
             /\ lineItems' = [lineItems EXCEPT ![o] = req[w].cart]
    <3> DEFINE n == req[w].cart[p]
    <3>1. n \in Nat /\ n <= stock[p] /\ stock'[p] = stock[p] - n
      BY <2>1, <2>3 DEF StockSuffices
    <3>2. /\ Holding' = Holding \cup {o}
          /\ lineItems'[o][p] = n
          /\ \A x \in Holding : x # o /\ lineItems'[x] = lineItems[x]
      BY <1>0, <2>1, <2>3 DEF Holding
    <3>3. HeldUnits(p)' = HeldUnits(p) \cup UnitsOf(o, n)
      BY <3>2 DEF HeldUnits, UnitsOf
    <3>4. \A k : <<o, k>> \notin HeldUnits(p)
      BY <2>1, UnitsBearID
    <3> QED
      BY <1>1, <3>1, <3>3, <3>4
  <2> QED
    BY <1>1, <2>2, <2>3 DEF PersistOrder
<1>2. CASE SetPaid(w)
  <2>1. stock' = stock /\ lineItems' = lineItems /\ o \in Orders
        /\ paymentState' = [paymentState EXCEPT ![o] = "paid"]
    BY <1>0, <1>2 DEF SetPaid, shopVars
  <2>2. Holding' = Holding \cup {o}
    BY <1>0, <2>1 DEF Holding
  <2> QED
    BY <1>2, <2>1, <2>2 DEF HeldUnits, UnitsOf
<1>3. CASE SetCanceled(w)
  <2>1. /\ stock'[p] = stock[p] + lineItems[o][p] /\ lineItems' = lineItems /\ o \in Orders
        /\ paymentState' = [paymentState EXCEPT ![o] = CanceledState(req[w].seen)]
    BY <1>0, <1>3 DEF SetCanceled, Restocked
  <2>2. Holding' = Holding \ {o}
    BY <1>0, <2>1 DEF Holding, CanceledState
  <2>3. /\ HeldUnits(p)' \subseteq HeldUnits(p)
        /\ HeldUnits(p) \subseteq HeldUnits(p)' \cup UnitsOf(o, lineItems[o][p])
    BY <2>1, <2>2 DEF HeldUnits, UnitsOf
  <2>4. UnitsOf(o, lineItems[o][p]) \cap HeldUnits(p)' = {}
    BY <2>2 DEF HeldUnits, UnitsOf
  <2> QED
    BY <1>3, <2>1, <2>3, <2>4
<1>4. CASE UNCHANGED <<paymentState, lineItems, stock>>
  BY <1>4 DEF HeldUnits, Holding
<1> QED
  BY <1>1, <1>2, <1>3, <1>4, LifeChange

(* Whatever overlaps, a step loses no stock. *)
LEMMA StockKept ==
  ASSUME TypeInv, TypeInv', CheckoutAlone, StockInv, [HistoryNext]_hvars
  PROVE  StockInv'
<1> SUFFICES ASSUME NEW p \in Products
             PROVE  /\ IsFiniteSet(HeldUnits(p)')
                    /\ stock'[p] + Cardinality(HeldUnits(p)') >= InitialStock[p]
  BY DEF StockInv, Reserved
<1>0. /\ IsFiniteSet(HeldUnits(p)) /\ Cardinality(HeldUnits(p)) \in Nat
      /\ stock[p] + Cardinality(HeldUnits(p)) >= InitialStock[p]
      /\ stock[p] \in Nat /\ stock'[p] \in Nat /\ InitialStock[p] \in Nat
  BY FS_CardinalityType, ConstantsAssumption DEF StockInv, Reserved, TypeInv, TypeOK
<1>1. CASE UNCHANGED hvars
  BY <1>0, <1>1 DEF hvars, vars, shopVars, orderVars, HeldUnits, Holding
<1>2. CASE HistoryNext
  <2>1. PICK w \in Workers : WorkerStep(w)
    BY <1>2 DEF HistoryNext, WorkerStep
  <2> DEFINE o == req[w].order
  <2>2. CASE stock'[p] = stock[p] /\ HeldUnits(p)' = HeldUnits(p)
    BY <1>0, <2>2
  <2>3. ASSUME NEW n \in Nat, n <= stock[p], stock'[p] = stock[p] - n,
               HeldUnits(p)' = HeldUnits(p) \cup UnitsOf(o, n),
               \A k : <<o, k>> \notin HeldUnits(p)
        PROVE  /\ IsFiniteSet(HeldUnits(p)')
               /\ stock'[p] + Cardinality(HeldUnits(p)') >= InitialStock[p]
    <3>1. /\ IsFiniteSet(HeldUnits(p)')
          /\ Cardinality(HeldUnits(p)') = Cardinality(HeldUnits(p)) + n
      BY <1>0, <2>3, OrderJoins
    <3> QED
      BY <1>0, <2>3, <3>1
  <2>4. CASE /\ SetPaid(w) /\ stock'[p] = stock[p]
             /\ HeldUnits(p)' = HeldUnits(p) \cup UnitsOf(o, lineItems[o][p])
    <3>1. lineItems[o][p] \in Nat
      BY <2>4 DEF TypeInv, TypeOK, RequestOK, SetPaid
    <3>2. IsFiniteSet(HeldUnits(p)')
      <4>1. IsFiniteSet(UnitsOf(o, lineItems[o][p]))
        BY <3>1, UnitsCounted
      <4>2. IsFiniteSet(HeldUnits(p) \cup UnitsOf(o, lineItems[o][p]))
        BY <1>0, <4>1, FS_Union
      <4> QED
        BY <2>4, <4>2
    <3>3. Cardinality(HeldUnits(p)') >= Cardinality(HeldUnits(p))
      BY <2>4, <3>2, FS_Subset
    <3>4. Cardinality(HeldUnits(p)') \in Nat
      BY <3>2, FS_CardinalityType
    <3> QED
      BY <1>0, <2>4, <3>2, <3>3, <3>4
  <2>5. CASE /\ SetCanceled(w) /\ stock'[p] = stock[p] + lineItems[o][p]
             /\ HeldUnits(p)' \subseteq HeldUnits(p)
             /\ HeldUnits(p) \subseteq HeldUnits(p)' \cup UnitsOf(o, lineItems[o][p])
    <3>1. lineItems[o][p] \in Nat
      BY <2>5 DEF TypeInv, TypeOK, RequestOK, SetCanceled
    <3> DEFINE H == HeldUnits(p)
               H1 == HeldUnits(p)'
               n == lineItems[o][p]
    <3>2. IsFiniteSet(H1) /\ Cardinality(H1) + n >= Cardinality(H)
      <4>1. n \in Nat /\ IsFiniteSet(H) /\ H1 \subseteq H /\ H \subseteq H1 \cup UnitsOf(o, n)
        BY <1>0, <2>5, <3>1
      <4> HIDE DEF H, H1, n, o
      <4> QED
        BY <4>1, OrderLeaves
    <3>3. Cardinality(HeldUnits(p)') \in Nat
      BY <3>2, FS_CardinalityType
    <3> QED
      BY <1>0, <2>5, <3>1, <3>2, <3>3
  <2> QED
    BY <2>1, <2>2, <2>3, <2>4, <2>5, StockStep
<1> QED
  BY <1>1, <1>2

(* As long as no two requests for one order overlap, none is brought back  *)
(* twice: the order that is canceled still holds its units, and the one    *)
(* that is paid has held them since it was placed.                         *)
LEMMA ExactKept ==
  ASSUME HistoryInv, HistoryInv', CheckoutAlone, StockInv, ExactInv, [HistoryNext]_hvars
  PROVE  ExactInv'
<1> SUFFICES ASSUME contended' = {}, NEW p \in Products
             PROVE  stock'[p] + Cardinality(HeldUnits(p)') <= InitialStock[p]
  BY DEF ExactInv, Reserved
<1>0. contended = {} /\ TypeInv /\ TypeInv'
  BY DEF hvars, historyVars, HistoryNext, HistoryInv
<1>1. /\ IsFiniteSet(HeldUnits(p)) /\ Cardinality(HeldUnits(p)) \in Nat
      /\ stock[p] + Cardinality(HeldUnits(p)) <= InitialStock[p]
      /\ stock[p] \in Nat /\ stock'[p] \in Nat /\ InitialStock[p] \in Nat
  BY <1>0, FS_CardinalityType, ConstantsAssumption
  DEF StockInv, ExactInv, Reserved, TypeInv, TypeOK
<1>2. CASE UNCHANGED hvars
  BY <1>1, <1>2 DEF hvars, vars, shopVars, orderVars, HeldUnits, Holding
<1>3. CASE HistoryNext
  <2>1. PICK w \in Workers : WorkerStep(w)
    BY <1>3 DEF HistoryNext, WorkerStep
  <2> DEFINE o == req[w].order
  <2>2. SeenIsStored(w)
    BY <1>0 DEF HistoryInv, SeenInv
  <2>3. CASE stock'[p] = stock[p] /\ HeldUnits(p)' = HeldUnits(p)
    BY <1>1, <2>3
  <2>4. ASSUME NEW n \in Nat, n <= stock[p], stock'[p] = stock[p] - n,
               HeldUnits(p)' = HeldUnits(p) \cup UnitsOf(o, n),
               \A k : <<o, k>> \notin HeldUnits(p)
        PROVE  stock'[p] + Cardinality(HeldUnits(p)') <= InitialStock[p]
    <3>1. Cardinality(HeldUnits(p)') = Cardinality(HeldUnits(p)) + n
      BY <1>1, <2>4, OrderJoins
    <3> QED
      BY <1>1, <2>4, <3>1
  <2>5. ASSUME SetPaid(w) \/ SetCanceled(w)
        PROVE  /\ UnitsOf(o, lineItems[o][p]) \subseteq HeldUnits(p)
               /\ lineItems[o][p] \in Nat
    <3>1. o \in Orders
      BY <1>0, <2>5 DEF TypeInv, RequestOK, SetPaid, SetCanceled
    <3>2. paymentState[o] \in {"open", "paid"}
      BY <2>2, <2>5 DEF SeenIsStored, LoadedSteps, SetPaid, SetCanceled
    <3>3. o \in Holding
      BY <3>1, <3>2 DEF Holding
    <3> QED
      BY <1>0, <3>1, <3>3 DEF HeldUnits, UnitsOf, TypeInv, TypeOK
  <2>6. CASE /\ SetPaid(w) /\ stock'[p] = stock[p]
             /\ HeldUnits(p)' = HeldUnits(p) \cup UnitsOf(o, lineItems[o][p])
    <3>1. HeldUnits(p)' = HeldUnits(p)
      BY <2>5, <2>6
    <3> QED
      BY <1>1, <2>6, <3>1
  <2>7. CASE /\ SetCanceled(w) /\ stock'[p] = stock[p] + lineItems[o][p]
             /\ HeldUnits(p)' \subseteq HeldUnits(p)
             /\ HeldUnits(p) \subseteq HeldUnits(p)' \cup UnitsOf(o, lineItems[o][p])
             /\ UnitsOf(o, lineItems[o][p]) \cap HeldUnits(p)' = {}
    <3> DEFINE H == HeldUnits(p)
               H1 == HeldUnits(p)'
               n == lineItems[o][p]
    <3>1. IsFiniteSet(H1) /\ Cardinality(H1) + n = Cardinality(H)
      <4>1. /\ n \in Nat /\ IsFiniteSet(H) /\ H1 \subseteq H /\ H \subseteq H1 \cup UnitsOf(o, n)
            /\ UnitsOf(o, n) \subseteq H /\ UnitsOf(o, n) \cap H1 = {}
        BY <1>1, <2>5, <2>7
      <4> HIDE DEF H, H1, n, o
      <4> QED
        BY <4>1, OrderLeaves
    <3>2. Cardinality(HeldUnits(p)') \in Nat
      BY <3>1, FS_CardinalityType
    <3> QED
      BY <1>1, <2>5, <2>7, <3>1, <3>2
  <2> QED
    BY <1>0, <2>1, <2>3, <2>4, <2>6, <2>7, StockStep
<1> QED
  BY <1>2, <1>3

(* All stock is on sale at the start. *)
LEMMA StockInit == HistoryInit => StockInv /\ ExactInv
<1> SUFFICES ASSUME HistoryInit, NEW p \in Products
             PROVE  HeldUnits(p) = {} /\ stock[p] = InitialStock[p] /\ InitialStock[p] \in Nat
  BY FS_EmptySet DEF StockInv, ExactInv, Reserved
<1>1. Holding = {}
  BY DEF HistoryInit, Init, Holding
<1> QED
  BY <1>1, ConstantsAssumption DEF HistoryInit, Init, HeldUnits

\* What is in stock and what open and paid orders hold together never falls
\* below what was put on sale (place_order and cancel_order change the state
\* and the stock in one transaction each), whichever requests overlap or die,
\* and however late a payment comes.
THEOREM StockNeverLost == HistorySpec => []NoStockLost
<1>1. NumberInv /\ StockInv /\ [HistoryNext]_hvars => NumberInv' /\ StockInv'
  BY NumberNext, StockKept DEF NumberInv
<1>2. StockInv => NoStockLost
  BY DEF StockInv, NoStockLost
<1> QED
  BY <1>1, <1>2, NumberInit, StockInit, PTL DEF HistorySpec, hvars

\* As long as no two requests for one order overlap, the stock is exact: the
\* quantities of a canceled order are available again, and once only.
THEOREM StockStaysExact == HistorySpec => []StockExact
<1> DEFINE Inv == NumberInv /\ HistoryInv /\ StockInv /\ ExactInv
<1>1. Inv /\ [HistoryNext]_hvars => Inv'
  <2> SUFFICES ASSUME Inv, [HistoryNext]_hvars PROVE Inv'
    OBVIOUS
  <2>1. NumberInv' /\ HistoryInv'
    BY NumberNext, HistoryNextInv
  <2>2. StockInv'
    BY <2>1, StockKept DEF NumberInv
  <2>3. ExactInv'
    BY <2>1, ExactKept DEF NumberInv
  <2> QED
    BY <2>1, <2>2, <2>3
<1>2. Inv => StockExact
  <2> SUFFICES ASSUME Inv, contended = {}, NEW p \in Products
               PROVE  stock[p] + Reserved(p) = InitialStock[p]
    BY DEF StockExact
  <2>1. Reserved(p) \in Nat
    BY FS_CardinalityType DEF StockInv, Reserved
  <2>2. stock[p] \in Nat /\ InitialStock[p] \in Nat
    BY ConstantsAssumption DEF NumberInv, TypeInv, TypeOK
  <2>3. /\ stock[p] + Reserved(p) >= InitialStock[p]
        /\ stock[p] + Reserved(p) <= InitialStock[p]
    BY DEF StockInv, ExactInv
  <2> QED
    BY <2>1, <2>2, <2>3
<1>3. HistoryInit => Inv
  BY NumberInit, HistoryInitInv, StockInit
<1> QED
  BY <1>1, <1>2, <1>3, PTL DEF HistorySpec, hvars

=============================================================================
