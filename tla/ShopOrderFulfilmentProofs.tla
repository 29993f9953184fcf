---------------------- MODULE ShopOrderFulfilmentProofs ----------------------
(***************************************************************************)
(* Theorems about what is issued, recorded and revoked for an order.  The  *)
(* argument counts: a payment pledges a set of items, the request that     *)
(* made the payment redeems its pledge one transaction at a time, and what *)
(* is issued and what is still pledged together never exceed what was      *)
(* paid.  For an order whose requests do not overlap there is one pledge   *)
(* at most, so that what is issued follows from how far its one request    *)
(* has come.                                                               *)
(***************************************************************************)
EXTENDS ShopOrderProofs

-----------------------------------------------------------------------------
(* Items and the requests that issue and revoke them *)

\* An item is issued once, for a line item with an action procedure; what is
\* recorded with a line item was issued for it, and only issued items are
\* revoked.
ItemInv ==
  /\ \A o \in Orders, p \in Products : IsFiniteSet(IssuedFor(o, p))
  /\ \A i, j \in issued : i.id = j.id => i = j
  /\ \A i \in issued : Kind[i.product] # "plain"
  /\ RecordedAreIssued

\* What a request says of the line item it is at and of those it has left.
WorkOK(w) ==
  LET r == req[w]
  IN  /\ pc[w] \in {"add_payment", "set_paid", "reread_paid", "set_canceled",
                    "reread_canceled"} => r.line = None /\ r.made = {}
      /\ pc[w] \in {"fulfil", "record", "revoke"} =>
           /\ r.todo \subseteq Actionable(r.order)
           /\ r.line \in r.todo \cup {None}
           /\ r.line = None => r.made = {}
      /\ pc[w] \in {"fulfil", "record"} /\ r.line # None =>
           r.made \subseteq IssuedFor(r.order, r.line)
      /\ pc[w] = "fulfil" /\ r.line # None =>
           Cardinality(r.made) < lineItems[r.order][r.line]
      /\ pc[w] = "record" => Cardinality(r.made) = lineItems[r.order][r.line]
      /\ pc[w] = "revoke" =>
           /\ r.made \subseteq revoked
           /\ \A p \in Products : r.recorded[p] \subseteq IssuedFor(r.order, p)

FulfilmentInv == NumberInv /\ ItemInv /\ \A w \in Workers : WorkOK(w)

(* The items and payments are changed by the steps named for it. *)
LEMMA ItemChange ==
  ASSUME NEW w \in Workers, WorkerStep(w)
  PROVE  /\ issued' # issued => \E p \in Products : CreateTickets(w, p) \/ CreateBundle(w, p)
         /\ revoked' # revoked => \E p \in Products : RevokeTickets(w, p) \/ RevokeBundle(w, p)
         /\ processingResult' # processingResult => UpdateProcessingResult(w)
         /\ payments' # payments => AddPayment(w)
         /\ placedBy' # placedBy => PersistOrder(w) \/ SetOrderer(w)
<1>1. CASE Begin(w) \/ RefuseCapture(w) \/ Crash(w)
  BY <1>1
  DEF Begin, SubmitCart, FindOpenOrder, LoadOrderToPay, LoadOrderToUpdate,
      LoadOrderToCancel, RefuseCapture, Crash, orderVars, itemVars
<1>2. CASE Continue(w)
  BY <1>2
  DEF Continue, GenerateOrderNumber, LoadOrderToPay, AddPayment, PersistOrder, SetPaid,
      RereadPaidOrder, CreateTickets, CreateBundle, UpdateProcessingResult,
      ReadPayments, SetOrderer, SetCanceled, RereadCanceledOrder, RevokeNothingRecorded,
      RevokeTickets, RevokeBundle, orderVars, itemVars
<1> QED
  BY <1>1, <1>2 DEF WorkerStep, Serve

(* Once an order is placed its line items are fixed. *)
LEMMA LinesFixed ==
  ASSUME NumberInv, NEW w \in Workers, WorkerStep(w)
  PROVE  \A o \in Placed : o \in Placed' /\ lineItems'[o] = lineItems[o]
<1>1. CASE PersistOrder(w)
  <2>1. req[w].order \notin Placed
    BY <1>1 DEF PersistOrder, NumberInv, CheckoutAlone
  <2>2. CASE UNCHANGED orderVars
    BY <2>2 DEF orderVars, Placed
  <2>3. CASE ~UNCHANGED orderVars
    BY <1>1, <2>1, <2>3, PersistStep DEF NumberInv, Placed
  <2> QED
    BY <2>2, <2>3
<1>2. CASE GenerateOrderNumber(w)
  BY <1>2, GenerateStep DEF NumberInv, orderVars
<1>3. CASE ~GenerateOrderNumber(w) /\ ~PersistOrder(w)
  BY <1>3, OtherSteps DEF NumberInv
<1> QED
  BY <1>1, <1>2, <1>3

(* What it means to issue items: the IDs are new, and they go to the line  *)
(* item the request is at.                                                 *)
LEMMA IssueStep ==
  ASSUME FulfilmentInv, NEW w \in Workers, NEW p \in Products,
         CreateTickets(w, p) \/ CreateBundle(w, p)
  PROVE  \E ids \in SUBSET (Items \ UsedIds) :
           /\ IsFiniteSet(ids)
           /\ Issue(w, p, ids)
           /\ pc[w] = "fulfil" /\ pc'[w] \in {"fulfil", "record"}
           /\ p \in req[w].todo /\ req[w].line \in {None, p}
           /\ req'[w] = [req[w] EXCEPT !.line = p, !.made = req[w].made \cup ids]
           /\ \/ /\ req[w].line = None /\ pc'[w] = "record"
                 /\ Cardinality(ids) = lineItems[req[w].order][p]
              \/ /\ Cardinality(ids) = 1
                 /\ pc'[w] = "record" <=>
                      Cardinality(req'[w].made) = lineItems[req[w].order][p]
           /\ UNCHANGED <<orderVars, payments, processingResult, revoked>>
<1>0. /\ pc \in [Workers -> Steps] /\ req \in [Workers -> Request]
      /\ req[w] \in Request
      /\ pc[w] = "fulfil" /\ req[w].line = None => req[w].made = {}
  BY DEF FulfilmentInv, NumberInv, TypeInv, TypeOK, WorkOK
<1>1. CASE CreateTickets(w, p)
  <2> DEFINE new == Fresh(lineItems[req[w].order][p])
             ids == CHOOSE ids \in new : TRUE
  <2>1. new # {} /\ ids \in new /\ Issue(w, p, ids)
        /\ req' = [req EXCEPT ![w].line = p, ![w].made = ids]
    BY <1>1 DEF CreateTickets
  <2>2. ids \in SUBSET (Items \ UsedIds) /\ IsFiniteSet(ids)
        /\ Cardinality(ids) = lineItems[req[w].order][p]
    BY <2>1 DEF Fresh
  <2>3. /\ pc[w] = "fulfil" /\ pc'[w] = "record" /\ p \in req[w].todo /\ req[w].line = None
        /\ UNCHANGED <<orderVars, payments, processingResult, revoked>>
    BY <1>0, <1>1 DEF CreateTickets, Proceed
  <2>4. req'[w] = [req[w] EXCEPT !.line = p, !.made = req[w].made \cup ids]
    <3> HIDE DEF ids
    <3>1. req[w].made \cup ids = ids
      BY <1>0, <2>3
    <3> QED
      BY <1>0, <2>1, <3>1
  <2> HIDE DEF ids
  <2> QED
    BY <2>1, <2>2, <2>3, <2>4
<1>2. CASE CreateBundle(w, p)
  <2> DEFINE ids == CHOOSE ids \in Fresh(1) : TRUE
  <2>1. /\ Fresh(1) # {} /\ ids \in Fresh(1) /\ Issue(w, p, ids)
        /\ req' = [req EXCEPT ![w].line = p, ![w].made = @ \cup ids]
    BY <1>2 DEF CreateBundle
  <2>2. ids \in SUBSET (Items \ UsedIds) /\ IsFiniteSet(ids) /\ Cardinality(ids) = 1
    BY <2>1 DEF Fresh
  <2>3. /\ pc[w] = "fulfil" /\ p \in req[w].todo /\ req[w].line \in {None, p}
        /\ UNCHANGED <<orderVars, payments, processingResult, revoked>>
    BY <1>2 DEF CreateBundle
  <2>4. /\ pc'[w] \in {"fulfil", "record"}
        /\ pc'[w] = "record" <=> Cardinality(req'[w].made) = lineItems[req[w].order][p]
    BY <1>0, <1>2 DEF CreateBundle, Proceed
  <2>5. req'[w] = [req[w] EXCEPT !.line = p, !.made = req[w].made \cup ids]
    <3> HIDE DEF ids
    <3> QED
      BY <1>0, <2>1
  <2> HIDE DEF ids
  <2> QED
    BY <2>1, <2>2, <2>3, <2>4, <2>5
<1> QED
  BY <1>1, <1>2

(* The new items join those of the line item, and of no other. *)
LEMMA IssuedGrows ==
  ASSUME NEW w \in Workers, NEW o, o = req[w].order, NEW p, NEW ids,
         ids \cap UsedIds = {}, Issue(w, p, ids)
  PROVE  /\ IssuedFor(o, p)' = IssuedFor(o, p) \cup ids
         /\ IssuedFor(o, p) \cap ids = {}
         /\ \A x \in Orders, q \in Products :
              x # o \/ q # p => IssuedFor(x, q)' = IssuedFor(x, q)
         /\ UsedIds' = UsedIds \cup ids
<1> DEFINE new == [id : ids, order : {req[w].order}, product : {p}, owner : {req[w].user}]
<1>1. issued' = issued \cup new
  BY DEF Issue
<1>2. \A i \in new : i.id \in ids /\ i.order = req[w].order /\ i.product = p
  OBVIOUS
<1>3. \A k \in ids : \E i \in new : i.id = k
  <2> SUFFICES ASSUME NEW k \in ids PROVE \E i \in new : i.id = k
    OBVIOUS
  <2> DEFINE i == [id |-> k, order |-> req[w].order, product |-> p, owner |-> req[w].user]
  <2>1. i \in new /\ i.id = k
    OBVIOUS
  <2> QED
    BY <2>1
<1> HIDE DEF new
<1>4. UsedIds' = UsedIds \cup ids
  BY <1>1, <1>2, <1>3 DEF UsedIds
<1>5. \A x, q, k : k \in IssuedFor(x, q)' <=>
                  \/ k \in IssuedFor(x, q)
                  \/ k \in ids /\ x = o /\ q = p
  BY <1>1, <1>2, <1>3 DEF IssuedFor
<1>6. IssuedFor(o, p) \subseteq UsedIds
  BY DEF IssuedFor, UsedIds
<1>7. IssuedFor(o, p)' = IssuedFor(o, p) \cup ids
  BY <1>5
<1>8. ASSUME NEW x \in Orders, NEW q \in Products, x # o \/ q # p
      PROVE  IssuedFor(x, q)' = IssuedFor(x, q)
  <2>1. \A k : k \in IssuedFor(x, q)' <=> k \in IssuedFor(x, q)
    BY <1>5, <1>8
  <2> QED
    BY <2>1
<1> QED
  BY <1>4, <1>6, <1>7, <1>8

(* Items are never deleted, and never valid again once revoked. *)
LEMMA ItemsGrow ==
  ASSUME FulfilmentInv, NEW w \in Workers, WorkerStep(w)
  PROVE  /\ \A o \in Orders, p \in Products : IssuedFor(o, p) \subseteq IssuedFor(o, p)'
         /\ UsedIds \subseteq UsedIds' /\ revoked \subseteq revoked'
<1>1. issued \subseteq issued'
  <2>1. CASE issued' = issued
    BY <2>1
  <2>2. CASE \E p \in Products : CreateTickets(w, p) \/ CreateBundle(w, p)
    BY <2>2, IssueStep DEF Issue
  <2> QED
    BY <2>1, <2>2, ItemChange
<1>2. revoked \subseteq revoked'
  BY ItemChange DEF RevokeTickets, RevokeBundle
<1> QED
  BY <1>1, <1>2 DEF IssuedFor, UsedIds

(* Every step keeps what is said of items. *)
LEMMA ItemNext ==
  ASSUME FulfilmentInv, NEW w \in Workers, WorkerStep(w)
  PROVE  ItemInv'
<1>0. /\ processingResult \in [Orders -> [Products -> SUBSET Items]]
      /\ req[w] \in Request
      /\ pc[w] # "idle" => req[w].order \in Orders
      /\ ItemInv /\ WorkOK(w)
      /\ None \notin Products
  BY ConstantsAssumption DEF FulfilmentInv, NumberInv, TypeInv, TypeOK, RequestOK
<1>1. CASE \E p \in Products : CreateTickets(w, p) \/ CreateBundle(w, p)
  <2>1. PICK p \in Products : CreateTickets(w, p) \/ CreateBundle(w, p)
    BY <1>1
  <2>2. PICK ids \in SUBSET (Items \ UsedIds) :
           /\ IsFiniteSet(ids) /\ Issue(w, p, ids)
           /\ pc[w] = "fulfil" /\ p \in req[w].todo
           /\ UNCHANGED <<processingResult, revoked>>
    BY <2>1, IssueStep
  <2>3. PICK o \in Orders : o = req[w].order
    BY <1>0, <2>2
  <2>4. /\ IssuedFor(o, p)' = IssuedFor(o, p) \cup ids
        /\ \A x \in Orders, q \in Products :
             x # o \/ q # p => IssuedFor(x, q)' = IssuedFor(x, q)
        /\ UsedIds' = UsedIds \cup ids
    BY <2>2, <2>3, IssuedGrows
  <2>5. \A x \in Orders, q \in Products : IsFiniteSet(IssuedFor(x, q)')
    <3>1. IsFiniteSet(IssuedFor(o, p) \cup ids)
      BY <1>0, <2>2, FS_Union DEF ItemInv
    <3> QED
      BY <1>0, <2>4, <3>1 DEF ItemInv
  <2>6. Kind[p] # "plain"
    BY <1>0, <2>2 DEF WorkOK, Actionable
  <2>7. \A i, j \in issued' : i.id = j.id => i = j
    <3>1. \A i \in issued : i.id \notin ids
      BY <2>2 DEF UsedIds
    <3> QED
      BY <1>0, <2>2, <3>1 DEF Issue, ItemInv
  <2>8. \A i \in issued' : Kind[i.product] # "plain"
    BY <1>0, <2>2, <2>6 DEF Issue, ItemInv
  <2>9. RecordedAreIssued'
    BY <1>0, <2>2, <2>4 DEF ItemInv, RecordedAreIssued
  <2> QED
    BY <2>5, <2>7, <2>8, <2>9 DEF ItemInv
<1>2. CASE issued' = issued
  <2>1. UsedIds' = UsedIds /\ \A o, p : IssuedFor(o, p)' = IssuedFor(o, p)
    BY <1>2 DEF UsedIds, IssuedFor
  <2>2. revoked' \subseteq UsedIds
    <3>1. CASE revoked' = revoked
      BY <1>0, <3>1 DEF ItemInv, RecordedAreIssued
    <3>2. ASSUME NEW p \in Products, RevokeTickets(w, p) \/ RevokeBundle(w, p)
          PROVE  revoked' \subseteq UsedIds
      <4>1. revoked' \subseteq revoked \cup req[w].recorded[p] /\ pc[w] = "revoke"
        BY <3>2 DEF RevokeTickets, RevokeBundle
      <4>2. req[w].recorded[p] \subseteq UsedIds
        BY <1>0, <4>1 DEF WorkOK, IssuedFor, UsedIds
      <4> QED
        BY <1>0, <4>1, <4>2 DEF ItemInv, RecordedAreIssued
    <3> QED
      BY <3>1, <3>2, ItemChange
  <2>3. ASSUME NEW o \in Orders, NEW p \in Products
        PROVE  processingResult'[o][p] \subseteq IssuedFor(o, p)
    <3>1. CASE processingResult' = processingResult
      BY <1>0, <3>1 DEF ItemInv, RecordedAreIssued
    <3>2. CASE UpdateProcessingResult(w)
      <4>1. /\ pc[w] = "record"
            /\ processingResult' = [processingResult EXCEPT ![req[w].order] =
                 [processingResult[req[w].order] EXCEPT ![req[w].line] = req[w].made]]
        BY <3>2 DEF UpdateProcessingResult, ResultOf
      <4>2. req[w].line \in Products
        BY <4>1 DEF FulfilmentInv, NumberInv, TypeInv, RequestOK
      <4>3. req[w].made \subseteq IssuedFor(req[w].order, req[w].line)
        BY <1>0, <4>1, <4>2 DEF WorkOK
      <4> QED
        BY <1>0, <4>1, <4>2, <4>3 DEF ItemInv, RecordedAreIssued
    <3> QED
      BY <3>1, <3>2, ItemChange
  <2> QED
    BY <1>0, <1>2, <2>1, <2>2, <2>3 DEF ItemInv, RecordedAreIssued
<1> QED
  BY <1>1, <1>2, ItemChange

(* A request goes on knowing what it knew of the items, and the others do. *)
LEMMA WorkKept ==
  ASSUME FulfilmentInv, NEW w \in Workers, WorkerStep(w), NEW v \in Workers \ {w}
  PROVE  WorkOK(v)'
<1>1. pc'[v] = pc[v] /\ req'[v] = req[v]
  BY StepIsLocal DEF FulfilmentInv, NumberInv
<1>2. CASE pc[v] \in {"fulfil", "record", "revoke"}
  <2>1. PICK o \in Placed : o = req[v].order
    BY <1>2 DEF FulfilmentInv, NumberInv, TypeInv, RequestOK, PlacedSteps, Steps
  <2>2. lineItems'[o] = lineItems[o] /\ Actionable(o)' = Actionable(o)
    BY <2>1, LinesFixed DEF FulfilmentInv, Actionable
  <2>3. /\ \A p \in Products : IssuedFor(o, p) \subseteq IssuedFor(o, p)'
        /\ revoked \subseteq revoked'
    BY <2>1, ItemsGrow DEF Placed
  <2>4. req[v].line \in Products \cup {None}
    BY DEF FulfilmentInv, NumberInv, TypeInv, TypeOK, Request
  <2>5. WorkOK(v)
    BY DEF FulfilmentInv
  <2> QED
    BY <1>1, <2>1, <2>2, <2>3, <2>4, <2>5 DEF WorkOK
<1>3. CASE pc[v] \notin {"fulfil", "record", "revoke"}
  BY <1>1, <1>3 DEF FulfilmentInv, WorkOK
<1> QED
  BY <1>2, <1>3

(* So does the one that takes the step. *)
LEMMA WorkAdvances ==
  ASSUME FulfilmentInv, NEW w \in Workers, WorkerStep(w)
  PROVE  WorkOK(w)'
<1>0. /\ pc \in [Workers -> Steps] /\ req \in [Workers -> Request]
      /\ req[w] \in Request /\ None \notin Products
      /\ NumberInv /\ ItemInv /\ WorkOK(w)
  BY ConstantsAssumption DEF FulfilmentInv, NumberInv, TypeInv, TypeOK
<1>1. ASSUME pc'[w] \in {"idle", "number", "persist", "capture", "read_payments",
                         "set_orderer"}
      PROVE  WorkOK(w)'
  BY <1>1 DEF WorkOK
<1>2. ASSUME Finish(w) PROVE WorkOK(w)'
  BY <1>0, <1>1, <1>2 DEF Finish, Proceed
<1>3. CASE \/ \E o \in Orders : \/ \E u \in Users, cart \in Carts : SubmitCart(w, u, o, cart)
                                \/ FindOpenOrder(w, o)
                                \/ \E u \in Users : LoadOrderToUpdate(w, o, u)
           \/ GenerateOrderNumber(w) \/ PersistOrder(w) \/ ReadPayments(w) \/ SetOrderer(w)
           \/ RefuseCapture(w) \/ Crash(w)
  <2>1. pc'[w] \in {"idle", "number", "persist", "capture", "read_payments",
                    "set_orderer"}
    BY <1>0, <1>3
    DEF SubmitCart, FindOpenOrder, LoadOrderToUpdate, GenerateOrderNumber, PersistOrder,
        ReadPayments, SetOrderer, RefuseCapture, Crash, Finish, Proceed
  <2> QED
    BY <1>1, <2>1
<1>4. ASSUME NEW o \in Orders, LoadOrderToPay(w, o) \/ LoadOrderToCancel(w, o)
      PROVE  WorkOK(w)'
  <2>1. CASE Finish(w)
    BY <1>2, <2>1
  <2>2. CASE ~Finish(w)
    <3>1. /\ pc'[w] \in {"add_payment", "set_canceled"}
          /\ req'[w].line = None /\ req'[w].made = {}
      BY <1>0, <1>4, <2>2 DEF LoadOrderToPay, LoadOrderToCancel, Proceed, NoRequest
    <3> QED
      BY <3>1 DEF WorkOK
  <2> QED
    BY <2>1, <2>2
<1>5. CASE AddPayment(w) \/ SetPaid(w) \/ SetCanceled(w)
  <2>1. CASE Finish(w)
    BY <1>2, <2>1
  <2>2. CASE ~Finish(w)
    <3>1. /\ pc[w] \in {"add_payment", "set_paid", "set_canceled"}
          /\ pc'[w] \in {"set_paid", "reread_paid", "reread_canceled"}
          /\ req' = req
      BY <1>0, <1>5, <2>2 DEF AddPayment, SetPaid, SetCanceled, Proceed
    <3> QED
      BY <1>0, <3>1 DEF WorkOK
  <2> QED
    BY <2>1, <2>2
<1>6. CASE RereadPaidOrder(w) \/ RereadCanceledOrder(w)
  <2>1. CASE Finish(w)
    BY <1>2, <2>1
  <2>2. CASE ~Finish(w)
    <3>1. PICK o \in Orders : o = req[w].order
      BY <1>0, <1>6
      DEF RereadPaidOrder, RereadCanceledOrder, NumberInv, TypeInv, RequestOK
    <3>2. /\ pc[w] \in {"reread_paid", "reread_canceled"}
          /\ \/ /\ pc'[w] = "fulfil"
                /\ req' = [req EXCEPT ![w].todo = Actionable(o)]
             \/ /\ pc'[w] = "revoke"
                /\ req' = [req EXCEPT ![w].todo = Actionable(o),
                                      ![w].recorded = processingResult[o]]
          /\ UNCHANGED <<orderVars, itemVars>>
      BY <1>0, <1>6, <2>2, <3>1 DEF RereadPaidOrder, RereadCanceledOrder, Proceed
    <3>3. /\ req'[w].order = o /\ req'[w].todo = Actionable(o)
          /\ req'[w].line = req[w].line /\ req'[w].made = req[w].made
          /\ pc'[w] = "revoke" => req'[w].recorded = processingResult[o]
      BY <1>0, <3>1, <3>2 DEF Request
    <3>4. /\ Actionable(o)' = Actionable(o) /\ revoked' = revoked
          /\ \A p \in Products : IssuedFor(o, p)' = IssuedFor(o, p)
      BY <3>2 DEF Actionable, IssuedFor, orderVars, itemVars
    <3>5. req[w].line = None /\ req[w].made = {}
      BY <1>0, <3>2 DEF WorkOK
    <3>6. \A p \in Products : processingResult[o][p] \subseteq IssuedFor(o, p)
      BY <1>0 DEF ItemInv, RecordedAreIssued
    <3> QED
      BY <3>2, <3>3, <3>4, <3>5, <3>6 DEF WorkOK
  <2> QED
    BY <2>1, <2>2
<1>7. ASSUME NEW p \in Products, CreateTickets(w, p) \/ CreateBundle(w, p)
      PROVE  WorkOK(w)'
  <2>1. PICK ids \in SUBSET (Items \ UsedIds) :
           /\ IsFiniteSet(ids) /\ Issue(w, p, ids)
           /\ pc[w] = "fulfil" /\ pc'[w] \in {"fulfil", "record"}
           /\ p \in req[w].todo /\ req[w].line \in {None, p}
           /\ req'[w] = [req[w] EXCEPT !.line = p, !.made = req[w].made \cup ids]
           /\ \/ /\ req[w].line = None /\ pc'[w] = "record"
                 /\ Cardinality(ids) = lineItems[req[w].order][p]
              \/ /\ Cardinality(ids) = 1
                 /\ pc'[w] = "record" <=>
                      Cardinality(req'[w].made) = lineItems[req[w].order][p]
           /\ UNCHANGED <<orderVars, payments, processingResult, revoked>>
    BY <1>7, IssueStep
  <2>2. PICK o \in Orders : o = req[w].order
    BY <1>0, <2>1 DEF NumberInv, TypeInv, RequestOK
  <2>3. /\ IssuedFor(o, p)' = IssuedFor(o, p) \cup ids
        /\ IssuedFor(o, p) \cap ids = {}
    BY <2>1, <2>2, IssuedGrows
  <2>4. lineItems' = lineItems /\ Actionable(o)' = Actionable(o)
    BY <2>1 DEF orderVars, Actionable
  <2>5. /\ req'[w].order = o /\ req'[w].todo = req[w].todo /\ req'[w].line = p
        /\ req'[w].made = req[w].made \cup ids
    BY <1>0, <2>1, <2>2 DEF Request
  <2>6. /\ req[w].made \subseteq IssuedFor(o, p)
        /\ req[w].todo \subseteq Actionable(o)
        /\ req[w].line = p => Cardinality(req[w].made) < lineItems[o][p]
        /\ req[w].line = None => req[w].made = {}
    BY <1>0, <2>1, <2>2 DEF WorkOK
  <2>7. /\ Cardinality(req[w].made) \in Nat
        /\ Cardinality(req[w].made \cup ids) = Cardinality(req[w].made) + Cardinality(ids)
    <3>1. IsFiniteSet(req[w].made)
      BY <1>0, <2>6, FS_Subset DEF ItemInv
    <3>2. Cardinality(req[w].made \cup ids) =
            Cardinality(req[w].made) + Cardinality(ids) - Cardinality(req[w].made \cap ids)
      BY <2>1, <3>1, FS_Union
    <3>3. req[w].made \cap ids = {} /\ Cardinality({}) = 0
      BY <2>3, <2>6, FS_EmptySet
    <3>4. Cardinality(req[w].made) \in Nat /\ Cardinality(ids) \in Nat
      BY <2>1, <3>1, FS_CardinalityType
    <3>5. Cardinality(req[w].made \cap ids) = 0
      BY <3>3
    <3> QED
      BY <3>2, <3>4, <3>5
  <2>8. lineItems[o][p] \in Nat /\ lineItems[o][p] > 0
    BY <1>0, <2>1, <2>6 DEF NumberInv, TypeInv, TypeOK, Actionable
  <2>9. /\ pc'[w] = "record" => Cardinality(req'[w].made) = lineItems[o][p]
        /\ pc'[w] = "fulfil" => Cardinality(req'[w].made) < lineItems[o][p]
    <3>1. Cardinality({}) = 0
      BY FS_EmptySet
    <3>2. CASE /\ req[w].line = None /\ pc'[w] = "record"
               /\ Cardinality(ids) = lineItems[o][p]
      <4>1. Cardinality(req[w].made) = 0
        BY <2>6, <3>1, <3>2
      <4> QED
        BY <2>5, <2>7, <2>8, <3>2, <4>1
    <3>3. CASE /\ Cardinality(ids) = 1
               /\ pc'[w] = "record" <=> Cardinality(req'[w].made) = lineItems[o][p]
      <4>1. Cardinality(req[w].made) < lineItems[o][p]
        <5>1. CASE req[w].line = p
          BY <2>6, <5>1
        <5>2. CASE req[w].line = None
          <6>1. Cardinality(req[w].made) = 0
            BY <2>6, <3>1, <5>2
          <6> QED
            BY <2>8, <6>1
        <5> QED
          BY <2>1, <5>1, <5>2
      <4> QED
        BY <2>5, <2>7, <2>8, <3>3, <4>1
    <3> QED
      BY <2>1, <2>2, <3>2, <3>3
  <2>10. req'[w].made \subseteq IssuedFor(o, p)'
    BY <2>3, <2>5, <2>6
  <2> QED
    BY <1>0, <2>1, <2>4, <2>5, <2>6, <2>9, <2>10 DEF WorkOK
<1>8. CASE UpdateProcessingResult(w)
  <2>1. CASE Finish(w)
    BY <1>2, <2>1
  <2>2. CASE ~Finish(w)
    <3>1. PICK o \in Orders : o = req[w].order
      BY <1>0, <1>8 DEF UpdateProcessingResult, NumberInv, TypeInv, RequestOK
    <3>2. /\ pc[w] = "record" /\ pc'[w] = "fulfil" /\ lineItems' = lineItems
          /\ req' = [req EXCEPT ![w].todo = req[w].todo \ {req[w].line},
                                ![w].line = None, ![w].made = {}]
      BY <1>0, <1>8, <2>2 DEF UpdateProcessingResult, LinesLeft, Proceed, orderVars
    <3>3. /\ req'[w].order = o /\ req'[w].todo \subseteq req[w].todo
          /\ req'[w].line = None /\ req'[w].made = {}
      BY <1>0, <3>1, <3>2 DEF Request
    <3>4. Actionable(o)' = Actionable(o)
      BY <3>2 DEF Actionable
    <3> QED
      BY <1>0, <3>1, <3>2, <3>3, <3>4 DEF WorkOK
  <2> QED
    BY <2>1, <2>2
<1>9. ASSUME NEW p \in Products, \/ RevokeNothingRecorded(w, p)
                                 \/ RevokeTickets(w, p) \/ RevokeBundle(w, p)
      PROVE  WorkOK(w)'
  <2>1. CASE Finish(w)
    BY <1>2, <2>1
  <2>2. CASE ~Finish(w)
    <3>1. PICK o \in Orders : o = req[w].order
      BY <1>0, <1>9
      DEF RevokeNothingRecorded, RevokeTickets, RevokeBundle, NumberInv, TypeInv, RequestOK
    <3>2. /\ pc[w] = "revoke" /\ pc'[w] = "revoke" /\ p \in req[w].todo
          /\ lineItems' = lineItems /\ issued' = issued
          /\ revoked \subseteq revoked'
          /\ \/ req' = [req EXCEPT ![w].todo = req[w].todo \ {p}, ![w].line = None,
                                   ![w].made = {}]
             \/ \E b \in req[w].recorded[p] :
                  /\ req' = [req EXCEPT ![w].line = p, ![w].made = req[w].made \cup {b}]
                  /\ b \in revoked'
      BY <1>0, <1>9, <2>2
      DEF RevokeNothingRecorded, RevokeTickets, RevokeBundle, LineRevoked, orderVars
    <3>3. /\ Actionable(o)' = Actionable(o)
          /\ \A q \in Products : IssuedFor(o, q)' = IssuedFor(o, q)
      BY <3>2 DEF Actionable, IssuedFor
    <3>4. CASE req' = [req EXCEPT ![w].todo = req[w].todo \ {p}, ![w].line = None,
                                  ![w].made = {}]
      <4>1. /\ req'[w].order = o /\ req'[w].todo \subseteq req[w].todo
            /\ req'[w].line = None /\ req'[w].made = {}
            /\ req'[w].recorded = req[w].recorded
        BY <1>0, <3>1, <3>4 DEF Request
      <4> QED
        BY <1>0, <3>1, <3>2, <3>3, <4>1 DEF WorkOK
    <3>5. ASSUME NEW b \in req[w].recorded[p], b \in revoked',
                 req' = [req EXCEPT ![w].line = p, ![w].made = req[w].made \cup {b}]
          PROVE  WorkOK(w)'
      <4>1. /\ req'[w].order = o /\ req'[w].todo = req[w].todo
            /\ req'[w].line = p /\ req'[w].made = req[w].made \cup {b}
            /\ req'[w].recorded = req[w].recorded
        BY <1>0, <3>1, <3>5 DEF Request
      <4>2. /\ pc'[w] = "revoke" /\ p \in req[w].todo /\ p # None
            /\ req[w].made \cup {b} \subseteq revoked'
        BY <1>0, <3>2, <3>5 DEF WorkOK
      <4>3. /\ req[w].todo \subseteq Actionable(o)
            /\ \A q \in Products : req[w].recorded[q] \subseteq IssuedFor(o, q)
        BY <1>0, <3>1, <3>2 DEF WorkOK
      <4> QED
        BY <3>3, <4>1, <4>2, <4>3 DEF WorkOK
    <3> QED
      BY <3>2, <3>4, <3>5
  <2> QED
    BY <2>1, <2>2
<1> QED
  BY <1>3, <1>4, <1>5, <1>6, <1>7, <1>8, <1>9
  DEF WorkerStep, Serve, Begin, Continue

(* Every step keeps the invariant. *)
LEMMA FulfilmentNext == FulfilmentInv /\ [HistoryNext]_hvars => FulfilmentInv'
<1> SUFFICES ASSUME FulfilmentInv, [HistoryNext]_hvars
             PROVE  FulfilmentInv'
  OBVIOUS
<1>1. NumberInv'
  BY NumberNext DEF FulfilmentInv
<1>2. CASE UNCHANGED hvars
  <2>1. /\ UsedIds' = UsedIds /\ \A o, p : IssuedFor(o, p)' = IssuedFor(o, p)
        /\ \A o : Actionable(o)' = Actionable(o)
        /\ UNCHANGED <<pc, req, revoked, issued, processingResult, lineItems>>
    BY <1>2 DEF hvars, vars, itemVars, orderVars, UsedIds, IssuedFor, Actionable
  <2>2. ItemInv'
    BY <2>1 DEF FulfilmentInv, ItemInv, RecordedAreIssued
  <2>3. \A w \in Workers : WorkOK(w)'
    BY <2>1 DEF FulfilmentInv, WorkOK
  <2> QED
    BY <1>1, <2>2, <2>3 DEF FulfilmentInv
<1>3. CASE HistoryNext
  <2>1. PICK w \in Workers : WorkerStep(w)
    BY <1>3 DEF HistoryNext, WorkerStep
  <2>2. ItemInv' /\ WorkOK(w)' /\ \A v \in Workers \ {w} : WorkOK(v)'
    BY <2>1, ItemNext, WorkAdvances, WorkKept
  <2> QED
    BY <1>1, <2>2 DEF FulfilmentInv
<1> QED
  BY <1>2, <1>3

(* Nothing is issued at the start. *)
LEMMA FulfilmentInit == HistoryInit => FulfilmentInv
<1> SUFFICES ASSUME HistoryInit PROVE FulfilmentInv
  OBVIOUS
<1>1. \A o, p : IssuedFor(o, p) = {}
  BY DEF HistoryInit, Init, IssuedFor
<1>2. ItemInv
  BY <1>1, FS_EmptySet
  DEF HistoryInit, Init, ItemInv, RecordedAreIssued, NothingRecorded
<1>3. \A w \in Workers : WorkOK(w)
  BY DEF HistoryInit, Init, WorkOK
<1> QED
  BY <1>2, <1>3, NumberInit DEF FulfilmentInv

-----------------------------------------------------------------------------
(* Payments and what they pledge *)

\* Items of a line item that a request has issued already.
MadeOf(w, p) == IF req[w].line = p THEN Cardinality(req[w].made) ELSE 0

\* Items of a line item that a request which made a payment has yet to issue.
Due(w, p) ==
  IF \/ pc[w] \in {"set_paid", "reread_paid"}
     \/ pc[w] \in {"fulfil", "record"} /\ p \in req[w].todo
    THEN (MadeOf(w, p) + 1)..lineItems[req[w].order][p]
    ELSE {}

\* What is pledged to a line item by all requests for the order together.
Pledged(o, p) ==
  UNION {{w} \X Due(w, p) : w \in {v \in Workers : req[v].order = o}}

\* What is issued and what is pledged together is covered by payments.
PaymentInv ==
  /\ \A o \in Orders \ Placed : payments[o] = 0
  /\ \A o \in Orders, p \in Products :
       /\ IsFiniteSet(Pledged(o, p))
       /\ Cardinality(IssuedFor(o, p)) + Cardinality(Pledged(o, p))
            <= lineItems[o][p] * payments[o]

(* A pledge is a request and the number of an item it has yet to issue. *)
LEMMA PledgedBy ==
  ASSUME NEW o, NEW p
  PROVE  /\ \A x : x \in Pledged(o, p) <=>
              \E v \in Workers : req[v].order = o /\ \E k \in Due(v, p) : x = <<v, k>>
         /\ \A x : x \in Pledged(o, p)' <=>
              \E v \in Workers : req'[v].order = o /\ \E k \in Due(v, p)' : x = <<v, k>>
  BY DEF Pledged

(* A unit is an order or a request together with a number. *)
LEMMA UnitMembers ==
  ASSUME NEW o, NEW n
  PROVE  \A x : x \in UnitsOf(o, n) <=> \E k \in 1..n : x = <<o, k>>
  BY DEF UnitsOf

(* A request has nothing to issue before its payment and after its end. *)
LEMMA NothingDue ==
  ASSUME NEW w, NEW p, pc[w] \notin {"set_paid", "reread_paid", "fulfil", "record"}
  PROVE  Due(w, p) = {}
  BY DEF Due

(* A step leaves the pledges of the other requests alone. *)
LEMMA OthersPledge ==
  ASSUME FulfilmentInv, NEW w \in Workers, WorkerStep(w), NEW v \in Workers \ {w},
         NEW p \in Products
  PROVE  req'[v].order = req[v].order /\ Due(v, p)' = Due(v, p)
<1>1. pc'[v] = pc[v] /\ req'[v] = req[v]
  BY StepIsLocal DEF FulfilmentInv, NumberInv
<1>2. CASE pc[v] \in {"set_paid", "reread_paid", "fulfil", "record"}
  <2>1. lineItems'[req[v].order] = lineItems[req[v].order]
    BY <1>2, LinesFixed DEF FulfilmentInv, NumberInv, TypeInv, RequestOK, PlacedSteps, Steps
  <2> QED
    BY <1>1, <2>1 DEF Due, MadeOf
<1>3. CASE pc[v] \notin {"set_paid", "reread_paid", "fulfil", "record"}
  BY <1>1, <1>3 DEF Due
<1> QED
  BY <1>2, <1>3

(* What the request that takes the step has yet to issue does not grow, but *)
(* by a payment; and what it issues it need no longer issue.                *)
LEMMA OwnPledge ==
  ASSUME FulfilmentInv, NEW w \in Workers, WorkerStep(w), NEW p \in Products,
         NEW o \in Orders, req'[w].order = o
  PROVE  \/ Due(w, p)' = {}
         \/ req[w].order = o /\ Due(w, p)' \subseteq Due(w, p)
         \/ /\ AddPayment(w) /\ ~IsPaid(req[w].seen) /\ req[w].order = o
            /\ Due(w, p) = {} /\ Due(w, p)' = 1..lineItems[o][p]
<1>0. /\ pc \in [Workers -> Steps] /\ req \in [Workers -> Request]
      /\ req[w] \in Request /\ None \notin Products /\ o # None
      /\ NumberInv /\ ItemInv /\ WorkOK(w)
      /\ pc[w] = "idle" => req[w] = NoRequest
  BY ConstantsAssumption DEF FulfilmentInv, NumberInv, TypeInv, TypeOK, RequestOK
<1>1. ASSUME pc'[w] \notin {"set_paid", "reread_paid", "fulfil", "record"}
      PROVE  Due(w, p)' = {}
  BY <1>1 DEF Due
<1>2. ASSUME Finish(w) PROVE Due(w, p)' = {}
  BY <1>0, <1>1, <1>2 DEF Finish, Proceed
<1>3. CASE pc'[w] \notin {"set_paid", "reread_paid", "fulfil", "record"}
  BY <1>1, <1>3
<1>4. CASE Finish(w)
  BY <1>2, <1>4
<1>5. CASE pc'[w] \in {"set_paid", "reread_paid", "fulfil", "record"} /\ ~Finish(w)
  <2>1. CASE AddPayment(w)
    <3>1. /\ pc[w] = "add_payment" /\ pc'[w] = "set_paid" /\ req' = req /\ lineItems' = lineItems
          /\ ~IsPaid(req[w].seen)
      BY <1>0, <1>5, <2>1 DEF AddPayment, Proceed, orderVars
    <3>2. req[w].line # p
      BY <1>0, <3>1 DEF WorkOK
    <3> QED
      BY <2>1, <3>1, <3>2 DEF Due, MadeOf
  <2>2. CASE SetPaid(w)
    <3>1. /\ pc[w] = "set_paid" /\ pc'[w] = "reread_paid" /\ req' = req /\ lineItems' = lineItems
      BY <1>0, <2>2 DEF SetPaid, Proceed
    <3> QED
      BY <3>1 DEF Due, MadeOf
  <2>3. CASE RereadPaidOrder(w)
    <3>1. /\ pc[w] = "reread_paid" /\ pc'[w] = "fulfil" /\ lineItems' = lineItems
          /\ req' = [req EXCEPT ![w].todo = Actionable(req[w].order)]
      BY <1>0, <1>5, <2>3 DEF RereadPaidOrder, Proceed, orderVars
    <3>2. /\ req'[w].order = req[w].order /\ req'[w].line = req[w].line
          /\ req'[w].made = req[w].made
      BY <1>0, <3>1 DEF Request
    <3> QED
      BY <3>1, <3>2 DEF Due, MadeOf
  <2>4. ASSUME NEW q \in Products, CreateTickets(w, q) \/ CreateBundle(w, q)
        PROVE  req[w].order = o /\ Due(w, p)' \subseteq Due(w, p)
    <3>1. PICK ids \in SUBSET (Items \ UsedIds) :
             /\ IsFiniteSet(ids) /\ Issue(w, q, ids)
             /\ pc[w] = "fulfil" /\ pc'[w] \in {"fulfil", "record"}
             /\ q \in req[w].todo /\ req[w].line \in {None, q}
             /\ req'[w] = [req[w] EXCEPT !.line = q, !.made = req[w].made \cup ids]
             /\ UNCHANGED <<orderVars, payments, processingResult, revoked>>
      BY <2>4, IssueStep
    <3>2. /\ req'[w].order = req[w].order /\ req'[w].line = q
          /\ req'[w].made = req[w].made \cup ids /\ req'[w].todo = req[w].todo
      BY <1>0, <3>1 DEF Request
    <3>3. CASE p # q
      <4>1. MadeOf(w, p) = 0 /\ MadeOf(w, p)' = 0
        BY <1>0, <3>1, <3>2, <3>3 DEF MadeOf
      <4> QED
        BY <3>1, <3>2, <4>1 DEF Due, orderVars
    <3>4. CASE p = q
      <4>1. req[w].line = p => req[w].made \subseteq IssuedFor(o, p)
        BY <1>0, <3>1, <3>2 DEF WorkOK
      <4>2. IsFiniteSet(req[w].made)
        <5>1. IsFiniteSet({})
          BY FS_EmptySet
        <5>2. CASE req[w].line = p
          BY <1>0, <4>1, <5>2, FS_Subset DEF ItemInv
        <5>3. CASE req[w].line = None
          <6>1. req[w].made = {}
            BY <1>0, <3>1, <5>3 DEF WorkOK
          <6> QED
            BY <5>1, <6>1
        <5> QED
          BY <3>1, <3>4, <5>2, <5>3
      <4>3. IsFiniteSet(req[w].made \cup ids)
        BY <3>1, <4>2, FS_Union
      <4>4. /\ Cardinality(req[w].made) \in Nat /\ Cardinality(req[w].made \cup ids) \in Nat
            /\ Cardinality(req[w].made) <= Cardinality(req[w].made \cup ids)
        BY <4>2, <4>3, FS_CardinalityType, FS_Subset
      <4>5. MadeOf(w, p)' = Cardinality(req[w].made \cup ids)
            /\ MadeOf(w, p) \in {0, Cardinality(req[w].made)}
        BY <3>2, <3>4 DEF MadeOf
      <4>6. lineItems[o][p] \in Nat
        BY <1>0 DEF NumberInv, TypeInv, TypeOK
      <4> DEFINE m == MadeOf(w, p)
                 m1 == MadeOf(w, p)'
                 n == lineItems[o][p]
      <4>7. m \in Nat /\ m1 \in Nat /\ m <= m1
        BY <4>4, <4>5
      <4>8. Due(w, p) = (m + 1)..n /\ Due(w, p)' = (m1 + 1)..n
        BY <3>1, <3>2, <3>4 DEF Due, orderVars
      <4> HIDE DEF m, m1, n
      <4> QED
        BY <3>2, <4>6, <4>7, <4>8
    <3> QED
      BY <3>3, <3>4
  <2>5. CASE UpdateProcessingResult(w)
    <3>1. /\ pc[w] = "record" /\ pc'[w] = "fulfil" /\ lineItems' = lineItems
          /\ req' = [req EXCEPT ![w].todo = req[w].todo \ {req[w].line},
                                ![w].line = None, ![w].made = {}]
      BY <1>0, <1>5, <2>5 DEF UpdateProcessingResult, LinesLeft, Proceed, orderVars
    <3>2. /\ req'[w].order = req[w].order /\ req'[w].line = None
          /\ req'[w].todo = req[w].todo \ {req[w].line}
      BY <1>0, <3>1 DEF Request
    <3>3. CASE p \notin req'[w].todo
      BY <3>1, <3>2, <3>3 DEF Due
    <3>4. CASE p \in req'[w].todo
      <4>1. MadeOf(w, p)' = 0 /\ MadeOf(w, p) = 0 /\ p \in req[w].todo
        BY <1>0, <3>2, <3>4 DEF MadeOf
      <4> QED
        BY <3>1, <3>2, <4>1 DEF Due
    <3> QED
      BY <3>3, <3>4
  <2>6. CASE \/ \E x \in Orders : \/ \E u \in Users, cart \in Carts : SubmitCart(w, u, x, cart)
                                  \/ FindOpenOrder(w, x)
                                  \/ \E u \in Users : LoadOrderToUpdate(w, x, u)
                                  \/ LoadOrderToPay(w, x) \/ LoadOrderToCancel(w, x)
             \/ GenerateOrderNumber(w) \/ PersistOrder(w) \/ ReadPayments(w) \/ SetOrderer(w)
             \/ RefuseCapture(w) \/ Crash(w) \/ SetCanceled(w) \/ RereadCanceledOrder(w)
    BY <1>0, <1>5, <2>6
    DEF SubmitCart, FindOpenOrder, LoadOrderToUpdate, LoadOrderToPay, LoadOrderToCancel,
        GenerateOrderNumber, PersistOrder, ReadPayments, SetOrderer, RefuseCapture, Crash,
        SetCanceled, RereadCanceledOrder, Proceed
  <2>7. CASE \E q \in Products : \/ RevokeNothingRecorded(w, q)
                                 \/ RevokeTickets(w, q) \/ RevokeBundle(w, q)
    BY <1>0, <1>5, <2>7
    DEF RevokeNothingRecorded, RevokeTickets, RevokeBundle, LineRevoked, Proceed
  <2> QED
    BY <2>1, <2>2, <2>3, <2>4, <2>5, <2>6, <2>7 DEF WorkerStep, Serve, Begin, Continue
<1> QED
  BY <1>3, <1>4, <1>5

(* What is issued was pledged before: the tickets of a line item at once,  *)
(* its bundles one by one.                                                 *)
LEMMA PledgeRedeemed ==
  ASSUME FulfilmentInv, NEW w \in Workers, NEW p \in Products,
         CreateTickets(w, p) \/ CreateBundle(w, p), WorkerStep(w),
         NEW o \in Orders, o = req[w].order, IsFiniteSet(Pledged(o, p))
  PROVE  /\ IsFiniteSet(Pledged(o, p)')
         /\ Cardinality(IssuedFor(o, p)') + Cardinality(Pledged(o, p)')
              <= Cardinality(IssuedFor(o, p)) + Cardinality(Pledged(o, p))
<1>0. /\ req \in [Workers -> Request] /\ req[w] \in Request /\ None \notin Products
      /\ NumberInv /\ ItemInv /\ WorkOK(w)
      /\ lineItems[o][p] \in Nat
  BY ConstantsAssumption DEF FulfilmentInv, NumberInv, TypeInv, TypeOK
<1>1. PICK ids \in SUBSET (Items \ UsedIds) :
         /\ IsFiniteSet(ids) /\ Issue(w, p, ids)
         /\ pc[w] = "fulfil" /\ pc'[w] \in {"fulfil", "record"}
         /\ p \in req[w].todo /\ req[w].line \in {None, p}
         /\ req'[w] = [req[w] EXCEPT !.line = p, !.made = req[w].made \cup ids]
         /\ \/ /\ req[w].line = None
               /\ Cardinality(ids) = lineItems[req[w].order][p]
            \/ Cardinality(ids) = 1
         /\ lineItems' = lineItems
  BY IssueStep DEF orderVars
<1>2. /\ req'[w].order = o /\ req'[w].line = p /\ req'[w].todo = req[w].todo
      /\ req'[w].made = req[w].made \cup ids
  BY <1>0, <1>1 DEF Request
<1>3. /\ IssuedFor(o, p)' = IssuedFor(o, p) \cup ids
      /\ IssuedFor(o, p) \cap ids = {}
  BY <1>1, IssuedGrows
<1>4. /\ req[w].line = None => req[w].made = {}
      /\ req[w].line = p => /\ req[w].made \subseteq IssuedFor(o, p)
                            /\ Cardinality(req[w].made) < lineItems[o][p]
      /\ p \in Actionable(o)
  BY <1>0, <1>1 DEF WorkOK
<1>5. lineItems[o][p] > 0 /\ Cardinality({}) = 0 /\ IsFiniteSet({})
  BY <1>4, FS_EmptySet DEF Actionable
<1> DEFINE m == MadeOf(w, p)
           n == lineItems[o][p]
           c == Cardinality(ids)
           H == Pledged(o, p)
           H1 == Pledged(o, p)'
<1>6. /\ IsFiniteSet(req[w].made) /\ m = Cardinality(req[w].made)
      /\ m \in Nat /\ n \in Nat /\ m < n
  <2>1. CASE req[w].line = p
    <3>1. IsFiniteSet(req[w].made)
      BY <1>0, <1>4, <2>1, FS_Subset DEF ItemInv
    <3> QED
      BY <1>0, <1>4, <2>1, <3>1, FS_CardinalityType DEF MadeOf
  <2>2. CASE req[w].line = None
    <3>1. req[w].made = {} /\ Cardinality(req[w].made) = 0
      BY <1>4, <1>5, <2>2
    <3>2. m = 0
      BY <1>0, <2>2 DEF MadeOf
    <3> QED
      BY <1>0, <1>5, <3>1, <3>2
  <2> QED
    BY <1>1, <2>1, <2>2
<1>7. c \in Nat /\ Cardinality(req[w].made \cup ids) = m + c
  <2>1. c \in Nat
    BY <1>1, FS_CardinalityType
  <2>2. req[w].made \cap ids = {}
    BY <1>1, <1>3, <1>4
  <2>3. Cardinality(req[w].made \cap ids) = 0
    BY <1>5, <2>2
  <2>4. Cardinality(req[w].made \cup ids) =
          Cardinality(req[w].made) + Cardinality(ids) - Cardinality(req[w].made \cap ids)
    BY <1>1, <1>6, FS_Union
  <2> QED
    BY <1>6, <2>1, <2>3, <2>4
<1>8. c = 1 \/ (m = 0 /\ c = n)
  <2>1. req[w].line = None => MadeOf(w, p) = 0
    BY <1>0 DEF MadeOf
  <2> QED
    BY <1>1, <2>1
<1>9. Due(w, p) = (m + 1)..n /\ Due(w, p)' = (m + c + 1)..n
  <2>1. MadeOf(w, p)' = m + c
    BY <1>2, <1>7 DEF MadeOf
  <2> QED
    BY <1>1, <1>2, <2>1 DEF Due
<1>10. /\ \A v \in Workers \ {w} : req'[v].order = req[v].order /\ Due(v, p)' = Due(v, p)
       /\ \A x : x \in H1 <=> \E v \in Workers : req'[v].order = o /\ \E k \in Due(v, p)' : x = <<v, k>>
       /\ \A x : x \in H <=> \E v \in Workers : req[v].order = o /\ \E k \in Due(v, p) : x = <<v, k>>
  BY OthersPledge, PledgedBy
<1>11. /\ H1 \subseteq H
       /\ \A x \in H \ H1 : \E k \in (m + 1)..(m + c) : x = <<w, k>>
       /\ \A k \in (m + 1)..(m + c) : <<w, k>> \in H \ H1
  <2> HIDE DEF H, H1, m, n, c
  <2>1. Due(w, p)' \subseteq Due(w, p) /\ Due(w, p) \ Due(w, p)' = (m + 1)..(m + c)
    BY <1>0, <1>6, <1>7, <1>8, <1>9
  <2>2. H1 \subseteq H
    BY <1>2, <1>10, <2>1
  <2>3. ASSUME NEW x \in H \ H1
        PROVE  \E k \in (m + 1)..(m + c) : x = <<w, k>>
    <3>0. PICK v \in Workers : req[v].order = o /\ \E k \in Due(v, p) : x = <<v, k>>
      BY <1>10
    <3>1. PICK k \in Due(v, p) : req[v].order = o /\ x = <<v, k>>
      BY <3>0
    <3>2. k \notin Due(v, p)' \/ req'[v].order # o
      BY <1>10, <3>1
    <3>3. v = w /\ k \in Due(w, p) \ Due(w, p)'
      BY <1>2, <1>10, <3>1, <3>2
    <3> QED
      BY <2>1, <3>1, <3>3
  <2>4. ASSUME NEW k \in (m + 1)..(m + c)
        PROVE  <<w, k>> \in H \ H1
    <3>1. k \in Due(w, p) /\ k \notin Due(w, p)'
      BY <2>1
    <3>2. <<w, k>> \in H
      BY <1>10, <3>1
    <3>3. <<w, k>> \notin H1
      BY <1>10, <3>1
    <3> QED
      BY <3>2, <3>3
  <2> QED
    BY <2>2, <2>3, <2>4
<1>12. IsFiniteSet(H1) /\ Cardinality(H1) + c = Cardinality(H)
  <2> HIDE DEF H, H1, m, n, c
  <2>1. CASE c = 1
    <3>1. H1 = H \ {<<w, m + 1>>} /\ <<w, m + 1>> \in H
      <4>1. (m + 1)..(m + c) = {m + 1}
        BY <1>6, <2>1
      <4> QED
        BY <1>11, <4>1
    <3>2. IsFiniteSet(H1) /\ Cardinality(H1) = Cardinality(H) - 1
      BY <3>1, FS_RemoveElement DEF H
    <3>3. Cardinality(H) \in Nat
      BY FS_CardinalityType DEF H
    <3> QED
      BY <2>1, <3>2, <3>3
  <2>2. CASE m = 0 /\ c = n
    <3>1. (m + 1)..(m + c) = 1..n
      BY <1>7, <2>2
    <3>2. /\ H1 \subseteq H /\ H \subseteq H1 \cup UnitsOf(w, n)
          /\ UnitsOf(w, n) \subseteq H /\ UnitsOf(w, n) \cap H1 = {}
      <4>0. \A x : x \in UnitsOf(w, n) <=> \E k \in (m + 1)..(m + c) : x = <<w, k>>
        <5>1. \A x : x \in UnitsOf(w, n) <=> \E k \in 1..n : x = <<w, k>>
          BY UnitMembers
        <5> QED
          BY <3>1, <5>1, Zenon
      <4>1. /\ \A x \in H \ H1 : x \in UnitsOf(w, n)
            /\ \A x \in UnitsOf(w, n) : x \in H \ H1
        BY <1>11, <4>0
      <4> HIDE DEF UnitsOf
      <4>2. H \subseteq H1 \cup UnitsOf(w, n)
        BY <4>1
      <4>3. UnitsOf(w, n) \subseteq H /\ UnitsOf(w, n) \cap H1 = {}
        BY <4>1
      <4> QED
        BY <1>11, <4>2, <4>3
    <3>3. n \in Nat /\ IsFiniteSet(H)
      BY <1>0 DEF n, H
    <3>4. IsFiniteSet(H1) /\ Cardinality(H1) + n = Cardinality(H)
      BY <3>2, <3>3, OrderLeaves
    <3> QED
      BY <2>2, <3>4
  <2> QED
    BY <1>8, <2>1, <2>2
<1>13. Cardinality(IssuedFor(o, p)') = Cardinality(IssuedFor(o, p)) + c
  <2>1. IsFiniteSet(IssuedFor(o, p))
    BY <1>0 DEF ItemInv
  <2>2. Cardinality(IssuedFor(o, p) \cup ids)
          = Cardinality(IssuedFor(o, p)) + Cardinality(ids) - Cardinality(IssuedFor(o, p) \cap ids)
    BY <1>1, <2>1, FS_Union
  <2>3. Cardinality(IssuedFor(o, p) \cap ids) = 0
    BY <1>3, <1>5
  <2>4. Cardinality(IssuedFor(o, p)) \in Nat
    BY <2>1, FS_CardinalityType
  <2> QED
    BY <1>3, <1>7, <2>2, <2>3, <2>4
<1>14. /\ Cardinality(H) \in Nat /\ Cardinality(H1) \in Nat
       /\ Cardinality(IssuedFor(o, p)) \in Nat
  BY <1>0, <1>12, FS_CardinalityType DEF ItemInv
<1> QED
  BY <1>7, <1>12, <1>13, <1>14

(* What a step does to the account of a line item: a checkout opens it, a  *)
(* payment adds one pledge of the quantity ordered, and no other step adds *)
(* to what is issued and pledged together.                                 *)
LEMMA PledgeStep ==
  ASSUME FulfilmentInv, NEW w \in Workers, WorkerStep(w),
         NEW o \in Orders, NEW p \in Products, IsFiniteSet(Pledged(o, p))
  PROVE  /\ IsFiniteSet(Pledged(o, p)')
         /\ \/ /\ PersistOrder(w) /\ req[w].order = o
               /\ Pledged(o, p)' = {} /\ IssuedFor(o, p)' = IssuedFor(o, p)
               /\ payments' = payments
            \/ /\ AddPayment(w) /\ ~IsPaid(req[w].seen) /\ req[w].order = o
               /\ lineItems'[o] = lineItems[o] /\ payments'[o] = payments[o] + 1
               /\ IssuedFor(o, p)' = IssuedFor(o, p)
               /\ Cardinality(Pledged(o, p)') = Cardinality(Pledged(o, p)) + lineItems[o][p]
            \/ /\ lineItems'[o] = lineItems[o] /\ payments'[o] >= payments[o]
               /\ Cardinality(IssuedFor(o, p)') + Cardinality(Pledged(o, p)')
                    <= Cardinality(IssuedFor(o, p)) + Cardinality(Pledged(o, p))
<1>0. /\ req \in [Workers -> Request] /\ req[w] \in Request /\ None \notin Orders
      /\ NumberInv /\ ItemInv /\ WorkOK(w) /\ TypeInv
      /\ lineItems[o][p] \in Nat /\ payments \in [Orders -> Nat]
      /\ IsFiniteSet(IssuedFor(o, p))
  BY ConstantsAssumption DEF FulfilmentInv, NumberInv, TypeInv, TypeOK, ItemInv
<1>1. /\ \A v \in Workers \ {w} : req'[v].order = req[v].order /\ Due(v, p)' = Due(v, p)
      /\ \A x : x \in Pledged(o, p)' <=>
           \E v \in Workers : req'[v].order = o /\ \E k \in Due(v, p)' : x = <<v, k>>
      /\ \A x : x \in Pledged(o, p) <=>
           \E v \in Workers : req[v].order = o /\ \E k \in Due(v, p) : x = <<v, k>>
  BY OthersPledge, PledgedBy
<1>2. payments'[o] >= payments[o]
  <2>1. CASE payments' = payments
    BY <1>0, <2>1
  <2>2. CASE AddPayment(w)
    BY <1>0, <2>2 DEF AddPayment, PaymentAdded
  <2> QED
    BY <2>1, <2>2, ItemChange
<1>3. CASE PersistOrder(w) /\ req[w].order = o
  <2>1. \A v \in Workers : req'[v].order # o
    BY <1>0, <1>1, <1>3, PersistStep DEF PersistOrder, NumberInv, CheckoutAlone
  <2>2. Pledged(o, p)' = {}
    BY <1>1, <2>1
  <2>3. IssuedFor(o, p)' = IssuedFor(o, p) /\ payments' = payments
    BY <1>3 DEF PersistOrder, itemVars, IssuedFor
  <2> QED
    BY <1>3, <2>2, <2>3, FS_EmptySet
<1>4. CASE /\ AddPayment(w) /\ ~IsPaid(req[w].seen) /\ req[w].order = o
           /\ Due(w, p) = {} /\ Due(w, p)' = 1..lineItems[o][p]
  <2>1. /\ lineItems' = lineItems /\ issued' = issued /\ payments'[o] = payments[o] + 1
        /\ req' = req
    BY <1>0, <1>4 DEF AddPayment, PaymentAdded, orderVars, itemVars
  <2> DEFINE H == Pledged(o, p)
             H1 == Pledged(o, p)'
             n == lineItems[o][p]
  <2>2. H1 = H \cup UnitsOf(w, n) /\ \A k : <<w, k>> \notin H
    <3>1. \A x : x \in UnitsOf(w, n) <=> \E k \in Due(w, p)' : x = <<w, k>>
      BY <1>4, UnitMembers
    <3>2. ASSUME NEW x \in H1 PROVE x \in H \cup UnitsOf(w, n)
      <4>1. PICK v \in Workers : req'[v].order = o /\ \E k \in Due(v, p)' : x = <<v, k>>
        BY <1>1
      <4>2. CASE v = w
        BY <3>1, <4>1, <4>2
      <4>3. CASE v # w
        BY <1>1, <4>1, <4>3
      <4> QED
        BY <4>2, <4>3
    <3>3. H \subseteq H1
      BY <1>1, <1>4
    <3>4. UnitsOf(w, n) \subseteq H1
      BY <1>1, <1>4, <2>1, <3>1
    <3>5. \A k : <<w, k>> \notin H
      BY <1>1, <1>4
    <3> HIDE DEF H, H1, n
    <3> QED
      BY <3>2, <3>3, <3>4, <3>5
  <2>3. n \in Nat /\ IsFiniteSet(H)
    BY <1>0
  <2>4. IsFiniteSet(H1) /\ Cardinality(H1) = Cardinality(H) + n
    <3> HIDE DEF H, H1, n
    <3> QED
      BY <2>2, <2>3, OrderJoins
  <2>5. IssuedFor(o, p)' = IssuedFor(o, p)
    BY <2>1 DEF IssuedFor
  <2> QED
    BY <1>4, <2>1, <2>4, <2>5
<1>5. ASSUME ~(PersistOrder(w) /\ req[w].order = o)
      PROVE  lineItems'[o] = lineItems[o]
  <2>1. CASE req[w].order # o
    BY <1>0, <2>1, StepIsLocal
  <2>2. CASE req[w].order = o /\ SetPaid(w)
    BY <2>2 DEF SetPaid
  <2>3. CASE req[w].order = o /\ SetCanceled(w)
    BY <2>3 DEF SetCanceled
  <2>4. CASE lineItems' = lineItems
    BY <2>4
  <2> QED
    BY <1>5, <2>1, <2>2, <2>3, <2>4, LifeChange
<1>6. CASE (CreateTickets(w, p) \/ CreateBundle(w, p)) /\ req[w].order = o
  <2>1. ~PersistOrder(w)
    BY <1>6 DEF CreateTickets, CreateBundle, PersistOrder
  <2> QED
    BY <1>2, <1>5, <1>6, <2>1, PledgeRedeemed
<1>7. CASE /\ ~(PersistOrder(w) /\ req[w].order = o)
           /\ ~((CreateTickets(w, p) \/ CreateBundle(w, p)) /\ req[w].order = o)
           /\ \/ req'[w].order # o \/ Due(w, p)' = {}
              \/ req[w].order = o /\ Due(w, p)' \subseteq Due(w, p)
  <2>1. Pledged(o, p)' \subseteq Pledged(o, p)
    BY <1>1, <1>7
  <2>2. /\ IsFiniteSet(Pledged(o, p)')
        /\ Cardinality(Pledged(o, p)') <= Cardinality(Pledged(o, p))
    BY <2>1, FS_Subset
  <2>3. IssuedFor(o, p)' = IssuedFor(o, p)
    <3>1. CASE issued' = issued
      BY <3>1 DEF IssuedFor
    <3>2. ASSUME NEW q \in Products, CreateTickets(w, q) \/ CreateBundle(w, q)
          PROVE  IssuedFor(o, p)' = IssuedFor(o, p)
      <4>1. PICK ids \in SUBSET (Items \ UsedIds) : Issue(w, q, ids)
        BY <3>2, IssueStep
      <4>2. PICK x : x = req[w].order
        OBVIOUS
      <4>3. q # p \/ o # x
        BY <1>7, <3>2, <4>2
      <4> QED
        BY <4>1, <4>2, <4>3, IssuedGrows
    <3> QED
      BY <3>1, <3>2, ItemChange
  <2>4. /\ Cardinality(Pledged(o, p)') \in Nat /\ Cardinality(Pledged(o, p)) \in Nat
        /\ Cardinality(IssuedFor(o, p)) \in Nat
    BY <1>0, <2>2, FS_CardinalityType
  <2> QED
    BY <1>2, <1>5, <1>7, <2>2, <2>3, <2>4
<1> QED
  BY <1>3, <1>4, <1>6, <1>7, OwnPledge

(* Every step keeps the account. *)
LEMMA PaymentNext ==
  FulfilmentInv /\ PaymentInv /\ [HistoryNext]_hvars => PaymentInv'
<1> SUFFICES ASSUME FulfilmentInv, PaymentInv, [HistoryNext]_hvars
             PROVE  PaymentInv'
  OBVIOUS
<1>0. /\ payments \in [Orders -> Nat] /\ lineItems \in [Orders -> [Products -> Nat]]
      /\ lineItems' \in [Orders -> [Products -> Nat]]
      /\ payments' \in [Orders -> Nat]
      /\ FulfilmentInv'
  BY FulfilmentNext DEF FulfilmentInv, NumberInv, TypeInv, TypeOK
<1>1. CASE UNCHANGED hvars
  <2>1. /\ \A o, p : IssuedFor(o, p)' = IssuedFor(o, p) /\ Pledged(o, p)' = Pledged(o, p)
        /\ Placed' = Placed /\ payments' = payments /\ lineItems' = lineItems
    BY <1>1
    DEF hvars, vars, itemVars, orderVars, IssuedFor, Pledged, Due, MadeOf, Placed
  <2> QED
    BY <2>1 DEF PaymentInv
<1>2. CASE HistoryNext
  <2>1. PICK w \in Workers : WorkerStep(w)
    BY <1>2 DEF HistoryNext, WorkerStep
  <2>2. ASSUME NEW o \in Orders \ Placed'
        PROVE  payments'[o] = 0
    <3>1. o \notin Placed
      BY <2>1, <2>2, LinesFixed DEF FulfilmentInv
    <3>2. ~(AddPayment(w) /\ req[w].order = o)
      BY <3>1
      DEF AddPayment, FulfilmentInv, NumberInv, TypeInv, RequestOK, PlacedSteps, Steps
    <3>3. payments'[o] = payments[o]
      BY <1>0, <2>1, <3>2, ItemChange DEF AddPayment, PaymentAdded
    <3> QED
      BY <3>1, <3>3 DEF PaymentInv
  <2>3. ASSUME NEW o \in Orders, NEW p \in Products
        PROVE  /\ IsFiniteSet(Pledged(o, p)')
               /\ Cardinality(IssuedFor(o, p)') + Cardinality(Pledged(o, p)')
                    <= lineItems'[o][p] * payments'[o]
    <3> DEFINE i == Cardinality(IssuedFor(o, p))
               i1 == Cardinality(IssuedFor(o, p)')
               h == Cardinality(Pledged(o, p))
               h1 == Cardinality(Pledged(o, p)')
               n == lineItems[o][p]
               m == payments[o]
               n1 == lineItems'[o][p]
               m1 == payments'[o]
    <3>1. IsFiniteSet(Pledged(o, p)) /\ i + h <= n * m
      BY DEF PaymentInv
    <3>2. IsFiniteSet(Pledged(o, p)')
      BY <2>1, <3>1, PledgeStep
    <3>3. i \in Nat /\ i1 \in Nat /\ h \in Nat /\ h1 \in Nat
      BY <1>0, <3>1, <3>2, FS_CardinalityType DEF FulfilmentInv, ItemInv
    <3>4. n \in Nat /\ m \in Nat /\ n1 \in Nat /\ m1 \in Nat
      BY <1>0
    <3>5. \/ m = 0 /\ m1 = 0 /\ h1 = 0 /\ i1 = i
          \/ n1 = n /\ m1 = m + 1 /\ i1 = i /\ h1 = h + n
          \/ n1 = n /\ m1 >= m /\ i1 + h1 <= i + h
      <4>1. CASE /\ PersistOrder(w) /\ req[w].order = o
                 /\ Pledged(o, p)' = {} /\ IssuedFor(o, p)' = IssuedFor(o, p)
                 /\ payments' = payments
        <5>1. o \notin Placed
          BY <4>1 DEF PersistOrder, FulfilmentInv, NumberInv, CheckoutAlone
        <5>2. m = 0
          BY <5>1 DEF PaymentInv
        <5> QED
          BY <4>1, <5>2, FS_EmptySet
      <4> QED
        BY <2>1, <3>1, <4>1, PledgeStep
    <3> HIDE DEF i, i1, h, h1, n, n1, m, m1
    <3>6. i1 + h1 <= n1 * m1
      <4>1. CASE m = 0 /\ m1 = 0 /\ h1 = 0 /\ i1 = i
        <5>1. n * m = 0 /\ n1 * m1 = 0
          BY <3>4, <4>1
        <5> QED
          BY <3>1, <3>3, <4>1, <5>1
      <4>2. CASE n1 = n /\ m1 = m + 1 /\ i1 = i /\ h1 = h + n
        <5>1. n * (m + 1) = n * m + n
          BY <3>4
        <5> QED
          BY <3>1, <3>3, <3>4, <4>2, <5>1
      <4>3. CASE n1 = n /\ m1 >= m /\ i1 + h1 <= i + h
        <5>1. n * m <= n * m1
          BY <3>4, <4>3
        <5>2. n * m \in Nat /\ n * m1 \in Nat
          BY <3>4
        <5> QED
          BY <3>1, <3>3, <4>3, <5>1, <5>2
      <4> QED
        BY <3>5, <4>1, <4>2, <4>3
    <3> QED
      BY <3>2, <3>6 DEF i1, h1, n1, m1
  <2> QED
    BY <2>2, <2>3 DEF PaymentInv
<1> QED
  BY <1>1, <1>2

(* Nothing is paid and nothing pledged at the start. *)
LEMMA PaymentInit == HistoryInit => PaymentInv
<1> SUFFICES ASSUME HistoryInit PROVE PaymentInv
  OBVIOUS
<1>1. \A o, p : IssuedFor(o, p) = {}
  BY DEF HistoryInit, Init, IssuedFor
<1>2. ASSUME NEW o \in Orders, NEW p
      PROVE  Pledged(o, p) = {}
  <2>1. \A v \in Workers : req[v].order # o
    BY ConstantsAssumption DEF HistoryInit, Init, NoRequest
  <2> QED
    BY <2>1 DEF Pledged
<1>3. /\ \A o \in Orders, p \in Products : lineItems[o][p] = 0
      /\ \A o \in Orders : payments[o] = 0
  BY DEF HistoryInit, Init, EmptyCart
<1>4. \A o \in Orders, p \in Products : lineItems[o][p] * payments[o] = 0
  BY <1>3
<1>5. IsFiniteSet({}) /\ Cardinality({}) = 0
  BY FS_EmptySet
<1>6. \A o \in Orders, p \in Products :
        /\ IsFiniteSet(Pledged(o, p))
        /\ Cardinality(IssuedFor(o, p)) = 0 /\ Cardinality(Pledged(o, p)) = 0
  BY <1>1, <1>2, <1>5
<1>7. \A o \in Orders, p \in Products :
        Cardinality(IssuedFor(o, p)) + Cardinality(Pledged(o, p)) = 0
  BY <1>6
<1>8. ASSUME NEW o \in Orders, NEW p \in Products
      PROVE  Cardinality(IssuedFor(o, p)) + Cardinality(Pledged(o, p))
               <= lineItems[o][p] * payments[o]
  BY <1>4, <1>7
<1> QED
  BY <1>3, <1>6, <1>8 DEF PaymentInv

\* Every ticket and every bundle issued is backed by a committed payment of the
\* order of its own: payments that overlap each issue what they paid for, and
\* a request that dies half way leaves less, never more.
THEOREM ItemsArePaidFor == HistorySpec => []IssuedPerPayment
<1>1. FulfilmentInv /\ PaymentInv => IssuedPerPayment
  <2> SUFFICES ASSUME FulfilmentInv, PaymentInv, NEW o \in Orders, NEW p \in Products
               PROVE  Cardinality(IssuedFor(o, p)) <= lineItems[o][p] * payments[o]
    BY DEF IssuedPerPayment
  <2>1. /\ IsFiniteSet(IssuedFor(o, p)) /\ IsFiniteSet(Pledged(o, p))
        /\ Cardinality(IssuedFor(o, p)) + Cardinality(Pledged(o, p))
             <= lineItems[o][p] * payments[o]
    BY DEF FulfilmentInv, ItemInv, PaymentInv
  <2>2. Cardinality(IssuedFor(o, p)) \in Nat /\ Cardinality(Pledged(o, p)) \in Nat
    BY <2>1, FS_CardinalityType
  <2>3. lineItems[o][p] * payments[o] \in Nat
    <3>1. lineItems[o][p] \in Nat /\ payments[o] \in Nat
      BY DEF FulfilmentInv, NumberInv, TypeInv, TypeOK
    <3> QED
      BY <3>1
  <2> QED
    BY <2>1, <2>2, <2>3
<1> QED
  BY <1>1, FulfilmentInit, PaymentInit, FulfilmentNext, PaymentNext, PTL
  DEF HistorySpec, hvars

-----------------------------------------------------------------------------
(* Orders whose requests do not overlap *)

\* What the request for such an order knows of it.
ServedOK(w, o) ==
  /\ pc[w] \in {"reread_paid", "fulfil", "record"} => paymentState[o] = "paid"
  /\ pc[w] \in {"reread_canceled", "revoke"} => paymentState[o] = "canceled_after_paid"
  /\ pc[w] \in {"add_payment", "set_paid", "reread_paid", "fulfil", "record"} =>
       req[w].user = placedBy[o]
  /\ pc[w] = "set_orderer" => payments[o] = 0

\* Its items are those of one payment, and only a cancellation revokes them.
OrderedInv ==
  \A o \in Orders \ contended :
     /\ \A p \in Products :
          Cardinality(IssuedFor(o, p)) + Cardinality(Pledged(o, p)) <= lineItems[o][p]
     /\ \A i \in issued : i.order = o =>
          /\ paymentState[o] \in {"paid", "canceled_after_paid"}
          /\ i.owner = placedBy[o]
          /\ i.id \in revoked => paymentState[o] = "canceled_after_paid"
     /\ \A w \in Workers : req[w].order = o => ServedOK(w, o)

AccountInv == FulfilmentInv /\ PaymentInv /\ HistoryInv

(* A step of a request concerns its own order only. *)
LEMMA OthersUntouched ==
  ASSUME FulfilmentInv, NEW w \in Workers, WorkerStep(w),
         NEW o \in Orders, o # req[w].order
  PROVE  /\ paymentState'[o] = paymentState[o] /\ lineItems'[o] = lineItems[o]
         /\ placedBy'[o] = placedBy[o] /\ payments'[o] = payments[o]
         /\ processingResult'[o] = processingResult[o]
         /\ \A i : i.order = o => (i \in issued' <=> i \in issued)
         /\ \A p \in Products : IssuedFor(o, p)' = IssuedFor(o, p)
         /\ \A i \in issued : i.order = o => (i.id \in revoked' <=> i.id \in revoked)
<1>0. /\ TypeInv /\ ItemInv /\ WorkOK(w) /\ req[w] \in Request
      /\ placedBy \in [Orders -> Users \cup {None}] /\ payments \in [Orders -> Nat]
      /\ processingResult \in [Orders -> [Products -> SUBSET Items]]
  BY DEF FulfilmentInv, NumberInv, TypeInv, TypeOK
<1>1. paymentState'[o] = paymentState[o] /\ lineItems'[o] = lineItems[o]
  BY <1>0, StepIsLocal
<1>2. placedBy'[o] = placedBy[o]
  BY <1>0, ItemChange DEF PersistOrder, SetOrderer, orderVars
<1>3. payments'[o] = payments[o]
  BY <1>0, ItemChange DEF AddPayment, PaymentAdded
<1>4. processingResult'[o] = processingResult[o]
  BY <1>0, ItemChange DEF UpdateProcessingResult
<1>5. ASSUME NEW i, i.order = o
      PROVE  i \in issued' <=> i \in issued
  <2>1. CASE issued' = issued
    BY <2>1
  <2>2. ASSUME NEW p \in Products, CreateTickets(w, p) \/ CreateBundle(w, p)
        PROVE  i \in issued' <=> i \in issued
    <3>1. PICK ids \in SUBSET (Items \ UsedIds) : Issue(w, p, ids)
      BY <2>2, IssueStep
    <3> QED
      BY <1>5, <3>1 DEF Issue
  <2> QED
    BY <2>1, <2>2, ItemChange
<1>6. ASSUME NEW p \in Products
      PROVE  IssuedFor(o, p)' = IssuedFor(o, p)
  <2>1. \A k : k \in IssuedFor(o, p)' <=> k \in IssuedFor(o, p)
    BY <1>5 DEF IssuedFor
  <2> QED
    BY <2>1
<1>7. ASSUME NEW i \in issued, i.order = o
      PROVE  i.id \in revoked' <=> i.id \in revoked
  <2>1. CASE revoked' = revoked
    BY <2>1
  <2>2. ASSUME NEW p \in Products, RevokeTickets(w, p) \/ RevokeBundle(w, p)
        PROVE  i.id \in revoked' <=> i.id \in revoked
    <3>1. /\ pc[w] = "revoke" /\ revoked \subseteq revoked'
          /\ revoked' \subseteq revoked \cup req[w].recorded[p]
      BY <2>2 DEF RevokeTickets, RevokeBundle
    <3>2. req[w].recorded[p] \subseteq IssuedFor(req[w].order, p)
      BY <1>0, <3>1 DEF WorkOK
    <3>3. i.id \notin IssuedFor(req[w].order, p)
      BY <1>0, <1>7 DEF IssuedFor, ItemInv
    <3> QED
      BY <3>1, <3>2, <3>3
  <2> QED
    BY <2>1, <2>2, ItemChange
<1> QED
  BY <1>1, <1>2, <1>3, <1>4, <1>5, <1>6, <1>7

(* An order whose requests do not overlap is served by one worker at most. *)
LEMMA ServedByOne ==
  ASSUME HistoryInv, NEW o \in Orders \ contended, NEW v \in Workers, NEW w \in Workers,
         req[v].order = o, req[w].order = o
  PROVE  v = w
  BY ConstantsAssumption DEF HistoryInv, SeenInv, OverlapsKnown

(* No items: before the order is paid, and while it has no payment. *)
LEMMA NoItems ==
  ASSUME AccountInv, OrderedInv, NEW o \in Orders \ contended,
         paymentState[o] \notin {"paid", "canceled_after_paid"} \/ payments[o] = 0
  PROVE  /\ \A i \in issued : i.order # o
         /\ \A p \in Products : IssuedFor(o, p) = {}
<1>1. CASE paymentState[o] \notin {"paid", "canceled_after_paid"}
  BY <1>1 DEF OrderedInv, IssuedFor
<1>2. CASE payments[o] = 0
  <2>1. ASSUME NEW p \in Products
        PROVE  IssuedFor(o, p) = {}
    <3>1. /\ IsFiniteSet(IssuedFor(o, p)) /\ IsFiniteSet(Pledged(o, p))
          /\ Cardinality(IssuedFor(o, p)) + Cardinality(Pledged(o, p))
               <= lineItems[o][p] * payments[o]
          /\ lineItems[o][p] \in Nat
      BY DEF AccountInv, FulfilmentInv, NumberInv, TypeInv, TypeOK, ItemInv, PaymentInv
    <3>2. Cardinality(IssuedFor(o, p)) \in Nat /\ Cardinality(Pledged(o, p)) \in Nat
      BY <3>1, FS_CardinalityType
    <3>3. lineItems[o][p] * payments[o] = 0
      BY <1>2, <3>1
    <3>4. Cardinality(IssuedFor(o, p)) = 0
      BY <3>1, <3>2, <3>3
    <3> QED
      BY <3>1, <3>4, FS_EmptySet
  <2>2. \A i \in issued : i.product \in Products
    BY DEF AccountInv, FulfilmentInv, NumberInv, TypeInv, TypeOK, Item
  <2>3. \A i \in issued : i.order = o => i.id \in IssuedFor(o, i.product)
    BY DEF IssuedFor
  <2> QED
    BY <2>1, <2>2, <2>3
<1> QED
  BY <1>1, <1>2

(* The account of one payment. *)
LEMMA QuantityKept ==
  ASSUME AccountInv, OrderedInv, AccountInv', NEW w \in Workers, WorkerStep(w),
         NEW o \in Orders \ contended, NEW p \in Products
  PROVE  Cardinality(IssuedFor(o, p)') + Cardinality(Pledged(o, p)') <= lineItems'[o][p]
<1> DEFINE i == Cardinality(IssuedFor(o, p))
           i1 == Cardinality(IssuedFor(o, p)')
           h == Cardinality(Pledged(o, p))
           h1 == Cardinality(Pledged(o, p)')
           n == lineItems[o][p]
           n1 == lineItems'[o][p]
<1>0. FulfilmentInv /\ FulfilmentInv' /\ PaymentInv /\ PaymentInv' /\ HistoryInv
  BY DEF AccountInv
<1>1. /\ IsFiniteSet(IssuedFor(o, p)) /\ IsFiniteSet(IssuedFor(o, p)')
      /\ IsFiniteSet(Pledged(o, p)) /\ IsFiniteSet(Pledged(o, p)')
      /\ n \in Nat /\ n1 \in Nat
  BY <1>0 DEF FulfilmentInv, ItemInv, PaymentInv, NumberInv, TypeInv, TypeOK
<1>2. i \in Nat /\ i1 \in Nat /\ h \in Nat /\ h1 \in Nat
  BY <1>1, FS_CardinalityType
<1>3. i + h <= n
  BY DEF OrderedInv
<1>4. Cardinality({}) = 0
  BY FS_EmptySet
<1>5. \/ i1 = 0 /\ h1 = 0
      \/ n1 = n /\ i1 = 0 /\ h1 = n
      \/ n1 = n /\ i1 + h1 <= i + h
  <2>1. CASE /\ PersistOrder(w) /\ req[w].order = o
             /\ Pledged(o, p)' = {} /\ IssuedFor(o, p)' = IssuedFor(o, p)
    <3>1. o \notin Placed
      BY <1>0, <2>1 DEF PersistOrder, FulfilmentInv, NumberInv, CheckoutAlone
    <3>2. payments[o] = 0
      BY <1>0, <3>1 DEF PaymentInv
    <3>3. IssuedFor(o, p) = {}
      BY <3>2, NoItems
    <3> QED
      BY <1>4, <2>1, <3>3
  <2>2. CASE /\ AddPayment(w) /\ ~IsPaid(req[w].seen) /\ req[w].order = o
             /\ lineItems'[o] = lineItems[o]
             /\ IssuedFor(o, p)' = IssuedFor(o, p)
             /\ Cardinality(Pledged(o, p)') = Cardinality(Pledged(o, p)) + lineItems[o][p]
    <3>1. pc[w] = "add_payment" /\ paymentState[o] = "open"
      BY <1>0, <2>2 DEF AddPayment, HistoryInv, SeenInv, SeenIsStored, LoadedSteps, IsPaid
    <3>2. IssuedFor(o, p) = {}
      BY <3>1, NoItems
    <3>3. \A v \in Workers : req[v].order = o => v = w
      BY <1>0, <2>2, ServedByOne
    <3>4. Due(w, p) = {}
      BY <3>1, NothingDue
    <3>5. Pledged(o, p) = {}
      BY <3>3, <3>4, PledgedBy
    <3> QED
      BY <1>1, <1>4, <2>2, <3>2, <3>5
  <2> QED
    BY <1>0, <1>1, <2>1, <2>2, PledgeStep
<1> HIDE DEF i, i1, h, h1, n, n1
<1>6. i1 + h1 <= n1
  BY <1>1, <1>2, <1>3, <1>5 DEF n, n1
<1> QED
  BY <1>6 DEF i1, h1, n1

(* Items are issued to the orderer of a paid order, and stay there. *)
LEMMA OwnersKept ==
  ASSUME AccountInv, OrderedInv, NEW w \in Workers, WorkerStep(w),
         NEW o \in Orders \ contended, NEW i \in issued', i.order = o
  PROVE  /\ paymentState'[o] \in {"paid", "canceled_after_paid"}
         /\ i.owner = placedBy'[o]
         /\ i.id \in revoked' => paymentState'[o] = "canceled_after_paid"
<1>0. /\ FulfilmentInv /\ HistoryInv /\ ItemInv /\ TypeInv
      /\ paymentState \in [Orders -> PaymentStates \cup {"none"}]
      /\ placedBy \in [Orders -> Users \cup {None}]
  BY DEF AccountInv, FulfilmentInv, NumberInv, TypeInv, TypeOK
<1>1. CASE req[w].order # o
  BY <1>0, <1>1, OthersUntouched DEF OrderedInv
<1>2. CASE req[w].order = o
  <2>1. ServedOK(w, o)
    BY <1>2 DEF OrderedInv
  <2>2. ASSUME NEW p \in Products, CreateTickets(w, p) \/ CreateBundle(w, p)
        PROVE  /\ paymentState'[o] \in {"paid", "canceled_after_paid"}
               /\ i.owner = placedBy'[o]
               /\ i.id \in revoked' => paymentState'[o] = "canceled_after_paid"
    <3>1. PICK ids \in SUBSET (Items \ UsedIds) :
             Issue(w, p, ids) /\ pc[w] = "fulfil" /\ UNCHANGED <<orderVars, revoked>>
      BY <1>0, <2>2, IssueStep
    <3>2. paymentState' = paymentState /\ placedBy' = placedBy /\ revoked' = revoked
      BY <3>1 DEF orderVars
    <3>3. paymentState[o] = "paid" /\ req[w].user = placedBy[o]
      BY <2>1, <3>1 DEF ServedOK
    <3>4. CASE i \in issued
      BY <3>2, <3>4 DEF OrderedInv
    <3>5. CASE i \notin issued
      <4>1. i.owner = req[w].user /\ i.id \in ids
        BY <3>1, <3>5 DEF Issue
      <4>2. i.id \notin revoked
        BY <1>0, <3>1, <4>1 DEF ItemInv, RecordedAreIssued
      <4> QED
        BY <3>2, <3>3, <4>1, <4>2
    <3> QED
      BY <3>4, <3>5
  <2>3. CASE issued' = issued
    <3>1. paymentState[o] \in {"paid", "canceled_after_paid"} /\ payments[o] # 0
      BY <2>3, NoItems
    <3>2. placedBy' = placedBy
      <4>1. ~PersistOrder(w)
        BY <1>0, <1>2, <3>1
        DEF PersistOrder, FulfilmentInv, NumberInv, CheckoutAlone, Placed
      <4>2. ~SetOrderer(w)
        BY <2>1, <3>1 DEF SetOrderer, ServedOK
      <4> QED
        BY <4>1, <4>2, ItemChange
    <3>3. \/ paymentState' = paymentState
          \/ SetCanceled(w) /\ paymentState'[o] = "canceled_after_paid"
      <4>1. CASE SetPaid(w)
        BY <1>0, <1>2, <3>1, <4>1
        DEF SetPaid, HistoryInv, SeenInv, SeenIsStored, LoadedSteps
      <4>2. CASE SetCanceled(w)
        BY <1>0, <1>2, <3>1, <4>2
        DEF SetCanceled, CanceledState, HistoryInv, SeenInv, SeenIsStored, LoadedSteps
      <4>3. ~PersistOrder(w)
        BY <1>0, <1>2, <3>1
        DEF PersistOrder, FulfilmentInv, NumberInv, CheckoutAlone, Placed
      <4> QED
        BY <4>1, <4>2, <4>3, LifeChange
    <3>4. i.id \in revoked' /\ i.id \notin revoked => paymentState'[o] = "canceled_after_paid"
      <4>1. ASSUME NEW p \in Products, RevokeTickets(w, p) \/ RevokeBundle(w, p)
            PROVE  paymentState' = paymentState /\ paymentState[o] = "canceled_after_paid"
        BY <2>1, <4>1 DEF RevokeTickets, RevokeBundle, ServedOK, orderVars
      <4> QED
        BY <4>1, ItemChange
    <3> QED
      BY <2>3, <3>1, <3>2, <3>3, <3>4 DEF OrderedInv
  <2> QED
    BY <2>2, <2>3, ItemChange
<1> QED
  BY <1>1, <1>2

(* What the request for the order knows of it stays true. *)
LEMMA ServedKept ==
  ASSUME AccountInv, OrderedInv, NEW w \in Workers, WorkerStep(w),
         NEW o \in Orders \ contended, req'[w].order = o
  PROVE  ServedOK(w, o)'
<1>0. /\ FulfilmentInv /\ HistoryInv /\ TypeInv
      /\ pc \in [Workers -> Steps] /\ req \in [Workers -> Request] /\ req[w] \in Request
      /\ paymentState \in [Orders -> PaymentStates \cup {"none"}]
      /\ placedBy \in [Orders -> Users \cup {None}] /\ o # None
      /\ req[w].order = o => ServedOK(w, o) /\ SeenIsStored(w)
  BY ConstantsAssumption
  DEF AccountInv, FulfilmentInv, NumberInv, HistoryInv, SeenInv, TypeInv, TypeOK, OrderedInv
<1>1. CASE pc'[w] \notin {"add_payment", "set_paid", "reread_paid", "fulfil", "record",
                          "reread_canceled", "revoke", "set_orderer"}
  BY <1>1 DEF ServedOK
<1>2. CASE Finish(w)
  BY <1>0, <1>2 DEF Finish, NoRequest
<1>3. CASE /\ pc'[w] \in {"add_payment", "set_paid", "reread_paid", "fulfil", "record",
                          "reread_canceled", "revoke", "set_orderer"}
           /\ ~Finish(w)
  <2>1. ASSUME NEW x \in Orders, LoadOrderToPay(w, x)
        PROVE  ServedOK(w, o)'
    <3>1. /\ pc'[w] = "add_payment" /\ req'[w].order = x /\ req'[w].user = placedBy[x]
          /\ placedBy' = placedBy
      BY <1>0, <1>3, <2>1 DEF LoadOrderToPay, Proceed, NoRequest, orderVars
    <3> QED
      BY <3>1 DEF ServedOK
  <2>2. CASE AddPayment(w)
    <3>1. /\ pc[w] = "add_payment" /\ pc'[w] = "set_paid" /\ req' = req /\ placedBy' = placedBy
      BY <1>0, <1>3, <2>2 DEF AddPayment, Proceed, orderVars
    <3> QED
      BY <1>0, <3>1 DEF ServedOK
  <2>3. CASE SetPaid(w)
    <3>1. /\ pc[w] = "set_paid" /\ pc'[w] = "reread_paid" /\ req' = req /\ placedBy' = placedBy
          /\ paymentState'[o] = "paid"
      BY <1>0, <1>3, <2>3 DEF SetPaid, Proceed
    <3> QED
      BY <1>0, <3>1 DEF ServedOK
  <2>4. CASE RereadPaidOrder(w)
    <3>1. /\ pc[w] = "reread_paid" /\ pc'[w] = "fulfil" /\ UNCHANGED orderVars
          /\ req'[w].order = req[w].order /\ req'[w].user = req[w].user
      BY <1>0, <1>3, <2>4 DEF RereadPaidOrder, Proceed, Request
    <3> QED
      BY <1>0, <3>1 DEF ServedOK, orderVars
  <2>5. ASSUME NEW p \in Products, CreateTickets(w, p) \/ CreateBundle(w, p)
        PROVE  ServedOK(w, o)'
    <3>1. PICK ids \in SUBSET (Items \ UsedIds) :
             /\ IsFiniteSet(ids) /\ Issue(w, p, ids)
             /\ pc[w] = "fulfil" /\ pc'[w] \in {"fulfil", "record"}
             /\ p \in req[w].todo /\ req[w].line \in {None, p}
             /\ req'[w] = [req[w] EXCEPT !.line = p, !.made = req[w].made \cup ids]
             /\ UNCHANGED <<orderVars, payments, processingResult, revoked>>
      BY <1>0, <2>5, IssueStep
    <3>2. req'[w].order = req[w].order /\ req'[w].user = req[w].user
      BY <1>0, <3>1 DEF Request
    <3> QED
      BY <1>0, <3>1, <3>2 DEF ServedOK, orderVars
  <2>6. CASE UpdateProcessingResult(w)
    <3>1. /\ pc[w] = "record" /\ pc'[w] = "fulfil" /\ UNCHANGED orderVars
          /\ req'[w].order = req[w].order /\ req'[w].user = req[w].user
      BY <1>0, <1>3, <2>6 DEF UpdateProcessingResult, Proceed, Request
    <3> QED
      BY <1>0, <3>1 DEF ServedOK, orderVars
  <2>7. CASE ReadPayments(w)
    <3>1. /\ pc'[w] = "set_orderer" /\ req' = req /\ payments' = payments
          /\ payments[req[w].order] = 0
      BY <1>0, <1>3, <2>7 DEF ReadPayments, Proceed
    <3> QED
      BY <3>1 DEF ServedOK
  <2>8. CASE SetCanceled(w)
    <3>1. /\ pc[w] = "set_canceled" /\ pc'[w] = "reread_canceled" /\ req' = req
          /\ req[w].seen = "paid"
          /\ paymentState' = [paymentState EXCEPT ![req[w].order] = CanceledState(req[w].seen)]
      BY <1>0, <1>3, <2>8 DEF SetCanceled, Proceed
    <3>2. paymentState'[o] = "canceled_after_paid"
      BY <1>0, <3>1 DEF CanceledState
    <3> QED
      BY <3>1, <3>2 DEF ServedOK
  <2>9. CASE RereadCanceledOrder(w)
    <3>1. /\ pc[w] = "reread_canceled" /\ pc'[w] = "revoke" /\ UNCHANGED orderVars
          /\ req'[w].order = req[w].order
      BY <1>0, <1>3, <2>9 DEF RereadCanceledOrder, Proceed, Request
    <3> QED
      BY <1>0, <3>1 DEF ServedOK, orderVars
  <2>10. ASSUME NEW p \in Products, \/ RevokeNothingRecorded(w, p)
                                    \/ RevokeTickets(w, p) \/ RevokeBundle(w, p)
         PROVE  ServedOK(w, o)'
    <3>1. /\ pc[w] = "revoke" /\ pc'[w] = "revoke" /\ UNCHANGED orderVars
          /\ req'[w].order = req[w].order
      BY <1>0, <1>3, <2>10
      DEF RevokeNothingRecorded, RevokeTickets, RevokeBundle, LineRevoked, Request
    <3> QED
      BY <1>0, <3>1 DEF ServedOK, orderVars
  <2>11. CASE \/ \E x \in Orders : \/ \E u \in Users, cart \in Carts : SubmitCart(w, u, x, cart)
                                   \/ FindOpenOrder(w, x)
                                   \/ \E u \in Users : LoadOrderToUpdate(w, x, u)
                                   \/ LoadOrderToCancel(w, x)
              \/ GenerateOrderNumber(w) \/ PersistOrder(w) \/ SetOrderer(w)
              \/ RefuseCapture(w) \/ Crash(w)
    BY <1>0, <1>3, <2>11
    DEF SubmitCart, FindOpenOrder, LoadOrderToUpdate, LoadOrderToCancel,
        GenerateOrderNumber, PersistOrder, SetOrderer, RefuseCapture, Crash, Proceed
  <2> QED
    BY <2>1, <2>2, <2>3, <2>4, <2>5, <2>6, <2>7, <2>8, <2>9, <2>10, <2>11
    DEF WorkerStep, Serve, Begin, Continue
<1> QED
  BY <1>1, <1>2, <1>3

(* The invariants about every order are kept together. *)
LEMMA AccountNext == AccountInv /\ [HistoryNext]_hvars => AccountInv'
  BY FulfilmentNext, PaymentNext, HistoryNextInv DEF AccountInv

LEMMA AccountInit == HistoryInit => AccountInv
  BY FulfilmentInit, PaymentInit, HistoryInitInv DEF AccountInv

(* Every step keeps what is said of orders whose requests do not overlap. *)
LEMMA OrderedNext ==
  AccountInv /\ OrderedInv /\ [HistoryNext]_hvars => OrderedInv'
<1> SUFFICES ASSUME AccountInv, OrderedInv, [HistoryNext]_hvars
             PROVE  OrderedInv'
  OBVIOUS
<1>0. AccountInv'
  BY AccountNext
<1>1. CASE UNCHANGED hvars
  <2>1. /\ \A o, p : IssuedFor(o, p)' = IssuedFor(o, p) /\ Pledged(o, p)' = Pledged(o, p)
        /\ \A w, o : ServedOK(w, o)' <=> ServedOK(w, o)
        /\ UNCHANGED <<contended, req, issued, revoked, paymentState, placedBy, lineItems>>
    BY <1>1
    DEF hvars, vars, historyVars, itemVars, orderVars, IssuedFor, Pledged, Due, MadeOf, ServedOK
  <2> QED
    BY <2>1 DEF OrderedInv
<1>2. CASE HistoryNext
  <2> SUFFICES ASSUME NEW o \in Orders \ contended'
               PROVE  /\ \A p \in Products :
                           Cardinality(IssuedFor(o, p)') + Cardinality(Pledged(o, p)')
                             <= lineItems'[o][p]
                      /\ \A i \in issued' : i.order = o =>
                           /\ paymentState'[o] \in {"paid", "canceled_after_paid"}
                           /\ i.owner = placedBy'[o]
                           /\ i.id \in revoked' => paymentState'[o] = "canceled_after_paid"
                      /\ \A v \in Workers : req'[v].order = o => ServedOK(v, o)'
    BY DEF OrderedInv
  <2>1. PICK w \in Workers : WorkerStep(w)
    BY <1>2 DEF HistoryNext, WorkerStep
  <2>2. o \in Orders \ contended
    BY <1>2 DEF HistoryNext
  <2>3. ASSUME NEW v \in Workers, req'[v].order = o
        PROVE  ServedOK(v, o)'
    <3>1. CASE v = w
      BY <2>1, <2>2, <2>3, <3>1, ServedKept
    <3>2. CASE v # w
      <4>1. pc'[v] = pc[v] /\ req'[v] = req[v]
        BY <2>1, <3>2, StepIsLocal DEF AccountInv, HistoryInv
      <4>2. req[w].order # o
        BY <2>2, <2>3, <3>2, <4>1, ServedByOne DEF AccountInv
      <4>3. /\ paymentState'[o] = paymentState[o] /\ placedBy'[o] = placedBy[o]
            /\ payments'[o] = payments[o]
        BY <2>1, <4>2, OthersUntouched DEF AccountInv
      <4>4. ServedOK(v, o)
        BY <2>2, <2>3, <4>1 DEF OrderedInv
      <4> QED
        BY <4>1, <4>3, <4>4 DEF ServedOK
    <3> QED
      BY <3>1, <3>2
  <2> QED
    BY <1>0, <2>1, <2>2, <2>3, QuantityKept, OwnersKept
<1> QED
  BY <1>1, <1>2

(* Nothing is issued at the start. *)
LEMMA OrderedInit == HistoryInit => OrderedInv
<1> SUFFICES ASSUME HistoryInit, NEW o \in Orders
             PROVE  /\ \A p \in Products :
                         Cardinality(IssuedFor(o, p)) + Cardinality(Pledged(o, p)) <= lineItems[o][p]
                    /\ issued = {}
                    /\ \A w \in Workers : ServedOK(w, o)
  BY DEF OrderedInv
<1>1. \A p : IssuedFor(o, p) = {}
  BY DEF HistoryInit, Init, IssuedFor
<1>2. \A p : Pledged(o, p) = {}
  <2>1. \A v \in Workers : req[v].order # o
    BY ConstantsAssumption DEF HistoryInit, Init, NoRequest
  <2> QED
    BY <2>1 DEF Pledged
<1>3. \A p \in Products : lineItems[o][p] = 0
  BY DEF HistoryInit, Init, EmptyCart
<1>4. issued = {} /\ \A w \in Workers : ServedOK(w, o)
  BY DEF HistoryInit, Init, ServedOK
<1>5. Cardinality({}) = 0
  BY FS_EmptySet
<1> QED
  BY <1>1, <1>2, <1>3, <1>4, <1>5

\* What is issued, recorded and revoked for an order is what was ordered: as
\* long as its requests do not overlap there are never more tickets and bundles
\* than were ordered, only for an order that is or was paid, in the name of its
\* orderer, and valid as long as the order is paid; and whatever overlaps, only
\* items created for a line item are recorded with it, and only such revoked.
THEOREM ItemsAreOrdered == HistorySpec => []IssuedAsOrdered
<1>1. AccountInv /\ OrderedInv => IssuedAsOrdered
  <2> SUFFICES ASSUME AccountInv, OrderedInv PROVE IssuedAsOrdered
    OBVIOUS
  <2>1. RecordedAreIssued
    BY DEF AccountInv, FulfilmentInv, ItemInv
  <2>2. OnlyOrdered
    <3> SUFFICES ASSUME NEW o \in Orders \ contended
                 PROVE  \A p \in Products : Cardinality(IssuedFor(o, p)) <= lineItems[o][p]
      BY DEF OnlyOrdered, OrderedInv
    <3> TAKE p \in Products
    <3>1. /\ IsFiniteSet(IssuedFor(o, p)) /\ IsFiniteSet(Pledged(o, p))
          /\ lineItems[o][p] \in Nat
      BY DEF AccountInv, FulfilmentInv, ItemInv, PaymentInv, NumberInv, TypeInv, TypeOK
    <3>2. Cardinality(IssuedFor(o, p)) \in Nat /\ Cardinality(Pledged(o, p)) \in Nat
      BY <3>1, FS_CardinalityType
    <3>3. Cardinality(IssuedFor(o, p)) + Cardinality(Pledged(o, p)) <= lineItems[o][p]
      BY DEF OrderedInv
    <3> QED
      BY <3>1, <3>2, <3>3
  <2>3. PaidItemsAreValid
    <3>1. \A i \in issued : i.order \in Orders
      BY DEF AccountInv, FulfilmentInv, NumberInv, TypeInv, TypeOK, Item
    <3> QED
      BY <3>1 DEF PaidItemsAreValid, OrderedInv
  <2> QED
    BY <2>1, <2>2, <2>3 DEF IssuedAsOrdered
<1> QED
  BY <1>1, AccountInit, OrderedInit, AccountNext, OrderedNext, PTL DEF HistorySpec, hvars

-----------------------------------------------------------------------------
(* Orders that are settled *)

\* A line item has its items, and they are recorded with it.
Fulfilled(o, p) ==
  /\ processingResult[o][p] = IssuedFor(o, p)
  /\ Cardinality(IssuedFor(o, p)) = lineItems[o][p]

\* What is true of an order no request has left half way.
Done(o) ==
  /\ paymentState[o] \in {"paid", "canceled_after_paid"} =>
       payments[o] >= 1 /\ \A p \in Actionable(o) : Fulfilled(o, p)
  /\ paymentState[o] = "canceled_after_paid" =>
       \A p \in Products : IssuedFor(o, p) \subseteq revoked
  /\ paymentState[o] \in {"open", "canceled_before_paid"} => payments[o] = 0

\* Steps at which a request has done a part of what belongs together.
UnderWay == {"set_paid", "reread_paid", "fulfil", "record", "reread_canceled", "revoke"}

\* What is true of the order while its request is under way: the line items
\* still to do have nothing yet, and those left behind have everything.
HalfWay(w, o) ==
  LET r == req[w]
  IN  /\ payments[o] >= 1
      /\ pc[w] \in {"set_paid", "reread_paid"} => \A p \in Products : IssuedFor(o, p) = {}
      /\ pc[w] \in {"fulfil", "record"} =>
           /\ \A p \in Actionable(o) \ r.todo : Fulfilled(o, p)
           /\ \A p \in r.todo : p # r.line => IssuedFor(o, p) = {}
           /\ r.line # None => r.made = IssuedFor(o, r.line)
      /\ pc[w] \in {"reread_canceled", "revoke"} => \A p \in Actionable(o) : Fulfilled(o, p)
      /\ pc[w] = "revoke" =>
           \A p \in Actionable(o) : /\ r.recorded[p] = IssuedFor(o, p)
                                    /\ p \notin r.todo => IssuedFor(o, p) \subseteq revoked

SettledInv ==
  \A o \in Placed \ (contended \cup interrupted) :
    /\ (\A w \in Workers : req[w].order = o => pc[w] \notin UnderWay) => Done(o)
    /\ \A w \in Workers : req[w].order = o /\ pc[w] \in UnderWay => HalfWay(w, o)

OrderInv == AccountInv /\ OrderedInv

(* Only line items with an action procedure have items. *)
LEMMA NotActionable ==
  ASSUME OrderInv, NEW o \in Orders \ contended, NEW p \in Products, p \notin Actionable(o)
  PROVE  IssuedFor(o, p) = {}
<1>1. CASE Kind[p] = "plain"
  BY <1>1 DEF OrderInv, AccountInv, FulfilmentInv, ItemInv, IssuedFor
<1>2. CASE Kind[p] # "plain"
  <2>1. lineItems[o][p] = 0 /\ IsFiniteSet(IssuedFor(o, p)) /\ IsFiniteSet(Pledged(o, p))
    BY <1>2
    DEF Actionable, OrderInv, AccountInv, FulfilmentInv, ItemInv, PaymentInv, NumberInv,
        TypeInv, TypeOK
  <2>2. Cardinality(IssuedFor(o, p)) \in Nat /\ Cardinality(Pledged(o, p)) \in Nat
    BY <2>1, FS_CardinalityType
  <2>3. Cardinality(IssuedFor(o, p)) + Cardinality(Pledged(o, p)) <= 0
    BY <2>1 DEF OrderInv, OrderedInv
  <2>4. Cardinality(IssuedFor(o, p)) = 0
    BY <2>2, <2>3
  <2> QED
    BY <2>1, <2>4, FS_EmptySet
<1> QED
  BY <1>1, <1>2

(* What an order looks like when nothing about it has changed. *)
LEMMA SameOrder ==
  ASSUME NEW o \in Orders, NEW v \in Workers,
         paymentState'[o] = paymentState[o], lineItems'[o] = lineItems[o],
         payments'[o] = payments[o], processingResult'[o] = processingResult[o],
         \A p \in Products : /\ IssuedFor(o, p)' = IssuedFor(o, p)
                             /\ IssuedFor(o, p) \subseteq revoked
                                  => IssuedFor(o, p) \subseteq revoked'
  PROVE  /\ Actionable(o)' = Actionable(o)
         /\ \A p \in Products : Fulfilled(o, p)' <=> Fulfilled(o, p)
         /\ Done(o) => Done(o)'
         /\ pc'[v] = pc[v] /\ req'[v] = req[v] /\ HalfWay(v, o)
              /\ req[v].todo \subseteq Products /\ req[v].line \in Products \cup {None}
              => HalfWay(v, o)'
<1>1. Actionable(o)' = Actionable(o) /\ Actionable(o) \subseteq Products
  BY DEF Actionable
<1>2. \A p \in Products : Fulfilled(o, p)' <=> Fulfilled(o, p)
  BY DEF Fulfilled
<1>3. Done(o) => Done(o)'
  BY <1>1, <1>2 DEF Done
<1>4. ASSUME pc'[v] = pc[v], req'[v] = req[v], HalfWay(v, o),
             req[v].todo \subseteq Products, req[v].line \in Products \cup {None}
      PROVE  HalfWay(v, o)'
  BY <1>1, <1>2, <1>4 DEF HalfWay
<1> QED
  BY <1>1, <1>2, <1>3, <1>4

(* A request for another order begins or goes on. *)
LEMMA SettledApart ==
  ASSUME OrderInv, SettledInv, NEW w \in Workers, WorkerStep(w),
         NEW o \in Placed \ (contended \cup interrupted), req[w].order # o
  PROVE  /\ (\A v \in Workers : req'[v].order = o => pc'[v] \notin UnderWay) => Done(o)'
         /\ \A v \in Workers : req'[v].order = o /\ pc'[v] \in UnderWay => HalfWay(v, o)'
<1>0. /\ FulfilmentInv /\ TypeInv /\ o \in Orders /\ o # None
      /\ pc \in [Workers -> Steps] /\ req \in [Workers -> Request]
      /\ \A v \in Workers : req[v].todo \subseteq Products /\ req[v].line \in Products \cup {None}
  BY ConstantsAssumption
  DEF OrderInv, AccountInv, FulfilmentInv, NumberInv, TypeInv, TypeOK, Placed, Request
<1>1. \A v \in Workers \ {w} : pc'[v] = pc[v] /\ req'[v] = req[v]
  BY <1>0, StepIsLocal
<1>2. req'[w].order = o => pc'[w] \notin UnderWay
  <2>1. CASE pc[w] # "idle"
    BY <1>0, <2>1, BusyKeepsOrder DEF Finish, NoRequest
  <2>2. CASE pc[w] = "idle"
    <3>1. CASE Begin(w)
      BY <1>0, <2>2, <3>1
      DEF Begin, SubmitCart, FindOpenOrder, LoadOrderToPay, LoadOrderToUpdate,
          LoadOrderToCancel, Finish, Proceed, UnderWay
    <3>2. CASE Continue(w)
      BY <2>2, <3>2
      DEF Continue, GenerateOrderNumber, LoadOrderToPay, AddPayment, PersistOrder, SetPaid,
          RereadPaidOrder, CreateTickets, CreateBundle, UpdateProcessingResult,
          ReadPayments, SetOrderer, SetCanceled, RereadCanceledOrder, RevokeNothingRecorded,
          RevokeTickets, RevokeBundle
    <3>3. CASE RefuseCapture(w) \/ Crash(w)
      BY <2>2, <3>3 DEF RefuseCapture, Crash
    <3> QED
      BY <3>1, <3>2, <3>3 DEF WorkerStep, Serve
  <2> QED
    BY <2>1, <2>2
<1>3. /\ paymentState'[o] = paymentState[o] /\ lineItems'[o] = lineItems[o]
      /\ payments'[o] = payments[o] /\ processingResult'[o] = processingResult[o]
      /\ \A p \in Products : /\ IssuedFor(o, p)' = IssuedFor(o, p)
                             /\ IssuedFor(o, p) \subseteq revoked
                                  => IssuedFor(o, p) \subseteq revoked'
  <2>1. revoked \subseteq revoked'
    BY <1>0, ItemsGrow
  <2> QED
    BY <1>0, <2>1, OthersUntouched
<1>4. ASSUME \A v \in Workers : req'[v].order = o => pc'[v] \notin UnderWay
      PROVE  Done(o)'
  <2>1. \A v \in Workers : req[v].order = o => pc[v] \notin UnderWay
    BY <1>1, <1>4
  <2>2. Done(o)
    BY <2>1 DEF SettledInv
  <2> QED
    BY <1>0, <1>3, <2>2, SameOrder
<1>5. ASSUME NEW v \in Workers, req'[v].order = o, pc'[v] \in UnderWay
      PROVE  HalfWay(v, o)'
  <2>1. v # w /\ pc'[v] = pc[v] /\ req'[v] = req[v]
    BY <1>1, <1>2, <1>5
  <2>2. HalfWay(v, o)
    BY <1>5, <2>1 DEF SettledInv
  <2> QED
    BY <1>0, <1>3, <2>1, <2>2, SameOrder
<1> QED
  BY <1>4, <1>5

(* The one request for the order goes on. *)
LEMMA SettledOwn ==
  ASSUME OrderInv, SettledInv, NEW w \in Workers, Serve(w),
         NEW o \in Placed \ (contended \cup interrupted), req[w].order = o
  PROVE  \/ Done(o)' /\ (pc'[w] \notin UnderWay \/ req'[w].order # o)
         \/ HalfWay(w, o)' /\ pc'[w] \in UnderWay
<1>0. /\ WorkerStep(w)
      /\ FulfilmentInv /\ TypeInv /\ ItemInv /\ WorkOK(w) /\ ServedOK(w, o) /\ SeenIsStored(w)
      /\ HistoryInv /\ AccountInv /\ OrderedInv
      /\ o \in Orders /\ o \notin contended /\ o # None /\ None \notin Products
      /\ pc \in [Workers -> Steps] /\ req \in [Workers -> Request] /\ req[w] \in Request
      /\ req[w].todo \subseteq Products /\ req[w].line \in Products \cup {None}
      /\ paymentState \in [Orders -> PaymentStates \cup {"none"}]
      /\ payments \in [Orders -> Nat] /\ lineItems \in [Orders -> [Products -> Nat]]
      /\ processingResult \in [Orders -> [Products -> SUBSET Items]]
      /\ Actionable(o) \subseteq Products
  BY ConstantsAssumption
  DEF OrderInv, AccountInv, OrderedInv, FulfilmentInv, NumberInv, HistoryInv, SeenInv,
      TypeInv, TypeOK, Placed, Request, Actionable, WorkerStep
<1>1. ASSUME pc[w] \notin UnderWay PROVE Done(o)
  <2>1. \A v \in Workers : req[v].order = o => v = w
    BY <1>0, ServedByOne
  <2> QED
    BY <1>1, <2>1 DEF SettledInv
<1>2. pc[w] \in UnderWay => HalfWay(w, o)
  BY DEF SettledInv
<1>3. Finish(w) => pc'[w] \notin UnderWay
  BY <1>0 DEF Finish, Proceed, UnderWay
<1>4. ASSUME UNCHANGED <<paymentState, lineItems, payments, itemVars>>
      PROVE  /\ Done(o) => Done(o)' /\ Actionable(o)' = Actionable(o)
             /\ \A p \in Products : /\ Fulfilled(o, p)' <=> Fulfilled(o, p)
                                    /\ IssuedFor(o, p)' = IssuedFor(o, p)
             /\ revoked' = revoked
  <2>1. /\ \A p \in Products : IssuedFor(o, p)' = IssuedFor(o, p)
        /\ revoked' = revoked /\ processingResult' = processingResult
    BY <1>4 DEF itemVars, IssuedFor
  <2> QED
    BY <1>0, <1>4, <2>1, SameOrder
<1>5. CASE \/ GenerateOrderNumber(w) \/ PersistOrder(w) \/ RefuseCapture(w)
           \/ Begin(w) \/ (\E x \in Orders : pc[w] = "capture" /\ LoadOrderToPay(w, x))
           \/ ReadPayments(w) \/ SetOrderer(w)
  <2>1. pc[w] # "idle"
    BY <1>0 DEF TypeInv, RequestOK, NoRequest
  <2>2. ~PersistOrder(w)
    BY <1>0 DEF PersistOrder, FulfilmentInv, NumberInv, CheckoutAlone
  <2>3. /\ UNCHANGED <<paymentState, lineItems, payments, itemVars>>
        /\ pc[w] \notin UnderWay /\ pc'[w] \notin UnderWay
    BY <1>0, <1>5, <2>1, <2>2
    DEF GenerateOrderNumber, RefuseCapture, Begin, SubmitCart, FindOpenOrder, LoadOrderToPay,
        LoadOrderToUpdate, LoadOrderToCancel, ReadPayments, SetOrderer, Finish, Proceed,
        orderVars, UnderWay
  <2> QED
    BY <1>1, <1>4, <2>3
<1>6. CASE AddPayment(w)
  <2>1. /\ pc[w] = "add_payment" /\ payments'[o] = payments[o] + 1
        /\ UNCHANGED <<orderVars, itemVars>>
    BY <1>0, <1>6 DEF AddPayment, PaymentAdded
  <2>2. /\ paymentState' = paymentState /\ lineItems' = lineItems
        /\ processingResult' = processingResult /\ revoked' = revoked
        /\ \A p \in Products : IssuedFor(o, p)' = IssuedFor(o, p)
        /\ Actionable(o)' = Actionable(o)
    BY <2>1 DEF orderVars, itemVars, IssuedFor, Actionable
  <2>3. CASE IsPaid(req[w].seen)
    <3>1. pc'[w] \notin UnderWay /\ paymentState[o] = "paid"
      BY <1>0, <1>3, <1>6, <2>1, <2>3 DEF AddPayment, IsPaid, SeenIsStored, LoadedSteps
    <3>2. Done(o)
      BY <1>1, <2>1 DEF UnderWay
    <3>3. Done(o)'
      BY <1>0, <2>1, <2>2, <3>1, <3>2 DEF Done, Fulfilled
    <3> QED
      BY <3>1, <3>3
  <2>4. CASE ~IsPaid(req[w].seen)
    <3>1. pc'[w] = "set_paid" /\ paymentState[o] = "open"
      BY <1>0, <1>6, <2>1, <2>4 DEF AddPayment, IsPaid, Proceed, SeenIsStored, LoadedSteps
    <3>2. \A p \in Products : IssuedFor(o, p) = {}
      BY <1>0, <3>1, NoItems
    <3>3. HalfWay(w, o)'
      BY <1>0, <2>1, <2>2, <3>1, <3>2 DEF HalfWay
    <3> QED
      BY <3>1, <3>3 DEF UnderWay
  <2> QED
    BY <2>3, <2>4
<1>7. CASE SetPaid(w)
  <2>1. /\ pc[w] = "set_paid" /\ pc'[w] = "reread_paid" /\ payments' = payments
        /\ \A p \in Products : IssuedFor(o, p)' = IssuedFor(o, p)
    BY <1>0, <1>7 DEF SetPaid, Proceed, itemVars, IssuedFor
  <2>2. HalfWay(w, o)'
    BY <1>2, <2>1 DEF HalfWay, UnderWay
  <2> QED
    BY <2>1, <2>2 DEF UnderWay
<1>8. CASE RereadPaidOrder(w)
  <2>1. /\ pc[w] = "reread_paid" /\ UNCHANGED <<paymentState, lineItems, payments, itemVars>>
        /\ paymentState[o] = "paid"
    BY <1>0, <1>8 DEF RereadPaidOrder, orderVars, ServedOK
  <2>2. HalfWay(w, o)
    BY <1>2, <2>1 DEF UnderWay
  <2>3. CASE Actionable(o) = {}
    <3>1. pc'[w] \notin UnderWay
      BY <1>3, <1>8, <2>3 DEF RereadPaidOrder
    <3>2. Done(o)'
      BY <1>4, <2>1, <2>2, <2>3 DEF Done, HalfWay
    <3> QED
      BY <3>1, <3>2
  <2>4. CASE Actionable(o) # {}
    <3>1. pc'[w] = "fulfil" /\ req' = [req EXCEPT ![w].todo = Actionable(o)]
      BY <1>0, <1>8, <2>1, <2>4 DEF RereadPaidOrder, Proceed
    <3>2. /\ req'[w].todo = Actionable(o) /\ req'[w].line = None
      BY <1>0, <2>1, <3>1 DEF Request, WorkOK
    <3>3. /\ payments'[o] >= 1 /\ pc'[w] = "fulfil"
          /\ Actionable(o)' \ req'[w].todo = {}
          /\ \A p \in req'[w].todo : IssuedFor(o, p)' = {}
      <4>1. payments[o] >= 1 /\ \A p \in Products : IssuedFor(o, p) = {}
        BY <2>1, <2>2 DEF HalfWay
      <4>2. pc'[w] = "fulfil"
        BY <1>0, <3>1
      <4>3. Actionable(o)' = Actionable(o) /\ payments' = payments
        BY <2>1 DEF Actionable
      <4>4. \A p \in Products : IssuedFor(o, p)' = IssuedFor(o, p)
        BY <1>4, <2>1
      <4> QED
        BY <1>0, <3>2, <4>1, <4>2, <4>3, <4>4
    <3>4. HalfWay(w, o)'
      BY <3>2, <3>3 DEF HalfWay
    <3> QED
      BY <3>3, <3>4 DEF UnderWay
  <2> QED
    BY <2>3, <2>4
<1>9. ASSUME NEW p \in Products, CreateTickets(w, p) \/ CreateBundle(w, p)
      PROVE  HalfWay(w, o)' /\ pc'[w] \in UnderWay
  <2>1. PICK ids \in SUBSET (Items \ UsedIds) :
           /\ IsFiniteSet(ids) /\ Issue(w, p, ids)
           /\ pc[w] = "fulfil" /\ pc'[w] \in {"fulfil", "record"}
           /\ p \in req[w].todo /\ req[w].line \in {None, p}
           /\ req'[w] = [req[w] EXCEPT !.line = p, !.made = req[w].made \cup ids]
           /\ UNCHANGED <<orderVars, payments, processingResult, revoked>>
    BY <1>0, <1>9, IssueStep
  <2>2. /\ req'[w].line = p /\ req'[w].made = req[w].made \cup ids
        /\ req'[w].todo = req[w].todo
    BY <1>0, <2>1 DEF Request
  <2>3. /\ IssuedFor(o, p)' = IssuedFor(o, p) \cup ids
        /\ \A q \in Products : q # p => IssuedFor(o, q)' = IssuedFor(o, q)
    <3>1. ids \cap UsedIds = {} /\ Issue(w, p, ids)
      BY <2>1
    <3>2. PICK x : x = req[w].order
      OBVIOUS
    <3>3. /\ IssuedFor(x, p)' = IssuedFor(x, p) \cup ids
          /\ \A y \in Orders, q \in Products :
               y # x \/ q # p => IssuedFor(y, q)' = IssuedFor(y, q)
      BY <3>1, <3>2, IssuedGrows
    <3>4. x = o
      BY <3>2
    <3> QED
      BY <1>0, <3>3, <3>4
  <2>4. /\ Actionable(o)' = Actionable(o) /\ payments' = payments
        /\ \A q \in Products : q # p /\ Fulfilled(o, q) => Fulfilled(o, q)'
    BY <2>1, <2>3 DEF orderVars, Actionable, Fulfilled
  <2>5. HalfWay(w, o)
    BY <1>2, <2>1 DEF UnderWay
  <2>6. req[w].made = IssuedFor(o, p)
    <3>1. CASE req[w].line = None
      BY <1>0, <2>1, <2>5, <3>1 DEF HalfWay, WorkOK
    <3>2. CASE req[w].line = p
      BY <1>0, <2>1, <2>5, <3>2 DEF HalfWay
    <3> QED
      BY <2>1, <3>1, <3>2
  <2>7. \A q \in req[w].todo : q # p => IssuedFor(o, q)' = {}
    BY <1>0, <2>1, <2>3, <2>5 DEF HalfWay
  <2>8. \A q \in Actionable(o) \ req[w].todo : Fulfilled(o, q)'
    BY <1>0, <2>1, <2>4, <2>5 DEF HalfWay
  <2>9. payments[o] >= 1
    BY <2>5 DEF HalfWay
  <2> QED
    BY <2>1, <2>2, <2>3, <2>4, <2>6, <2>7, <2>8, <2>9 DEF HalfWay, UnderWay
<1>10. CASE UpdateProcessingResult(w)
  <2> DEFINE p == req[w].line
  <2>1. /\ pc[w] = "record" /\ UNCHANGED <<orderVars, payments, issued, revoked>>
        /\ processingResult'[o] = [processingResult[o] EXCEPT ![p] = req[w].made]
    BY <1>0, <1>10 DEF UpdateProcessingResult, ResultOf
  <2>2. p \in Products /\ HalfWay(w, o)
    BY <1>0, <1>2, <2>1 DEF TypeInv, RequestOK, UnderWay
  <2>3. /\ Actionable(o)' = Actionable(o) /\ payments' = payments /\ revoked' = revoked
        /\ paymentState' = paymentState
        /\ \A q \in Products : IssuedFor(o, q)' = IssuedFor(o, q)
    BY <2>1 DEF orderVars, Actionable, IssuedFor
  <2>4. req[w].made = IssuedFor(o, p) /\ Cardinality(req[w].made) = lineItems[o][p]
    BY <1>0, <2>1, <2>2 DEF HalfWay, WorkOK
  <2>5. \A q \in Products : q = p \/ Fulfilled(o, q) => Fulfilled(o, q)'
    BY <1>0, <2>1, <2>3, <2>4 DEF Fulfilled, orderVars
  <2>6. \A q \in Actionable(o) \ (req[w].todo \ {p}) : Fulfilled(o, q)'
    BY <1>0, <2>1, <2>2, <2>5 DEF HalfWay
  <2>7. payments[o] >= 1 /\ \A q \in req[w].todo : q # p => IssuedFor(o, q) = {}
    BY <2>1, <2>2 DEF HalfWay
  <2>8. CASE req[w].todo \ {p} = {}
    <3>1. pc'[w] \notin UnderWay
      BY <1>3, <1>10, <2>8 DEF UpdateProcessingResult, LinesLeft
    <3>2. paymentState[o] = "paid"
      BY <1>0, <2>1 DEF ServedOK
    <3>3. Done(o)'
      BY <2>3, <2>6, <2>7, <2>8, <3>2 DEF Done
    <3> QED
      BY <3>1, <3>3
  <2>9. CASE req[w].todo \ {p} # {}
    <3>1. /\ pc'[w] = "fulfil"
          /\ req' = [req EXCEPT ![w].todo = req[w].todo \ {p}, ![w].line = None,
                                ![w].made = {}]
      BY <1>0, <1>10, <2>9 DEF UpdateProcessingResult, LinesLeft, Proceed
    <3>2. req'[w].todo = req[w].todo \ {p} /\ req'[w].line = None
      BY <1>0, <3>1 DEF Request
    <3>3. HalfWay(w, o)'
      BY <1>0, <2>3, <2>6, <2>7, <3>1, <3>2 DEF HalfWay
    <3> QED
      BY <3>1, <3>3 DEF UnderWay
  <2> QED
    BY <2>8, <2>9
<1>11. CASE SetCanceled(w)
  <2>1. /\ pc[w] = "set_canceled" /\ UNCHANGED <<lineItems, payments, itemVars>>
        /\ paymentState' = [paymentState EXCEPT ![o] = CanceledState(req[w].seen)]
        /\ req[w].seen = paymentState[o] /\ req[w].seen \in {"open", "paid"}
    BY <1>0, <1>11 DEF SetCanceled, SeenIsStored, LoadedSteps
  <2>2. /\ Actionable(o)' = Actionable(o)
        /\ \A p \in Products : Fulfilled(o, p) => Fulfilled(o, p)'
    BY <2>1 DEF itemVars, Actionable, Fulfilled, IssuedFor
  <2>3. Done(o)
    BY <1>1, <2>1 DEF UnderWay
  <2>4. CASE req[w].seen = "paid"
    <3>1. pc'[w] = "reread_canceled"
      BY <1>0, <1>11, <2>4 DEF SetCanceled, Proceed
    <3>2. HalfWay(w, o)'
      BY <1>0, <2>1, <2>2, <2>3, <2>4, <3>1 DEF HalfWay, Done
    <3> QED
      BY <3>1, <3>2 DEF UnderWay
  <2>5. CASE req[w].seen = "open"
    <3>1. pc'[w] \notin UnderWay
      BY <1>3, <1>11, <2>5 DEF SetCanceled
    <3>2. paymentState'[o] = "canceled_before_paid" /\ payments'[o] = 0
      BY <1>0, <2>1, <2>3, <2>5 DEF CanceledState, Done
    <3> QED
      BY <3>1, <3>2 DEF Done
  <2> QED
    BY <2>1, <2>4, <2>5
<1>12. CASE RereadCanceledOrder(w)
  <2>1. /\ pc[w] = "reread_canceled"
        /\ UNCHANGED <<paymentState, lineItems, payments, itemVars>>
        /\ paymentState[o] = "canceled_after_paid"
    BY <1>0, <1>12 DEF RereadCanceledOrder, orderVars, ServedOK
  <2>2. HalfWay(w, o)
    BY <1>2, <2>1 DEF UnderWay
  <2>3. CASE Actionable(o) = {}
    <3>1. pc'[w] \notin UnderWay
      BY <1>3, <1>12, <2>3 DEF RereadCanceledOrder
    <3>2. \A p \in Products : IssuedFor(o, p) = {}
      BY <1>0, <2>3, NotActionable
    <3>3. Done(o)'
      BY <1>4, <2>1, <2>2, <2>3, <3>2 DEF Done, HalfWay
    <3> QED
      BY <3>1, <3>3
  <2>4. CASE Actionable(o) # {}
    <3>1. /\ pc'[w] = "revoke"
          /\ req' = [req EXCEPT ![w].todo = Actionable(o), ![w].recorded = processingResult[o]]
      BY <1>0, <1>12, <2>4 DEF RereadCanceledOrder, Proceed
    <3>2. req'[w].todo = Actionable(o) /\ req'[w].recorded = processingResult[o]
      BY <1>0, <3>1 DEF Request
    <3>3. \A p \in Actionable(o) : processingResult[o][p] = IssuedFor(o, p)
      BY <2>1, <2>2 DEF HalfWay, Fulfilled
    <3>4. /\ payments'[o] >= 1 /\ pc'[w] = "revoke"
          /\ \A p \in Actionable(o)' : /\ Fulfilled(o, p)'
                                      /\ req'[w].recorded[p] = IssuedFor(o, p)'
                                      /\ p \in req'[w].todo
      <4>1. payments[o] >= 1 /\ \A p \in Actionable(o) : Fulfilled(o, p)
        BY <2>1, <2>2 DEF HalfWay
      <4>2. pc'[w] = "revoke"
        BY <1>0, <3>1
      <4>3. Actionable(o)' = Actionable(o) /\ payments' = payments
        BY <2>1 DEF Actionable
      <4>4. \A p \in Products : /\ Fulfilled(o, p)' <=> Fulfilled(o, p)
                                /\ IssuedFor(o, p)' = IssuedFor(o, p)
        BY <1>4, <2>1
      <4> QED
        BY <1>0, <3>2, <3>3, <4>1, <4>2, <4>3, <4>4
    <3>5. HalfWay(w, o)'
      BY <3>4 DEF HalfWay
    <3> QED
      BY <3>4, <3>5 DEF UnderWay
  <2> QED
    BY <2>3, <2>4
<1>13. ASSUME NEW p \in Products, \/ RevokeNothingRecorded(w, p)
                                  \/ RevokeTickets(w, p) \/ RevokeBundle(w, p)
       PROVE  \/ Done(o)' /\ (pc'[w] \notin UnderWay \/ req'[w].order # o)
              \/ HalfWay(w, o)' /\ pc'[w] \in UnderWay
  <2>1. /\ pc[w] = "revoke" /\ p \in req[w].todo
        /\ UNCHANGED <<paymentState, lineItems, payments, processingResult, issued>>
        /\ paymentState[o] = "canceled_after_paid"
    BY <1>0, <1>13
    DEF RevokeNothingRecorded, RevokeTickets, RevokeBundle, orderVars, itemVars, ServedOK
  <2>2. HalfWay(w, o) /\ p \in Actionable(o)
    BY <1>0, <1>2, <2>1 DEF UnderWay, WorkOK
  <2>3. revoked \subseteq revoked'
    BY <1>0, ItemsGrow
  <2>4. /\ Actionable(o)' = Actionable(o)
        /\ \A q \in Products : IssuedFor(o, q)' = IssuedFor(o, q)
        /\ \A q \in Products : Fulfilled(o, q)' <=> Fulfilled(o, q)
    BY <2>1 DEF Actionable, IssuedFor, Fulfilled
  <2>5. ~RevokeNothingRecorded(w, p)
    <3>1. req[w].recorded[p] = IssuedFor(o, p) /\ Cardinality(IssuedFor(o, p)) = lineItems[o][p]
      BY <2>1, <2>2 DEF HalfWay, Fulfilled
    <3>2. lineItems[o][p] > 0
      BY <2>2 DEF Actionable
    <3>3. Cardinality({}) = 0
      BY FS_EmptySet
    <3>4. IssuedFor(o, p) # {}
      <4> SUFFICES ASSUME IssuedFor(o, p) = {} PROVE FALSE
        OBVIOUS
      <4>1. lineItems[o][p] = 0
        BY <3>1, <3>3
      <4> QED
        BY <3>2, <4>1
    <3> QED
      BY <3>1, <3>4 DEF RevokeNothingRecorded
  <2>6. ASSUME LineRevoked(w, p), IssuedFor(o, p) \subseteq revoked'
        PROVE  \/ Done(o)' /\ pc'[w] \notin UnderWay
               \/ HalfWay(w, o)' /\ pc'[w] \in UnderWay
    <3>1. \A q \in Actionable(o) \ (req[w].todo \ {p}) : IssuedFor(o, q) \subseteq revoked'
      BY <2>1, <2>2, <2>3, <2>6 DEF HalfWay
    <3>2. CASE req[w].todo = {p}
      <4>1. pc'[w] \notin UnderWay
        BY <1>3, <2>6, <3>2 DEF LineRevoked
      <4>2. \A q \in Products : IssuedFor(o, q) \subseteq revoked'
        BY <1>0, <3>1, <3>2, NotActionable
      <4>3. Done(o)'
        BY <1>0, <2>1, <2>2, <2>4, <4>2 DEF Done, HalfWay
      <4> QED
        BY <4>1, <4>3
    <3>3. CASE req[w].todo # {p}
      <4>1. /\ req' = [req EXCEPT ![w].todo = req[w].todo \ {p}, ![w].line = None,
                                  ![w].made = {}]
            /\ pc' = pc
        BY <2>6, <3>3 DEF LineRevoked
      <4>2. req'[w].todo = req[w].todo \ {p} /\ req'[w].recorded = req[w].recorded
        BY <1>0, <4>1 DEF Request
      <4>3. HalfWay(w, o)'
        BY <1>0, <2>1, <2>2, <2>4, <3>1, <4>1, <4>2 DEF HalfWay
      <4> QED
        BY <2>1, <4>1, <4>3 DEF UnderWay
    <3> QED
      BY <3>2, <3>3
  <2>7. req[w].recorded[p] = IssuedFor(o, p)
    BY <2>1, <2>2 DEF HalfWay
  <2>8. CASE RevokeTickets(w, p)
    BY <2>6, <2>7, <2>8 DEF RevokeTickets
  <2>9. CASE RevokeBundle(w, p)
    <3>1. PICK b \in req[w].recorded[p] \ req[w].made :
             /\ revoked' = revoked \cup {b}
             /\ IF req[w].made \cup {b} = req[w].recorded[p]
                  THEN LineRevoked(w, p)
                  ELSE /\ req' = [req EXCEPT ![w].line = p,
                                             ![w].made = @ \cup {b}]
                       /\ UNCHANGED pc
      BY <2>9 DEF RevokeBundle
    <3>2. CASE req[w].made \cup {b} = req[w].recorded[p]
      <4>1. req[w].made \subseteq revoked
        BY <1>0, <2>1 DEF WorkOK
      <4> QED
        BY <2>6, <2>7, <3>1, <3>2, <4>1
    <3>3. CASE req[w].made \cup {b} # req[w].recorded[p]
      <4>1. /\ req'[w].todo = req[w].todo /\ req'[w].recorded = req[w].recorded /\ pc' = pc
        BY <1>0, <3>1, <3>3 DEF Request
      <4>2. HalfWay(w, o)'
        BY <1>0, <2>1, <2>2, <2>3, <2>4, <4>1 DEF HalfWay
      <4> QED
        BY <2>1, <4>1, <4>2 DEF UnderWay
    <3> QED
      BY <3>2, <3>3
  <2> QED
    BY <1>13, <2>5, <2>8, <2>9
<1> QED
  BY <1>5, <1>6, <1>7, <1>8, <1>9, <1>10, <1>11, <1>12, <1>13
  DEF Serve, Continue

(* Every step leaves orders settled or under way. *)
LEMMA SettledNext ==
  OrderInv /\ SettledInv /\ [HistoryNext]_hvars => SettledInv'
<1> SUFFICES ASSUME OrderInv, SettledInv, [HistoryNext]_hvars
             PROVE  SettledInv'
  OBVIOUS
<1>0. TypeInv /\ FulfilmentInv /\ PaymentInv /\ HistoryInv
  BY DEF OrderInv, AccountInv, HistoryInv
<1>1. CASE UNCHANGED hvars
  <2>1. /\ \A o, p : IssuedFor(o, p)' = IssuedFor(o, p)
        /\ \A o : Actionable(o)' = Actionable(o) /\ Placed' = Placed
        /\ UNCHANGED <<contended, interrupted, req, pc, payments, revoked, paymentState,
                       processingResult, lineItems>>
    BY <1>1
    DEF hvars, vars, historyVars, itemVars, orderVars, IssuedFor, Actionable, Placed
  <2>2. \A o : Done(o)' <=> Done(o)
    BY <2>1 DEF Done, Fulfilled
  <2>3. \A w, o : HalfWay(w, o)' <=> HalfWay(w, o)
    BY <2>1 DEF HalfWay, Fulfilled
  <2> QED
    BY <2>1, <2>2, <2>3 DEF SettledInv
<1>2. CASE HistoryNext
  <2> SUFFICES ASSUME NEW o \in Placed' \ (contended' \cup interrupted')
               PROVE  /\ (\A v \in Workers : req'[v].order = o => pc'[v] \notin UnderWay)
                           => Done(o)'
                      /\ \A v \in Workers : req'[v].order = o /\ pc'[v] \in UnderWay
                                              => HalfWay(v, o)'
    BY DEF SettledInv
  <2>1. PICK w \in Workers :
           \/ Serve(w) /\ UNCHANGED interrupted
           \/ Crash(w) /\ interrupted' = interrupted \cup {req[w].order}
    BY <1>2 DEF HistoryNext
  <2>2. WorkerStep(w) /\ o \in Orders /\ o \notin contended /\ o \notin interrupted
    BY <1>2, <2>1 DEF HistoryNext, WorkerStep, Placed
  <2>3. \A v \in Workers \ {w} : pc'[v] = pc[v] /\ req'[v] = req[v]
    BY <1>0, <2>2, StepIsLocal
  <2>4. CASE o \in Placed /\ req[w].order # o
    BY <2>2, <2>4, SettledApart
  <2>5. CASE o \in Placed /\ req[w].order = o
    <3>1. Serve(w)
      BY <2>1, <2>5
    <3>2. \/ Done(o)' /\ (pc'[w] \notin UnderWay \/ req'[w].order # o)
          \/ HalfWay(w, o)' /\ pc'[w] \in UnderWay
      BY <2>2, <2>5, <3>1, SettledOwn
    <3>3. ASSUME NEW v \in Workers, req'[v].order = o, v # w
          PROVE  FALSE
      <4>1. req[v].order = o /\ req[w].order = o
        BY <2>3, <2>5, <3>3
      <4> QED
        BY <1>0, <2>2, <3>3, <4>1, ServedByOne
    <3>4. pc'[w] \in UnderWay => req'[w].order = o
      <4>1. pc[w] # "idle"
        BY <1>0, <2>2, <2>5, ConstantsAssumption DEF TypeInv, RequestOK, NoRequest
      <4>2. Finish(w) => pc'[w] \notin UnderWay
        BY <1>0 DEF Finish, Proceed, UnderWay, TypeInv, TypeOK
      <4> QED
        BY <1>0, <2>2, <2>5, <4>1, <4>2, BusyKeepsOrder
    <3> QED
      BY <3>2, <3>3, <3>4
  <2>6. CASE o \notin Placed
    <3>0. paymentState \in [Orders -> PaymentStates \cup {"none"}]
      BY <1>0 DEF TypeInv, TypeOK
    <3>1. PersistOrder(w) /\ req[w].order = o /\ paymentState'[o] = "open"
      <4>1. paymentState'[o] # "none" /\ paymentState[o] = "none"
        BY <2>2, <2>6 DEF Placed
      <4>2. (~SetPaid(w) /\ ~SetCanceled(w)) \/ req[w].order # o
        BY <1>0, <2>6
        DEF SetPaid, SetCanceled, TypeInv, RequestOK, PlacedSteps, Steps
      <4>3. req[w].order = o
        BY <1>0, <2>2, <4>1, StepIsLocal
      <4>4. PersistOrder(w)
        BY <2>2, <4>1, <4>2, <4>3, LifeChange
      <4> QED
        BY <3>0, <4>1, <4>3, <4>4 DEF PersistOrder, orderVars
    <3>2. payments'[o] = 0
      BY <1>0, <2>2, <2>6, <3>1 DEF PersistOrder, PaymentInv
    <3>3. Done(o)'
      BY <3>1, <3>2 DEF Done
    <3>4. \A v \in Workers : req'[v].order # o
      <4>1. req'[w].order = None /\ o # None
        <5>1. req'[w] = NoRequest
          BY <1>0, <3>1 DEF PersistOrder, Finish, TypeInv, TypeOK
        <5> QED
          BY <2>2, <5>1, ConstantsAssumption DEF NoRequest
      <4>2. \A v \in Workers \ {w} : req[v].order # o
        BY <1>0, <3>1 DEF PersistOrder, FulfilmentInv, NumberInv, CheckoutAlone
      <4> QED
        BY <2>3, <4>1, <4>2
    <3> QED
      BY <3>3, <3>4
  <2> QED
    BY <2>4, <2>5, <2>6
<1> QED
  BY <1>1, <1>2

(* No order is placed at the start. *)
LEMMA SettledInit == HistoryInit => SettledInv
  BY DEF HistoryInit, Init, SettledInv, Placed

\* An order with no request under way, none of whose requests overlapped or
\* died, is settled: a paid order has all its tickets and bundles, recorded
\* with the line items, and a payment; an order canceled after it was paid has
\* none that is still valid; any other order has no payment.
THEOREM OrdersAreSettled == HistorySpec => []Settled
<1>1. OrderInv /\ SettledInv => Settled
  BY DEF SettledInv, Settled, InFlight, Done, Fulfilled
<1> QED
  BY <1>1, AccountInit, OrderedInit, SettledInit, AccountNext, OrderedNext, SettledNext, PTL
  DEF HistorySpec, hvars, OrderInv
=============================================================================
