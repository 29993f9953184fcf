--------------------------- MODULE OrderLifecycle ---------------------------
(***************************************************************************)
(* What a customer may rely on: the life of an order and its effect on the *)
(* stock, each change in one step.  An order is placed if the stock        *)
(* suffices, may be paid once, and may be canceled once, before or after   *)
(* payment; a canceled order's quantities return to the stock.             *)
(***************************************************************************)
EXTENDS Naturals

CONSTANTS Orders, Products, Carts, InitialStock

VARIABLES state, lines, stock

lifeVars == <<state, lines, stock>>

Init ==
  /\ state = [o \in Orders |-> "none"]
  /\ lines = [o \in Orders |-> [p \in Products |-> 0]]
  /\ stock = InitialStock

Place(o, cart) ==
  /\ state[o] = "none"
  /\ \A p \in Products : cart[p] <= stock[p]
  /\ state' = [state EXCEPT ![o] = "open"]
  /\ lines' = [lines EXCEPT ![o] = cart]
  /\ stock' = [p \in Products |-> stock[p] - cart[p]]

Pay(o) ==
  /\ state[o] = "open"
  /\ state' = [state EXCEPT ![o] = "paid"]
  /\ UNCHANGED <<lines, stock>>

Cancel(o) ==
  /\ \/ /\ state[o] = "open"
        /\ state' = [state EXCEPT ![o] = "canceled_before_paid"]
     \/ /\ state[o] = "paid"
        /\ state' = [state EXCEPT ![o] = "canceled_after_paid"]
  /\ stock' = [p \in Products |-> stock[p] + lines[o][p]]
  /\ UNCHANGED lines

Next ==
  \E o \in Orders :
    (\E cart \in Carts : Place(o, cart)) \/ Pay(o) \/ Cancel(o)

Spec == Init /\ [][Next]_lifeVars
=============================================================================
