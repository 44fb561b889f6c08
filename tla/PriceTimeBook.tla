---------------------------- MODULE PriceTimeBook ----------------------------
(***************************************************************************)
(* What a reference engine promises of its order book: strict price-time    *)
(* priority.  The book is the set of resting orders, each stamped with its  *)
(* arrival; an aggressive order trades with the best-priced, oldest order   *)
(* it crosses, again and again; what a limit order has left then rests; a   *)
(* cancel takes the order of that id out.  There is no other state: the     *)
(* price lists and the id index of the engines are in OrderBook.            *)
(***************************************************************************)
EXTENDS Integers, Sequences

CONSTANTS
    Ids,        \* order ids
    Prices,     \* limit prices
    MaxQty,     \* bound: largest quantity of an order
    MaxArrivals,\* bound: orders sent to the book
    None        \* no order being matched, no limit price

VARIABLES
    orders,     \* resting orders
    arrived,    \* arrivals so far; the stamp of the last order
    taker,      \* order being matched, or None
    fills       \* fills of the taker so far

vars == <<orders, arrived, taker, fills>>

Sides == {"buy", "sell"}
Opposite(side) == IF side = "buy" THEN "sell" ELSE "buy"

\* p is a better price than q for an order resting on that side.
Better(side, p, q) == IF side = "buy" THEN p > q ELSE p < q

\* A taker crosses a resting price: a market order every one, a limit order
\* those not worse than its own.
Crosses(t, px) == t.px # None => ~Better(t.side, px, t.px)

Smaller(a, b) == IF a < b THEN a ELSE b

\* o comes first on its side of the book.
First(o) ==
    \A x \in orders : x.side = o.side =>
        \/ Better(o.side, o.px, x.px)
        \/ o.px = x.px /\ o.at <= x.at

Init ==
    /\ orders = {}
    /\ arrived = 0
    /\ taker = None
    /\ fills = <<>>

\* A limit order (px a price) or a market order (px = None) arrives.
Arrive(id, side, px, qty) ==
    /\ taker = None
    /\ arrived < MaxArrivals
    /\ arrived' = arrived + 1
    /\ taker' = [id |-> id, side |-> side, px |-> px, qty |-> qty]
    /\ fills' = <<>>
    /\ UNCHANGED orders

\* The taker trades with the first order of the other side, if it crosses it.
Trade(o) ==
    /\ taker # None
    /\ taker.qty > 0
    /\ o.side = Opposite(taker.side)
    /\ First(o)
    /\ Crosses(taker, o.px)
    /\ LET n == Smaller(taker.qty, o.qty)
       IN  /\ orders' = (orders \ {o}) \cup
                        (IF o.qty = n THEN {} ELSE {[o EXCEPT !.qty = @ - n]})
           /\ taker' = [taker EXCEPT !.qty = @ - n]
           /\ fills' = Append(fills, [px |-> o.px, qty |-> n, maker |-> o.id])
    /\ UNCHANGED arrived

\* No order is left to trade with: the rest of a limit order joins the book,
\* that of a market order is dropped.
Settle ==
    /\ taker # None
    /\ \/ taker.qty = 0
       \/ \A o \in orders : o.side = Opposite(taker.side) => ~Crosses(taker, o.px)
    /\ orders' = orders \cup
         (IF taker.qty = 0 \/ taker.px = None THEN {}
          ELSE {[id |-> taker.id, side |-> taker.side, px |-> taker.px,
                 qty |-> taker.qty, at |-> arrived]})
    /\ taker' = None
    /\ UNCHANGED <<arrived, fills>>

\* The resting order of that id, if there is one, is taken out.
Cancel(id) ==
    /\ taker = None
    /\ orders' = {o \in orders : o.id # id}
    /\ UNCHANGED <<arrived, taker, fills>>

Next ==
    \/ \E id \in Ids, side \in Sides, px \in Prices \cup {None}, qty \in 1..MaxQty :
          Arrive(id, side, px, qty)
    \/ \E o \in orders : Trade(o)
    \/ Settle
    \/ \E id \in Ids : Cancel(id)

Spec == Init /\ [][Next]_vars
=============================================================================
