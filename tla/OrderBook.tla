------------------------------ MODULE OrderBook ------------------------------
(***************************************************************************)
(* The order book of the four reference engines (Python, Go, C++, Rust).    *)
(* A book operation runs alone: under BOOK_MTX / book.mu / the tokio Mutex, *)
(* or synchronously on the one asyncio thread.  It is taken apart here into *)
(* the iterations of its match loop, so that what the engines keep beside   *)
(* the orders, the lists of prices that have a level and the id index, is   *)
(* seen in every intermediate state.                                       *)
(*                                                                         *)
(* A level is a FIFO (dict, list.List, std::list, VecDeque).  Its elements  *)
(* carry their arrival stamp `at', which is also their identity: the front  *)
(* of a level is its smallest stamp, and push_back uses a fresh one.        *)
(***************************************************************************)
EXTENDS Integers, Sequences

CONSTANTS
    Ids,        \* order ids
    Prices,     \* limit prices
    MaxQty,     \* bound: largest quantity of an order
    MaxArrivals,\* bound: orders sent to the book
    None,       \* no order being matched, no limit price, no index entry
    Engines,    \* the reference engines looked at
    Reuse       \* whether clients send order ids again: TRUE, FALSE or both

ASSUME BookAssumption ==
    /\ Prices \subseteq Int
    /\ MaxQty \in Nat
    /\ MaxArrivals \in Nat
    /\ None \notin Ids
    /\ None \notin Prices
    /\ Engines \subseteq {"python", "go", "cpp", "rust"}
    /\ Reuse \subseteq BOOLEAN

VARIABLES
    engine,     \* the engine at hand
    reuse,      \* whether its clients may send an id again
    orders,     \* resting orders of all levels
    prices,     \* prices[side]: prices that have a level
    index,      \* index[id]: where the order of that id rests, or None
    arrived,    \* arrivals so far
    used,       \* ids sent so far
    taker,      \* order being matched, or None
    fills       \* fills of the taker so far

setting == <<engine, reuse>>
vars    == <<engine, reuse, orders, prices, index, arrived, used, taker, fills>>

Sides == {"buy", "sell"}
Opposite(side) == IF side = "buy" THEN "sell" ELSE "buy"
Better(side, p, q) == IF side = "buy" THEN p > q ELSE p < q

Order == [id : Ids, side : Sides, px : Prices, qty : Nat \ {0}, at : Nat]
Taker == [id : Ids, side : Sides, px : Prices \cup {None}, qty : Nat]
Loc   == [side : Sides, px : Prices, at : Nat]

\* No order and no index entry stands for none.
ASSUME NoneAssumption == None \notin Taker \cup Loc

Fill  == [px : Prices, qty : Nat, maker : Ids]

\* The orders of one price level.
Level(side, px) == {o \in orders : o.side = side /\ o.px = px}

\* The break of the match loop: a limit order stops at a worse price.
Crosses(px) == taker.px # None => ~Better(taker.side, px, taker.px)

\* Mutant of BestOpposite: the wrong end of the price list.
WorstOpposite(px) ==
    /\ px \in prices[Opposite(taker.side)]
    /\ \A p \in prices[Opposite(taker.side)] :
          ~Better(Opposite(taker.side), px, p)

\* The best opposite price of the taker: prices[0], prices[-1], begin().
BestOpposite(px) ==
    /\ px \in prices[Opposite(taker.side)]
    /\ \A p \in prices[Opposite(taker.side)] :
          ~Better(Opposite(taker.side), p, px)

\* Mutant of Front: last in, first out.
Newest(o) == \A x \in Level(o.side, o.px) : o.at >= x.at

\* The oldest element of a level: front(), or the first dict key.
Front(o) == \A x \in Level(o.side, o.px) : o.at <= x.at

\* Mutant of PricesWithout: an emptied level stays listed.
PricesKept(side, px, gone) ==
    IF Level(side, px) = {} THEN [prices EXCEPT ![side] = @ \ {px}] ELSE prices

\* The price list of a side once the orders `gone' have left a level of it.
PricesWithout(side, px, gone) ==
    IF Level(side, px) \subseteq gone
      THEN [prices EXCEPT ![side] = @ \ {px}]
      ELSE prices

Init ==
    /\ engine \in Engines
    /\ reuse \in Reuse
    /\ orders = {}
    /\ prices = [side \in Sides |-> {}]
    /\ index = [id \in Ids |-> None]
    /\ arrived = 0
    /\ used = {}
    /\ taker = None
    /\ fills = <<>>

\* limit (px a price) or market (px = None) is called.
Arrive(id, side, px, qty) ==
    /\ taker = None
    /\ arrived < MaxArrivals
    /\ reuse \/ id \notin used
    /\ arrived' = arrived + 1
    /\ used' = used \cup {id}
    /\ taker' = [id |-> id, side |-> side, px |-> px, qty |-> qty]
    /\ fills' = <<>>
    /\ UNCHANGED <<setting, orders, prices, index>>

\* The taker trades with the front order of the best level.
Matches(o) ==
    /\ taker # None
    /\ taker.qty > 0
    /\ BestOpposite(o.px)
    /\ Crosses(o.px)
    /\ o.side = Opposite(taker.side)
    /\ Front(o)

\* Mutant of TakeWhole: the index entry of the filled order is left behind.
TakeWholeKeepsEntry(o) ==
    /\ Matches(o)
    /\ o.qty <= taker.qty
    /\ orders' = orders \ {o}
    /\ prices' = PricesWithout(o.side, o.px, {o})
    /\ taker' = [taker EXCEPT !.qty = @ - o.qty]
    /\ fills' = Append(fills, [px |-> o.px, qty |-> o.qty, maker |-> o.id])
    /\ UNCHANGED <<setting, index, arrived, used>>

\* It takes all of it: the order leaves the level and the index (by id), and
\* a level left empty is removed.
TakeWhole(o) ==
    /\ Matches(o)
    /\ o.qty <= taker.qty
    /\ orders' = orders \ {o}
    /\ prices' = PricesWithout(o.side, o.px, {o})
    /\ index' = [index EXCEPT ![o.id] = None]
    /\ taker' = [taker EXCEPT !.qty = @ - o.qty]
    /\ fills' = Append(fills, [px |-> o.px, qty |-> o.qty, maker |-> o.id])
    /\ UNCHANGED <<setting, arrived, used>>

\* Mutant of TakePart: an order used up exactly stays with nothing left.
TakePartOrAll(o) ==
    /\ Matches(o)
    /\ o.qty >= taker.qty
    /\ orders' = (orders \ {o}) \cup {[o EXCEPT !.qty = @ - taker.qty]}
    /\ taker' = [taker EXCEPT !.qty = 0]
    /\ fills' = Append(fills, [px |-> o.px, qty |-> taker.qty, maker |-> o.id])
    /\ UNCHANGED <<setting, prices, index, arrived, used>>

\* It takes part of it, and is itself filled.
TakePart(o) ==
    /\ Matches(o)
    /\ o.qty > taker.qty
    /\ orders' = (orders \ {o}) \cup {[o EXCEPT !.qty = @ - taker.qty]}
    /\ taker' = [taker EXCEPT !.qty = 0]
    /\ fills' = Append(fills, [px |-> o.px, qty |-> taker.qty, maker |-> o.id])
    /\ UNCHANGED <<setting, prices, index, arrived, used>>

\* The match loop has ended: quantity used up, no level left, or none crossed.
MatchOver ==
    /\ taker # None
    /\ \/ taker.qty = 0
       \/ \A px \in prices[Opposite(taker.side)] : ~Crosses(px)

\* Nothing rests: the order is filled, or it is a market order.
Finish ==
    /\ MatchOver
    /\ taker.qty = 0 \/ taker.px = None
    /\ taker' = None
    /\ UNCHANGED <<setting, orders, prices, index, arrived, used, fills>>

\* In Python's dict an id already at the level keeps its place, and its
\* quantity grows.
Merges(o) ==
    engine = "python" /\ o \in Level(taker.side, taker.px) /\ o.id = taker.id

\* Mutant of Rest: the remainder goes to the front of its level.
RestAtFront ==
    /\ MatchOver
    /\ taker.qty > 0
    /\ taker.px # None
    /\ orders' = orders \cup {[id |-> taker.id, side |-> taker.side,
                               px |-> taker.px, qty |-> taker.qty, at |-> 0]}
    /\ prices' = [prices EXCEPT ![taker.side] = @ \cup {taker.px}]
    /\ index' = [index EXCEPT ![taker.id] =
                    [side |-> taker.side, px |-> taker.px, at |-> 0]]
    /\ taker' = None
    /\ UNCHANGED <<setting, arrived, used, fills>>

\* The remainder of a limit order rests at the back of its level, which is
\* created if need be, and the index entry of its id is (over)written.
Rest ==
    /\ MatchOver
    /\ taker.qty > 0
    /\ taker.px # None
    /\ \A o \in orders : ~Merges(o)
    /\ orders' = orders \cup {[id |-> taker.id, side |-> taker.side,
                               px |-> taker.px, qty |-> taker.qty, at |-> arrived]}
    /\ prices' = [prices EXCEPT ![taker.side] = @ \cup {taker.px}]
    /\ index' = [index EXCEPT ![taker.id] =
                    [side |-> taker.side, px |-> taker.px, at |-> arrived]]
    /\ taker' = None
    /\ UNCHANGED <<setting, arrived, used, fills>>

RestMerged(o) ==
    /\ MatchOver
    /\ taker.qty > 0
    /\ taker.px # None
    /\ Merges(o)
    /\ orders' = (orders \ {o}) \cup {[o EXCEPT !.qty = @ + taker.qty]}
    /\ index' = [index EXCEPT ![taker.id] =
                    [side |-> o.side, px |-> o.px, at |-> o.at]]
    /\ taker' = None
    /\ UNCHANGED <<setting, prices, arrived, used, fills>>

\* Mutant of Erased: the whole level goes.
ErasedLevel(id) == Level(index[id].side, index[id].px)

\* What a cancel of an indexed id erases: the element the index points at (Go,
\* C++), or the orders of that id at the indexed level (Python, Rust).
Erased(id) ==
    IF engine \in {"go", "cpp"}
      THEN {o \in Level(index[id].side, index[id].px) : o.at = index[id].at}
      ELSE {o \in Level(index[id].side, index[id].px) : o.id = id}

Cancel(id) ==
    /\ taker = None
    /\ index[id] # None
    /\ orders' = orders \ Erased(id)
    /\ prices' = PricesWithout(index[id].side, index[id].px, Erased(id))
    /\ index' = [index EXCEPT ![id] = None]
    /\ UNCHANGED <<setting, arrived, used, taker, fills>>

Next ==
    \/ \E id \in Ids, side \in Sides, px \in Prices \cup {None}, qty \in 1..MaxQty :
          Arrive(id, side, px, qty)
    \/ \E o \in orders : TakeWhole(o) \/ TakePart(o) \/ RestMerged(o)
    \/ Finish
    \/ Rest
    \/ \E id \in Ids : Cancel(id)

Spec == Init /\ [][Next]_vars

-----------------------------------------------------------------------------
(* Properties.                                                             *)

\* Types: resting quantities are positive, an entry is a place in the book.
TypeOK ==
    /\ engine \in Engines
    /\ reuse \in BOOLEAN
    /\ orders \subseteq Order
    /\ prices \in [Sides -> SUBSET Prices]
    /\ index \in [Ids -> Loc \cup {None}]
    /\ arrived \in Nat
    /\ used \subseteq Ids
    /\ taker \in Taker \cup {None}
    /\ fills \in Seq(Fill)

\* A price is listed exactly while its level holds an order: the match loop
\* reads the best level from the list, and an empty one would stop it.
LevelsExact ==
    \A side \in Sides : prices[side] = {o.px : o \in {x \in orders : x.side = side}}

\* Bids stay below asks: an order rests only where it crosses nothing.
NotCrossed ==
    \A b, a \in orders : b.side = "buy" /\ a.side = "sell" => b.px < a.px

\* Every index entry points at an element that is in the book, of that id (an
\* erased std::list iterator must never be dereferenced).
NoDangling ==
    \A id \in Ids : index[id] # None =>
        \E o \in orders : /\ o.id = id
                          /\ o.side = index[id].side
                          /\ o.px = index[id].px
                          /\ o.at = index[id].at

\* The index holds every resting order, so that every one can be cancelled.
IndexComplete ==
    \A o \in orders : index[o.id] = [side |-> o.side, px |-> o.px, at |-> o.at]

\* Strict price-time priority: the order that a taker trades with is the
\* best-priced, and among those the oldest, of its side of the whole book.
PriceTimePriority ==
    [][\A o \in orders :
         taker # None /\ taker' # None /\ o \notin orders'
           => \A x \in orders : x.side = o.side =>
                \/ Better(o.side, o.px, x.px)
                \/ o.px = x.px /\ o.at <= x.at]_vars

\* A quantity that comes to rest queues behind all that rests at its price; in
\* the Python engine only where no id is sent again.
RestsAtBack ==
    [][(engine = "python" => ~reuse) /\ taker # None /\ taker' = None =>
         \A o \in orders' \ orders : \A x \in orders :
            x.side = o.side /\ x.px = o.px => x.at < o.at]_vars

\* The book does what PriceTimeBook promises.  It promises nothing to clients
\* that send an id again: their book is mapped to one that stays empty.
bookOrders  == IF reuse THEN {} ELSE orders
bookArrived == IF reuse THEN 0 ELSE arrived
bookTaker   == IF reuse THEN None ELSE taker
bookFills   == IF reuse THEN <<>> ELSE fills

Abstract == INSTANCE PriceTimeBook WITH orders <- bookOrders, arrived <- bookArrived,
                                        taker <- bookTaker, fills <- bookFills
Refines == Abstract!Spec

\* The inductive invariants: BookInv with any ids, and with it IndexComplete
\* where no id is sent twice.
Stamped ==
    /\ \A o \in orders : o.at <= arrived /\ (taker # None => o.at < arrived)
    /\ \A o, x \in orders : o.at = x.at => o = x
    /\ taker # None => arrived > 0

BookInv ==
    /\ TypeOK
    /\ Stamped
    /\ LevelsExact
    /\ NotCrossed
    /\ NoDangling

Fresh ==
    /\ \A o \in orders : o.id \in used /\ (taker # None => o.id # taker.id)
    /\ \A o, x \in orders : o.id = x.id => o = x
    /\ taker # None => taker.id \in used

UniqueInv ==
    /\ BookInv
    /\ ~reuse => Fresh /\ IndexComplete
=============================================================================
