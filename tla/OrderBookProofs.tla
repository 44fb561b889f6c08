--------------------------- MODULE OrderBookProofs ---------------------------
(***************************************************************************)
(* Theorems about OrderBook for every set of ids and prices and every       *)
(* engine: the book's structures agree and the book is never crossed        *)
(* (BookInv), fills respect price-time priority, and, where no id is sent   *)
(* twice, the index is complete and the book implements PriceTimeBook.      *)
(***************************************************************************)
EXTENDS OrderBook, SequenceTheorems, TLAPS

-----------------------------------------------------------------------------
(* Type correctness.                                                       *)

\* The empty book is well typed.
LEMMA InitType == Init => TypeOK
  BY BookAssumption, EmptySeq DEF Init, TypeOK

\* Engine and clients stay what they are.
LEMMA SameSetting ==
  ASSUME [Next]_vars
  PROVE  engine' = engine /\ reuse' = reuse
  BY DEF Next, Arrive, TakeWhole, TakePart, RestMerged, Finish, Rest, Cancel,
         vars, setting

\* Every step keeps the types; in particular a quantity that rests, or is
\* left of a resting order, is positive.
LEMMA NextType == TypeOK /\ [Next]_vars => TypeOK'
<1> SUFFICES ASSUME TypeOK, [Next]_vars PROVE TypeOK'
  OBVIOUS
<1>0. engine' \in Engines /\ reuse' \in BOOLEAN
  BY SameSetting DEF TypeOK
<1> USE BookAssumption, <1>0 DEF TypeOK
<1>1. ASSUME NEW id \in Ids, NEW side \in Sides, NEW px \in Prices \cup {None},
             NEW qty \in 1..MaxQty, Arrive(id, side, px, qty)
      PROVE  TypeOK'
  <2>1. taker' \in Taker
    BY <1>1 DEF Arrive, Taker
  <2> QED BY <1>1, <2>1, EmptySeq DEF Arrive
<1>2. ASSUME NEW o \in orders, TakeWhole(o) PROVE TypeOK'
  <2>1. o \in Order /\ taker \in Taker
    BY <1>2 DEF TakeWhole, Matches
  <2>2. taker' \in Taker
    <3>1. taker.qty - o.qty \in Nat /\ taker' = [taker EXCEPT !.qty = @ - o.qty]
      BY <1>2, <2>1 DEF TakeWhole, Taker, Order
    <3> QED BY <2>1, <3>1 DEF Taker
  <2>3. fills' \in Seq(Fill)
    <3>1. [px |-> o.px, qty |-> o.qty, maker |-> o.id] \in Fill
      BY <2>1 DEF Fill, Order
    <3> QED BY <1>2, <3>1, AppendProperties DEF TakeWhole
  <2>4. prices' \in [Sides -> SUBSET Prices]
    BY <1>2 DEF TakeWhole, PricesWithout
  <2> QED BY <1>2, <2>2, <2>3, <2>4 DEF TakeWhole
<1>3. ASSUME NEW o \in orders, TakePart(o) PROVE TypeOK'
  <2>1. o \in Order /\ taker \in Taker
    BY <1>3 DEF TakePart, Matches
  <2>2. [o EXCEPT !.qty = @ - taker.qty] \in Order
    <3>1. o.qty - taker.qty \in Nat \ {0}
      BY <1>3, <2>1 DEF TakePart, Order, Taker
    <3> QED BY <2>1, <3>1 DEF Order
  <2>3. taker' \in Taker
    BY <1>3, <2>1 DEF TakePart, Taker
  <2>4. fills' \in Seq(Fill)
    <3>1. [px |-> o.px, qty |-> taker.qty, maker |-> o.id] \in Fill
      BY <2>1 DEF Fill, Order, Taker
    <3> QED BY <1>3, <3>1, AppendProperties DEF TakePart
  <2> QED BY <1>3, <2>2, <2>3, <2>4 DEF TakePart
<1>4. ASSUME NEW o \in orders, RestMerged(o) PROVE TypeOK'
  <2>1. o \in Order /\ taker \in Taker
    BY <1>4 DEF RestMerged, MatchOver
  <2>2. [o EXCEPT !.qty = @ + taker.qty] \in Order
    <3>1. o.qty + taker.qty \in Nat \ {0}
      BY <2>1, <1>4 DEF Order, Taker
    <3> QED BY <2>1, <3>1 DEF Order
  <2>3. [side |-> o.side, px |-> o.px, at |-> o.at] \in Loc
    BY <2>1 DEF Loc, Order
  <2> QED BY <1>4, <2>2, <2>3 DEF RestMerged
<1>5. CASE Finish
  BY <1>5 DEF Finish
<1>6. CASE Rest
  <2>1. taker \in Taker
    BY <1>6 DEF Rest, MatchOver
  <2>2. [id |-> taker.id, side |-> taker.side, px |-> taker.px,
         qty |-> taker.qty, at |-> arrived] \in Order
    BY <1>6, <2>1 DEF Rest, Order, Taker
  <2>3. [side |-> taker.side, px |-> taker.px, at |-> arrived] \in Loc
    BY <1>6, <2>1 DEF Rest, Loc, Taker
  <2>4. prices' \in [Sides -> SUBSET Prices]
    BY <1>6, <2>1 DEF Rest, Taker
  <2> QED BY <1>6, <2>2, <2>3, <2>4 DEF Rest
<1>7. ASSUME NEW id \in Ids, Cancel(id) PROVE TypeOK'
  <2>1. prices' \in [Sides -> SUBSET Prices]
    BY <1>7 DEF Cancel, PricesWithout
  <2> QED BY <1>7, <2>1 DEF Cancel
<1>8. CASE UNCHANGED vars
  BY <1>8 DEF vars
<1> QED
  BY <1>1, <1>2, <1>3, <1>4, <1>5, <1>6, <1>7, <1>8 DEF Next

\* Every variable of the book keeps its type in every behaviour.
THEOREM TypeCorrect == Spec => []TypeOK
  BY InitType, NextType, PTL DEF Spec

-----------------------------------------------------------------------------
(* Facts about levels.                                                     *)

\* A change of quantity leaves id, side, price and stamp of an order alone.
LEMMA SamePlace ==
  ASSUME NEW o \in Order, NEW n \in Nat
  PROVE  LET x == [o EXCEPT !.qty = n]
         IN  x.id = o.id /\ x.side = o.side /\ x.px = o.px /\ x.at = o.at
  BY DEF Order

\* Removing orders of one level, and its price if it is left empty, keeps the
\* price lists exact.
LEMMA RemoveFromLevel ==
  ASSUME TypeOK, LevelsExact, NEW side \in Sides, NEW px \in Prices,
         NEW gone \in SUBSET Level(side, px),
         orders' = orders \ gone,
         prices' = PricesWithout(side, px, gone)
  PROVE  LevelsExact'
<1>1. \A s \in Sides : s # side =>
        {x \in orders' : x.side = s} = {x \in orders : x.side = s}
  BY DEF Level
<1>2. \A s \in Sides : s # side => prices'[s] = prices[s]
  BY DEF PricesWithout, TypeOK
<1>3. \A p \in prices'[side] : \E o \in orders' : o.side = side /\ o.px = p
  <2>1. \A p \in prices[side] : \E o \in orders : o.side = side /\ o.px = p
    BY DEF LevelsExact
  <2>2. CASE Level(side, px) \subseteq gone
    <3>1. prices'[side] = prices[side] \ {px}
      BY <2>2 DEF PricesWithout, TypeOK
    <3> QED BY <2>1, <3>1 DEF Level
  <2>3. CASE ~(Level(side, px) \subseteq gone)
    <3>1. prices' = prices
      BY <2>3 DEF PricesWithout
    <3>2. \E o \in orders' : o.side = side /\ o.px = px
      BY <2>3 DEF Level
    <3> QED BY <2>1, <3>1, <3>2 DEF Level
  <2> QED BY <2>2, <2>3
<1>4. \A o \in orders' : o.side = side => o.px \in prices'[side]
  <2>1. \A o \in orders : o.side = side => o.px \in prices[side]
    BY DEF LevelsExact
  <2>2. CASE Level(side, px) \subseteq gone
    <3>1. prices'[side] = prices[side] \ {px}
      BY <2>2 DEF PricesWithout, TypeOK
    <3> QED BY <2>1, <2>2, <3>1 DEF Level
  <2>3. CASE ~(Level(side, px) \subseteq gone)
    BY <2>1, <2>3 DEF PricesWithout
  <2> QED BY <2>2, <2>3
<1>5. prices'[side] = {o.px : o \in {x \in orders' : x.side = side}}
  BY <1>3, <1>4
<1> QED BY <1>1, <1>2, <1>5 DEF LevelsExact

\* Replacing an order by one at the same place keeps the structures in step.
LEMMA ReplaceInLevel ==
  ASSUME TypeOK, Stamped, LevelsExact, NotCrossed,
         NEW o \in orders, NEW x,
         x.id = o.id, x.side = o.side, x.px = o.px, x.at = o.at,
         orders' = (orders \ {o}) \cup {x},
         prices' = prices
  PROVE  /\ LevelsExact' /\ NotCrossed'
         /\ \A y, z \in orders' : y.at = z.at => y = z
         /\ \A y \in orders' : \E z \in orders :
              z.id = y.id /\ z.side = y.side /\ z.px = y.px /\ z.at = y.at
         /\ \A z \in orders : \E y \in orders' :
              z.id = y.id /\ z.side = y.side /\ z.px = y.px /\ z.at = y.at
<1>1. \A y \in orders' : \E z \in orders :
        z.id = y.id /\ z.side = y.side /\ z.px = y.px /\ z.at = y.at
  OBVIOUS
<1>2. \A z \in orders : \E y \in orders' :
        z.id = y.id /\ z.side = y.side /\ z.px = y.px /\ z.at = y.at
  OBVIOUS
<1>3. \A s \in Sides : {z.px : z \in {w \in orders' : w.side = s}}
                      = {z.px : z \in {w \in orders : w.side = s}}
  BY <1>1, <1>2
<1>4. LevelsExact'
  BY <1>3 DEF LevelsExact
<1>5. NotCrossed'
  BY <1>1 DEF NotCrossed
<1>6. \A y, z \in orders' : y.at = z.at => y = z
  BY DEF Stamped
<1> QED BY <1>1, <1>2, <1>4, <1>5, <1>6

-----------------------------------------------------------------------------
(* The structures of the book agree, whatever ids the clients send.        *)

\* The empty book satisfies BookInv.
LEMMA InitBook == Init => BookInv
  BY InitType DEF Init, BookInv, Stamped, LevelsExact, NotCrossed, NoDangling

\* A maker that is filled leaves its level, the price list and the index.
LEMMA TakeWholeBook ==
  ASSUME BookInv, TypeOK', NEW o \in orders, TakeWhole(o)
  PROVE  BookInv'
<1> USE DEF BookInv
<1>1. /\ o \in Order /\ taker \in Taker
      /\ orders' = orders \ {o}
      /\ arrived' = arrived /\ taker # None
  BY DEF TakeWhole, Matches, TypeOK
<1>2. LevelsExact'
  <2>1. {o} \in SUBSET Level(o.side, o.px) /\ o.side \in Sides /\ o.px \in Prices
    BY <1>1 DEF Level, Order
  <2> QED BY <1>1, <2>1, RemoveFromLevel DEF TakeWhole
<1>3. Stamped' /\ NotCrossed'
  BY <1>1 DEF Stamped, NotCrossed
<1>4. NoDangling'
  <2>1. \A id \in Ids : index'[id] # None => id # o.id /\ index'[id] = index[id]
    BY <1>1 DEF TakeWhole, TypeOK, Order
  <2> QED BY <1>1, <2>1 DEF NoDangling
<1> QED BY <1>2, <1>3, <1>4

\* A maker that is partly filled keeps its place.
LEMMA TakePartBook ==
  ASSUME BookInv, TypeOK', NEW o \in orders, TakePart(o)
  PROVE  BookInv'
<1> USE DEF BookInv
<1> DEFINE x == [o EXCEPT !.qty = @ - taker.qty]
<1>1. /\ o \in Order /\ taker \in Taker /\ taker # None
      /\ orders' = (orders \ {o}) \cup {x}
      /\ prices' = prices /\ index' = index /\ arrived' = arrived
  BY DEF TakePart, Matches, TypeOK
<1>2. x.id = o.id /\ x.side = o.side /\ x.px = o.px /\ x.at = o.at
  BY <1>1 DEF Order
<1> HIDE DEF x
<1>3. /\ LevelsExact' /\ NotCrossed'
      /\ \A y, z \in orders' : y.at = z.at => y = z
      /\ \A y \in orders' : \E z \in orders :
           z.id = y.id /\ z.side = y.side /\ z.px = y.px /\ z.at = y.at
      /\ \A z \in orders : \E y \in orders' :
           z.id = y.id /\ z.side = y.side /\ z.px = y.px /\ z.at = y.at
  BY <1>1, <1>2, ReplaceInLevel
<1>4. Stamped'
  BY <1>1, <1>3 DEF Stamped
<1>5. NoDangling'
  BY <1>1, <1>3 DEF NoDangling
<1> QED BY <1>3, <1>4, <1>5

\* In Python, quantity merged into an order of the same id keeps its place.
LEMMA RestMergedBook ==
  ASSUME BookInv, TypeOK', NEW o \in orders, RestMerged(o)
  PROVE  BookInv'
<1> USE DEF BookInv
<1> DEFINE x == [o EXCEPT !.qty = @ + taker.qty]
<1>1. /\ o \in Order /\ taker \in Taker /\ taker' = None
      /\ orders' = (orders \ {o}) \cup {x}
      /\ prices' = prices /\ arrived' = arrived
      /\ index' = [index EXCEPT ![o.id] =
                      [side |-> o.side, px |-> o.px, at |-> o.at]]
  BY DEF RestMerged, MatchOver, Merges, TypeOK
<1>2. x.id = o.id /\ x.side = o.side /\ x.px = o.px /\ x.at = o.at
  BY <1>1 DEF Order
<1> HIDE DEF x
<1>3. /\ LevelsExact' /\ NotCrossed'
      /\ \A y, z \in orders' : y.at = z.at => y = z
      /\ \A y \in orders' : \E z \in orders :
           z.id = y.id /\ z.side = y.side /\ z.px = y.px /\ z.at = y.at
      /\ \A z \in orders : \E y \in orders' :
           z.id = y.id /\ z.side = y.side /\ z.px = y.px /\ z.at = y.at
  BY <1>1, <1>2, ReplaceInLevel
<1>4. Stamped'
  BY <1>1, <1>3 DEF Stamped
<1>5. NoDangling'
  <2>1. \A id \in Ids : id # o.id => index'[id] = index[id]
    BY <1>1 DEF TypeOK
  <2>2. o.id \in Ids => index'[o.id] = [side |-> o.side, px |-> o.px, at |-> o.at]
    BY <1>1 DEF TypeOK
  <2> QED BY <1>1, <1>2, <1>3, <2>1, <2>2 DEF NoDangling
<1> QED BY <1>3, <1>4, <1>5

\* An order rests only where it crosses nothing, behind all that rest there.
LEMMA RestBook ==
  ASSUME BookInv, TypeOK', Rest
  PROVE  BookInv'
<1> USE DEF BookInv
<1> DEFINE x == [id |-> taker.id, side |-> taker.side, px |-> taker.px,
                 qty |-> taker.qty, at |-> arrived]
<1>1. /\ taker \in Taker /\ taker # None /\ taker.px \in Prices
      /\ taker' = None /\ arrived' = arrived
      /\ orders' = orders \cup {x}
      /\ prices' = [prices EXCEPT ![taker.side] = @ \cup {taker.px}]
      /\ index' = [index EXCEPT ![taker.id] =
                      [side |-> taker.side, px |-> taker.px, at |-> arrived]]
  BY DEF Rest, MatchOver, TypeOK, Taker
<1>2. taker.side \in Sides /\ taker.id \in Ids
  BY <1>1 DEF Taker
<1>3. /\ x.id = taker.id /\ x.side = taker.side /\ x.px = taker.px
      /\ x.at = arrived
  OBVIOUS
<1> HIDE DEF x
<1>4. Stamped'
  BY <1>1, <1>3 DEF Stamped, TypeOK, Order
<1>5. LevelsExact'
  <2>1. \A s \in Sides : prices[s] = {o.px : o \in {y \in orders : y.side = s}}
    BY DEF LevelsExact
  <2>2. \A s \in Sides : prices'[s] = IF s = taker.side
                                      THEN prices[s] \cup {taker.px} ELSE prices[s]
    BY <1>1, <1>2 DEF TypeOK
  <2>3. \A s \in Sides : {o.px : o \in {y \in orders' : y.side = s}}
           = {o.px : o \in {y \in orders : y.side = s}}
             \cup (IF s = taker.side THEN {taker.px} ELSE {})
    BY <1>1, <1>3
  <2> QED BY <2>1, <2>2, <2>3 DEF LevelsExact
<1>6. NotCrossed'
  <2>1. \A o \in orders : o.side = Opposite(taker.side) =>
          Better(taker.side, o.px, taker.px)
    <3>1. SUFFICES ASSUME NEW o \in orders, o.side = Opposite(taker.side)
                   PROVE  Better(taker.side, o.px, taker.px)
      OBVIOUS
    <3>2. o.px \in prices[Opposite(taker.side)]
      BY <1>2, <3>1 DEF LevelsExact, Opposite, Sides
    <3> QED BY <1>1, <3>2, BookAssumption DEF Rest, MatchOver, Crosses, Taker
  <2>2. \A o \in orders : o.px \in Int
    BY BookAssumption DEF TypeOK, Order
  <2> QED BY <1>1, <1>2, <1>3, <2>1, <2>2, BookAssumption
         DEF NotCrossed, Better, Opposite, Sides
<1>7. NoDangling'
  <2>1. \A id \in Ids : id # taker.id => index'[id] = index[id]
    BY <1>1 DEF TypeOK
  <2>2. index'[taker.id] = [side |-> taker.side, px |-> taker.px, at |-> arrived]
    BY <1>1, <1>2 DEF TypeOK
  <2> QED BY <1>1, <1>3, <2>1, <2>2 DEF NoDangling
<1> QED BY <1>4, <1>5, <1>6, <1>7

\* A cancel erases orders of the cancelled id only.
LEMMA ErasedIsOwn ==
  ASSUME BookInv, NEW id \in Ids, index[id] # None
  PROVE  \A o \in Erased(id) : o \in orders /\ o.id = id
<1>1. PICK x \in orders : /\ x.id = id /\ x.side = index[id].side
                         /\ x.px = index[id].px /\ x.at = index[id].at
  BY DEF BookInv, NoDangling
<1> QED BY <1>1 DEF BookInv, Stamped, Erased, Level

\* A cancelled order leaves its level, the price list and the index.
LEMMA CancelBook ==
  ASSUME BookInv, TypeOK', NEW id \in Ids, Cancel(id)
  PROVE  BookInv'
<1> USE DEF BookInv
<1>1. /\ index[id] # None /\ index[id] \in Loc
      /\ orders' = orders \ Erased(id)
      /\ prices' = PricesWithout(index[id].side, index[id].px, Erased(id))
      /\ arrived' = arrived /\ taker' = taker
  BY DEF Cancel, TypeOK
<1>2. LevelsExact'
  <2>1. Erased(id) \in SUBSET Level(index[id].side, index[id].px)
    BY DEF Erased, Level
  <2> QED BY <1>1, <2>1, RemoveFromLevel DEF Loc
<1>3. Stamped' /\ NotCrossed'
  BY <1>1 DEF Stamped, NotCrossed
<1>4. NoDangling'
  <2>1. \A i \in Ids : index'[i] # None => i # id /\ index'[i] = index[i]
    BY DEF Cancel, TypeOK
  <2>2. \A o \in Erased(id) : o.id = id
    BY <1>1, ErasedIsOwn
  <2> QED BY <1>1, <2>1, <2>2 DEF NoDangling
<1> QED BY <1>2, <1>3, <1>4

\* Every step keeps BookInv.
LEMMA NextBook == BookInv /\ [Next]_vars => BookInv'
<1> SUFFICES ASSUME BookInv, [Next]_vars PROVE BookInv'
  OBVIOUS
<1>0. TypeOK'
  BY NextType DEF BookInv
<1>1. ASSUME NEW id \in Ids, NEW side \in Sides, NEW px \in Prices \cup {None},
             NEW qty \in 1..MaxQty, Arrive(id, side, px, qty)
      PROVE  BookInv'
  <2>1. Stamped'
    BY <1>1 DEF Arrive, BookInv, Stamped, TypeOK, Order
  <2> QED BY <1>0, <1>1, <2>1
         DEF Arrive, BookInv, LevelsExact, NotCrossed, NoDangling
<1>2. CASE Finish
  BY <1>0, <1>2 DEF Finish, BookInv, Stamped, LevelsExact, NotCrossed, NoDangling
<1>3. CASE UNCHANGED vars
  BY <1>0, <1>3 DEF vars, BookInv, Stamped, LevelsExact, NotCrossed, NoDangling
<1> QED
  BY <1>0, <1>1, <1>2, <1>3, TakeWholeBook, TakePartBook, RestMergedBook,
     RestBook, CancelBook DEF Next

\* In every engine, whatever ids are sent: prices are listed exactly while
\* their level holds an order, the book is never crossed, and the index never
\* points at an order that has left.
THEOREM BookCorrect == Spec => []BookInv
  BY InitBook, NextBook, PTL DEF Spec

-----------------------------------------------------------------------------
(* Price-time priority.                                                    *)

\* The front order of the best listed level is first on its side of the book.
LEMMA MatchedIsFirst ==
  ASSUME BookInv, NEW o \in orders, Matches(o)
  PROVE  \A x \in orders : x.side = o.side =>
           \/ Better(o.side, o.px, x.px)
           \/ o.px = x.px /\ o.at <= x.at
<1> SUFFICES ASSUME NEW x \in orders, x.side = o.side
             PROVE  \/ Better(o.side, o.px, x.px)
                    \/ o.px = x.px /\ o.at <= x.at
  OBVIOUS
<1>1. o \in Order /\ x \in Order /\ taker \in Taker
  BY DEF BookInv, TypeOK, Matches
<1>2. o.px \in Int /\ x.px \in Int
  BY <1>1, BookAssumption DEF Order
<1>3. x.px \in prices[o.side]
  BY <1>1 DEF BookInv, LevelsExact, Order
<1>4. ~Better(o.side, x.px, o.px)
  BY <1>3 DEF Matches, BestOpposite
<1>5. o.px = x.px => o.at <= x.at
  BY DEF Matches, Front, Level
<1> QED BY <1>2, <1>4, <1>5 DEF Better

\* Every fill of every engine is taken from the best-priced, oldest order of
\* the opposite side, whatever ids are sent.
THEOREM PriorityKept == Spec => PriceTimePriority
<1> DEFINE A == \A o \in orders :
                  taker # None /\ taker' # None /\ o \notin orders'
                    => \A x \in orders : x.side = o.side =>
                         \/ Better(o.side, o.px, x.px)
                         \/ o.px = x.px /\ o.at <= x.at
<1>1. BookInv /\ [Next]_vars => [A]_vars
  <2> SUFFICES ASSUME BookInv, Next, NEW o \in orders,
                      taker # None, taker' # None, o \notin orders'
               PROVE  \A x \in orders : x.side = o.side =>
                        \/ Better(o.side, o.px, x.px)
                        \/ o.px = x.px /\ o.at <= x.at
    OBVIOUS
  <2>1. PICK m \in orders : TakeWhole(m) \/ TakePart(m)
    BY DEF Next, Arrive, Finish, Rest, RestMerged, Cancel
  <2>2. o = m /\ Matches(m)
    BY <2>1 DEF TakeWhole, TakePart
  <2> QED BY <2>2, MatchedIsFirst
<1>2. Spec => [][A]_vars
  BY <1>1, BookCorrect, PTL DEF Spec
<1> QED BY <1>2 DEF PriceTimePriority

-----------------------------------------------------------------------------
(* With ids sent once: the index is complete, and the book implements       *)
(* PriceTimeBook.                                                          *)

\* Nothing is in the empty book.
LEMMA InitUnique == Init => UniqueInv
  BY InitBook DEF Init, UniqueInv, Fresh, IndexComplete

\* While ids are sent once, every step keeps the ids distinct and indexed.
LEMMA NextDistinct ==
  ASSUME BookInv, Fresh, IndexComplete, ~reuse, [Next]_vars
  PROVE  Fresh' /\ IndexComplete'
<1>0. BookInv' /\ TypeOK /\ TypeOK'
  BY NextBook DEF BookInv
<1>1. ASSUME NEW id \in Ids, NEW side \in Sides, NEW px \in Prices \cup {None},
             NEW qty \in 1..MaxQty, Arrive(id, side, px, qty)
      PROVE  Fresh' /\ IndexComplete'
  <2>1. taker'.id = id /\ id \notin used
    BY <1>1 DEF Arrive
  <2> QED BY <1>0, <1>1, <2>1 DEF Arrive, Fresh, IndexComplete
<1>2. ASSUME NEW o \in orders, TakeWhole(o) PROVE Fresh' /\ IndexComplete'
  <2>1. taker \in Taker /\ taker # None /\ taker'.id = taker.id
    BY <1>0, <1>2 DEF TakeWhole, Matches, Taker, TypeOK
  <2>2. orders' = orders \ {o} /\ used' = used
    BY <1>2 DEF TakeWhole
  <2>3. \A x \in orders' : x.id # o.id /\ index'[x.id] = index[x.id]
    BY <1>0, <1>2, <2>2 DEF TakeWhole, Fresh, TypeOK, Order
  <2> QED BY <1>0, <2>1, <2>2, <2>3 DEF Fresh, IndexComplete
<1>3. ASSUME NEW o \in orders, TakePart(o) PROVE Fresh' /\ IndexComplete'
  <2> DEFINE x == [o EXCEPT !.qty = @ - taker.qty]
  <2>1. /\ taker \in Taker /\ taker # None /\ taker'.id = taker.id
        /\ orders' = (orders \ {o}) \cup {x}
        /\ used' = used /\ index' = index
    BY <1>0, <1>3 DEF TakePart, Matches, Taker, TypeOK
  <2>2. x.id = o.id /\ x.side = o.side /\ x.px = o.px /\ x.at = o.at
    BY <1>0 DEF TypeOK, Order
  <2> HIDE DEF x
  <2> QED BY <1>0, <2>1, <2>2 DEF Fresh, IndexComplete
<1>4. ASSUME NEW o \in orders PROVE ~RestMerged(o)
  BY DEF RestMerged, MatchOver, Merges, Fresh
<1>5. CASE Finish
  BY <1>0, <1>5 DEF Finish, Fresh, IndexComplete
<1>6. CASE Rest
  <2> DEFINE x == [id |-> taker.id, side |-> taker.side, px |-> taker.px,
                   qty |-> taker.qty, at |-> arrived]
  <2>1. /\ taker # None /\ taker.id \in Ids /\ taker' = None /\ used' = used
        /\ orders' = orders \cup {x}
        /\ index' = [index EXCEPT ![taker.id] =
                        [side |-> taker.side, px |-> taker.px, at |-> arrived]]
    BY <1>0, <1>6 DEF Rest, MatchOver, TypeOK, Taker
  <2>2. /\ x.id = taker.id /\ x.side = taker.side /\ x.px = taker.px
        /\ x.at = arrived
    OBVIOUS
  <2> HIDE DEF x
  <2>3. \A o \in orders : o.id # taker.id /\ index'[o.id] = index[o.id]
    BY <1>0, <2>1 DEF Fresh, TypeOK, Order
  <2>4. index'[taker.id] = [side |-> x.side, px |-> x.px, at |-> x.at]
    BY <1>0, <2>1, <2>2 DEF TypeOK
  <2> QED BY <1>0, <2>1, <2>2, <2>3, <2>4 DEF Fresh, IndexComplete
<1>7. ASSUME NEW id \in Ids, Cancel(id) PROVE Fresh' /\ IndexComplete'
  <2>1. /\ orders' = orders \ Erased(id) /\ used' = used /\ taker' = taker
        /\ taker = None
    BY <1>7 DEF Cancel
  <2>2. \A o \in orders' : o.id # id
    <3>1. PICK x \in orders : /\ x.id = id /\ x.side = index[id].side
                             /\ x.px = index[id].px /\ x.at = index[id].at
      BY <1>7 DEF Cancel, BookInv, NoDangling
    <3>2. x \in Erased(id)
      BY <3>1 DEF Erased, Level
    <3> QED BY <2>1, <3>1, <3>2 DEF Fresh
  <2>3. \A o \in orders' : index'[o.id] = index[o.id]
    BY <1>0, <1>7, <2>1, <2>2 DEF Cancel, TypeOK, Order
  <2> QED BY <1>0, <2>1, <2>3 DEF Fresh, IndexComplete
<1>8. CASE UNCHANGED vars
  BY <1>0, <1>8 DEF vars, Fresh, IndexComplete
<1> QED
  BY <1>1, <1>2, <1>3, <1>4, <1>5, <1>6, <1>7, <1>8 DEF Next

\* Every step keeps UniqueInv.
LEMMA NextUnique == UniqueInv /\ [Next]_vars => UniqueInv'
<1> SUFFICES ASSUME UniqueInv, [Next]_vars PROVE UniqueInv'
  OBVIOUS
<1>1. BookInv'
  BY NextBook DEF UniqueInv
<1>2. ASSUME ~reuse' PROVE Fresh' /\ IndexComplete'
  <2>1. ~reuse
    BY <1>2, SameSetting
  <2> QED BY <2>1, NextDistinct DEF UniqueInv
<1> QED BY <1>1, <1>2 DEF UniqueInv

\* The book invariant holds, and where no id is sent twice the ids of resting
\* orders are distinct and every one of them is indexed.
THEOREM UniqueKept == Spec => []UniqueInv
  BY InitUnique, NextUnique, PTL DEF Spec

\* Where no id is sent twice, every resting order is indexed where it rests,
\* so every one can be cancelled.
THEOREM IndexCorrect == Spec => [](~reuse => IndexComplete)
<1>1. UniqueInv => (~reuse => IndexComplete)
  BY DEF UniqueInv
<1> QED BY <1>1, UniqueKept, PTL

-----------------------------------------------------------------------------
(* Arrival order within a level.                                           *)

\* While an order is being matched, whatever newly rests bears the latest
\* arrival stamp, which no resting order bears.
LEMMA RestedIsLast ==
  ASSUME UniqueInv, Next, engine = "python" => ~reuse,
         taker # None, taker' = None,
         NEW o \in orders' \ orders, NEW x \in orders
  PROVE  x.at < o.at
<1> USE DEF UniqueInv
<1>1. x.at < arrived
  BY DEF BookInv, Stamped
<1>2. ~Finish /\ \A id \in Ids : ~Cancel(id)
  BY DEF Finish, Cancel
<1>3. \A m \in orders : ~RestMerged(m)
  BY DEF RestMerged, MatchOver, Merges, Fresh
<1>4. \A id \in Ids, side \in Sides, px \in Prices \cup {None}, qty \in 1..MaxQty :
        ~Arrive(id, side, px, qty)
  BY DEF Arrive
<1>5. ASSUME NEW m \in orders PROVE ~TakeWhole(m) /\ ~TakePart(m)
  <2>1. taker \in Taker /\ m \in Order
    BY DEF BookInv, TypeOK
  <2>2. ASSUME NEW q \in Nat PROVE [taker EXCEPT !.qty = q] # None
    BY <2>1, NoneAssumption DEF Taker
  <2>3. ~TakeWhole(m)
    <3>1. m.qty <= taker.qty => taker.qty - m.qty \in Nat
      BY <2>1 DEF Taker, Order
    <3> QED BY <2>2, <3>1 DEF TakeWhole
  <2>4. ~TakePart(m)
    BY <2>2 DEF TakePart
  <2> QED BY <2>3, <2>4
<1>6. Rest
  BY <1>2, <1>3, <1>4, <1>5 DEF Next
<1>7. o.at = arrived
  BY <1>6 DEF Rest
<1> QED BY <1>1, <1>7

\* A quantity that comes to rest queues behind everything at its price, in the
\* Go, C++ and Rust engines whatever ids are sent, in the Python engine where
\* no id is sent again.
THEOREM BackOfLevel == Spec => RestsAtBack
<1> DEFINE A == (engine = "python" => ~reuse) /\ taker # None /\ taker' = None =>
                  \A o \in orders' \ orders : \A x \in orders :
                     x.side = o.side /\ x.px = o.px => x.at < o.at
<1>1. UniqueInv /\ [Next]_vars => [A]_vars
  BY RestedIsLast
<1>2. Spec => [][A]_vars
  BY <1>1, UniqueKept, PTL DEF Spec
<1> QED BY <1>2 DEF RestsAtBack

\* No level crossed by the taker is listed exactly when it crosses no order.
LEMMA NothingCrossed ==
  ASSUME BookInv, taker # None,
         \A px \in prices[Opposite(taker.side)] : ~Crosses(px)
  PROVE  \A o \in orders : o.side = Abstract!Opposite(taker.side) =>
            ~Abstract!Crosses(taker, o.px)
<1>1. taker \in Taker
  BY DEF BookInv, TypeOK
<1>2. \A o \in orders : o.side = Opposite(taker.side) =>
        o.px \in prices[Opposite(taker.side)]
  BY <1>1 DEF BookInv, LevelsExact, Taker, Opposite, Sides
<1> QED BY <1>2 DEF Crosses, Better, Opposite, Abstract!Crosses,
                    Abstract!Better, Abstract!Opposite

\* Every step of the book, with its lists and index, is a step of the abstract
\* book or changes nothing there.
LEMMA StepImplements ==
  ASSUME UniqueInv, ~reuse, [Next]_vars
  PROVE  [Abstract!Next]_(Abstract!vars)
<1> USE DEF UniqueInv
<1>0. TypeOK /\ BookInv /\ reuse' = reuse
  BY SameSetting DEF BookInv
<1>m. /\ bookOrders = orders /\ bookOrders' = orders'
      /\ bookArrived = arrived /\ bookArrived' = arrived'
      /\ bookTaker = taker /\ bookTaker' = taker'
      /\ bookFills = fills /\ bookFills' = fills'
  BY <1>0 DEF bookOrders, bookArrived, bookTaker, bookFills
<1> USE <1>m
<1>1. ASSUME NEW id \in Ids, NEW side \in Sides, NEW px \in Prices \cup {None},
             NEW qty \in 1..MaxQty, Arrive(id, side, px, qty)
      PROVE  Abstract!Next
  <2>1. Abstract!Arrive(id, side, px, qty)
    BY <1>1 DEF Arrive, Abstract!Arrive
  <2> QED BY <2>1 DEF Abstract!Next, Sides, Abstract!Sides
<1>2. ASSUME NEW o \in orders, TakeWhole(o) \/ TakePart(o)
      PROVE  Abstract!Next
  <2>1. /\ Matches(o) /\ o \in Order /\ taker \in Taker /\ taker # None
        /\ taker.qty > 0
    BY <1>0, <1>2 DEF TakeWhole, TakePart, Matches, TypeOK
  <2>2. o.qty \in Nat /\ taker.qty \in Nat /\ o.qty > 0
    BY <2>1 DEF Order, Taker
  <2>3. Abstract!First(o)
    BY <1>0, <2>1, MatchedIsFirst DEF Abstract!First, Better, Abstract!Better
  <2>4. Abstract!Crosses(taker, o.px) /\ o.side = Abstract!Opposite(taker.side)
    BY <2>1 DEF Matches, Crosses, Better, Opposite, Abstract!Crosses,
                Abstract!Better, Abstract!Opposite
  <2> DEFINE n == Abstract!Smaller(taker.qty, o.qty)
  <2>5. CASE TakeWhole(o)
    <3>1. n = o.qty
      BY <2>2, <2>5 DEF TakeWhole, Abstract!Smaller
    <3>2. /\ orders' = (orders \ {o}) \cup
                (IF o.qty = n THEN {} ELSE {[o EXCEPT !.qty = @ - n]})
          /\ taker' = [taker EXCEPT !.qty = @ - n]
          /\ fills' = Append(fills, [px |-> o.px, qty |-> n, maker |-> o.id])
          /\ UNCHANGED arrived
      BY <2>5, <3>1 DEF TakeWhole
    <3>3. Abstract!Trade(o)
      BY <2>1, <2>3, <2>4, <3>2 DEF Abstract!Trade
    <3> QED BY <3>3 DEF Abstract!Next
  <2>6. CASE TakePart(o)
    <3>1. n = taker.qty /\ o.qty # n /\ taker.qty - n = 0
      BY <2>2, <2>6 DEF TakePart, Abstract!Smaller
    <3>2. /\ orders' = (orders \ {o}) \cup
                (IF o.qty = n THEN {} ELSE {[o EXCEPT !.qty = @ - n]})
          /\ fills' = Append(fills, [px |-> o.px, qty |-> n, maker |-> o.id])
          /\ UNCHANGED arrived
      BY <2>6, <3>1 DEF TakePart
    <3>3. taker' = [taker EXCEPT !.qty = @ - n]
      BY <2>6, <3>1 DEF TakePart
    <3>4. Abstract!Trade(o)
      BY <2>1, <2>3, <2>4, <3>2, <3>3 DEF Abstract!Trade
    <3> QED BY <3>4 DEF Abstract!Next
  <2> QED BY <1>2, <2>5, <2>6
<1>3. ASSUME NEW o \in orders PROVE ~RestMerged(o)
  BY DEF RestMerged, MatchOver, Merges, Fresh
<1>4. CASE Finish \/ Rest
  <2>1. /\ taker # None /\ taker' = None
        /\ \/ taker.qty = 0
           \/ \A o \in orders : o.side = Abstract!Opposite(taker.side) =>
                  ~Abstract!Crosses(taker, o.px)
    BY <1>0, <1>4, NothingCrossed DEF Finish, Rest, MatchOver
  <2>2. taker \in Taker
    BY <1>0, <2>1 DEF TypeOK
  <2>3. orders' = orders \cup
          (IF taker.qty = 0 \/ taker.px = None THEN {}
           ELSE {[id |-> taker.id, side |-> taker.side, px |-> taker.px,
                  qty |-> taker.qty, at |-> arrived]})
    BY <1>4, <2>2 DEF Finish, Rest, Taker
  <2>4. Abstract!Settle
    BY <1>4, <2>1, <2>3 DEF Finish, Rest, Abstract!Settle
  <2> QED BY <2>4 DEF Abstract!Next
<1>5. ASSUME NEW id \in Ids, Cancel(id) PROVE Abstract!Next
  <2>1. PICK x \in orders : /\ x.id = id /\ x.side = index[id].side
                           /\ x.px = index[id].px /\ x.at = index[id].at
    BY <1>5 DEF Cancel, BookInv, NoDangling
  <2>2. x \in Erased(id)
    BY <2>1 DEF Erased, Level
  <2>3. \A o \in Erased(id) : o.id = id
    BY <1>0, <1>5, ErasedIsOwn DEF Cancel
  <2>4. orders \ Erased(id) = {o \in orders : o.id # id}
    BY <2>1, <2>2, <2>3 DEF Fresh
  <2>5. Abstract!Cancel(id)
    BY <1>5, <2>4 DEF Cancel, Abstract!Cancel
  <2> QED BY <2>5 DEF Abstract!Next
<1>6. CASE UNCHANGED vars
  BY <1>6 DEF vars, Abstract!vars
<1> QED
  BY <1>1, <1>2, <1>3, <1>4, <1>5, <1>6 DEF Next

\* Where no id is sent twice, the order book of every engine implements the
\* price-time book: the lists, the index and the loop add no behaviour.
THEOREM Implements == Spec => Refines
<1>1. Init => Abstract!Init
  BY DEF Init, Abstract!Init, bookOrders, bookArrived, bookTaker, bookFills
<1>2. UniqueInv /\ [Next]_vars => [Abstract!Next]_(Abstract!vars)
  <2>1. CASE ~reuse
    BY <2>1, StepImplements
  <2>2. ASSUME reuse, [Next]_vars PROVE UNCHANGED (Abstract!vars)
    BY <2>2, SameSetting
       DEF Abstract!vars, bookOrders, bookArrived, bookTaker, bookFills
  <2> QED BY <2>1, <2>2
<1> QED BY <1>1, <1>2, UniqueKept, PTL DEF Spec, Refines, Abstract!Spec
=============================================================================
