---------------------------- MODULE MCFinalQuery ------------------------------
(***************************************************************************)
(* Model-checking instances of FinalQuery: parts and orders of every       *)
(* instance.                                                               *)
(***************************************************************************)
EXTENDS FinalQuery

Order(key, quantity, price) ==
  [lPartkey |-> key, lQuantity |-> quantity, lExtendedprice |-> price]

\* One matching part, at instance 3, and its orders too: the key, the sum and
\* the share have two links to go.
RingParts == << << >>, << >>, <<5>> >>
RingOrders == << <<Order(6, 1, 3)>>, << >>,
                 <<Order(5, 9, 100), Order(5, 1, 20)>> >>

\* Two instances with one matching part each; both have orders of both parts.
\* The averages are 14 and 16: only the orders of 1 and 2 pieces are undersold.
PairParts == << <<5>>, <<4>> >>
PairOrders == << <<Order(4, 1, 100), Order(5, 8, 1)>>,
                 <<Order(5, 2, 20), Order(4, 31, 7), Order(5, 32, 4)>> >>

===============================================================================
