------------------------------ MODULE MCPartTable ------------------------------
(***************************************************************************)
(* Model-checking instance of PartTable.                                   *)
(***************************************************************************)
EXTENDS PartTable

Sold(key, quantity) == [lPartkey |-> key, lQuantity |-> quantity]

\* Part 2 is sold at both instances.  The average is 10, and part 1 is
\* undersold; if part 3, or a count, were missed, part 2 would be as well.
PairParts == << <<2>>, <<1, 3>> >>
PairOrders == << <<Sold(2, 1), Sold(3, 26)>>, <<Sold(2, 2), Sold(1, 1)>> >>

===============================================================================
