---------------------------- MODULE MCOrderRouting ----------------------------
(***************************************************************************)
(* Model-checking instance of OrderRouting.                                *)
(***************************************************************************)
EXTENDS OrderRouting

Sold(key, quantity) == [lPartkey |-> key, lQuantity |-> quantity]

\* Part 1 is at instance 3, parts 2 and 3 at instance 1; part 3 is never sold.
\* The order of part 1 at instance 2 has two links to go; the average is 5, and
\* part 1 is undersold.
RingParts == <<{2, 3}, {}, {1}>>
RingOrders == <<<<Sold(2, 9)>>, <<Sold(1, 1)>>, << >>>>

===============================================================================
