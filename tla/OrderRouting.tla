----------------------------- MODULE OrderRouting -----------------------------
(***************************************************************************)
(* The first of the three calculators: Calculator::doCalculate, and the    *)
(* cases order, totalData and underSale of the server thread.              *)
(*                                                                         *)
(* An instance counts the orders of the parts in its own table; any other  *)
(* order goes round the ring until it meets the instance that has its      *)
(* part.  The phases are separated by the barrier of RingBarrier:          *)
(*                                                                         *)
(*   0   solve or forward the local orders                                 *)
(*   1   add up and tell everybody the local totals                        *)
(*   2   tell everybody the parts sold less than 30% of the average        *)
(*   3   close the connection                                              *)
(*                                                                         *)
(* Only the quantity of an order matters; the brands, which index the      *)
(* containers TotalData and BrandData, are those of the parts, so that a   *)
(* table by part stands for the table by brand and part.                   *)
(***************************************************************************)
EXTENDS Integers, Sequences, FiniteSetsExt, Functions, Totals

CONSTANTS N,       \* as in RingBarrier
          Parts,   \* Parts[p]: the keys in p's part table
          Orders   \* Orders[p]: p's orders

VARIABLES pc, finish_index, is_finished, is_notify, has_notify, notifying,
          wire, disturbed, lost,
          step,        \* position of the main thread within the phase
          orders,      \* orders the main thread has still to solve
          saleCount,   \* saleCount[p]: the quantities sold, by part
          localSales,
          partCount, totalSales,
          avg,         \* the sales and the number of parts of the average read
          announce,    \* undersold parts the main thread has still to send
          underSale,   \* the list of undersold parts
          closed,      \* the client's connection is closed
          handling     \* the message the server thread has still to forward

Ring == INSTANCE RingBarrier WITH Rounds <- 3, Disturbed <- {}

Procs == Ring!Procs
Down(p) == Ring!Down(p)

OrderType == [lPartkey : Nat, lQuantity : Nat]

ASSUME NAssumption == N \in Nat /\ N >= 2
ASSUME PartsAssumption ==
  /\ Parts \in [Procs -> SUBSET Nat]
  /\ \A p, q \in Procs : p # q => Parts[p] \cap Parts[q] = {}
ASSUME OrdersAssumption ==
  /\ Orders \in [Procs -> Seq(OrderType)]
  /\ \A p \in Procs : \A i \in DOMAIN Orders[p] :
       \E q \in Procs : Orders[p][i].lPartkey \in Parts[q]

totalVars == <<partCount, totalSales>>
sumVars == <<saleCount, localSales>>
listVars == <<announce, underSale>>
routingVars == <<step, orders, sumVars, totalVars, avg, listVars, closed,
                 handling>>
vars == <<Ring!vars, routingVars>>

None == [head |-> "none"]

Init ==
  /\ Ring!Init
  /\ step = [p \in Procs |-> 0]
  /\ orders = Orders
  /\ saleCount = [p \in Procs |-> << >>]
  /\ localSales = [p \in Procs |-> 0]
  /\ partCount = [p \in Procs |-> 0]
  /\ totalSales = [p \in Procs |-> 0]
  /\ avg = [p \in Procs |-> <<0, 0>>]
  /\ announce = [p \in Procs |-> {}]
  /\ underSale = [p \in Procs |-> {}]
  /\ closed = {}
  /\ handling = [p \in Procs |-> None]

-------------------------------------------------------------------------------
(***************************************************************************)
(* solveOrder, run by both threads, and the tables.                        *)
(***************************************************************************)

\* A write to a closed socket fails, and nobody looks at the error.
Send(p, m) ==
  wire' = IF p \in closed THEN wire
                          ELSE [wire EXCEPT ![Down(p)] = Append(@, m)]

Order(o) == [head |-> "order", order |-> o]

\* Mutant: a part met for the first time gets a fresh entry, but no quantity.
AddedLate(sums, o) ==
  IF o.lPartkey \in DOMAIN sums
    THEN [sums EXCEPT ![o.lPartkey] = @ + o.lQuantity]
    ELSE [k \in DOMAIN sums \cup {o.lPartkey} |->
            IF k = o.lPartkey THEN 0 ELSE sums[k]]

\* updateData: the entry of the part, made when it is missing.
Added(sums, o) ==
  [k \in DOMAIN sums \cup {o.lPartkey} |->
     (IF k \in DOMAIN sums THEN sums[k] ELSE 0)
     + (IF k = o.lPartkey THEN o.lQuantity ELSE 0)]

Count(p, o) ==
  /\ saleCount' = [saleCount EXCEPT ![p] = Added(@, o)]
  /\ localSales' = [localSales EXCEPT ![p] = @ + o.lQuantity]

\* k.saleCount < avg * 0.3, with avg = totalSales / partCount
SellsBadly(count, average) == 10 * count * average[2] < 3 * average[1]

-------------------------------------------------------------------------------
(***************************************************************************)
(* The main thread.                                                        *)
(***************************************************************************)

mainVars == <<pc, finish_index, is_finished, is_notify>>
serverVars == <<has_notify, notifying, lost, disturbed>>

InPhase(p, k) == pc[p] = "run" /\ finish_index[p] = k

Advance(p) == step' = [step EXCEPT ![p] = @ + 1]

\* One iteration of the loop over the local orders.
SolveOrder(p) ==
  /\ InPhase(p, 0) /\ orders[p] # << >>
  /\ LET o == Head(orders[p]) IN
       \/ /\ o.lPartkey \in Parts[p]
          /\ Count(p, o)
          /\ UNCHANGED wire
       \/ /\ o.lPartkey \notin Parts[p]
          /\ Send(p, Order(o))
          /\ UNCHANGED sumVars
  /\ orders' = [orders EXCEPT ![p] = Tail(@)]
  /\ UNCHANGED <<mainVars, serverVars, step, totalVars, avg, listVars, closed,
                 handling>>

\* localPartCount, addPartCount and addTotalSales
AddLocalTotals(p) ==
  /\ InPhase(p, 1) /\ step[p] = 0
  /\ Advance(p)
  /\ partCount' = [partCount EXCEPT ![p] = @ + Cardinality(DOMAIN saleCount[p])]
  /\ totalSales' = [totalSales EXCEPT ![p] = @ + localSales[p]]
  /\ UNCHANGED <<mainVars, serverVars, wire, orders, sumVars, avg, listVars,
                 closed, handling>>

\* sendTotalData: the port names the instance where the message started
SendTotalData(p) ==
  /\ InPhase(p, 1) /\ step[p] = 1
  /\ Advance(p)
  /\ Send(p, [head |-> "totalData", from |-> p, sales |-> localSales[p],
              parts |-> Cardinality(DOMAIN saleCount[p])])
  /\ UNCHANGED <<mainVars, serverVars, orders, sumVars, totalVars, avg,
                 listVars, closed, handling>>

\* avg, and the parts below 30% of it
ReadAverage(p) ==
  /\ InPhase(p, 2) /\ step[p] = 0
  /\ Advance(p)
  /\ avg' = [avg EXCEPT ![p] = <<totalSales[p], partCount[p]>>]
  /\ announce' = [announce EXCEPT ![p] =
       {k \in DOMAIN saleCount[p] : SellsBadly(saleCount[p][k], avg'[p])}]
  /\ UNCHANGED <<mainVars, serverVars, wire, orders, sumVars, totalVars,
                 underSale, closed, handling>>

\* One undersold part; the instance does not put it on its own list here.
SendUnderSale(p) ==
  /\ InPhase(p, 2)
  /\ \E k \in announce[p] :
       /\ Send(p, [head |-> "underSale",
                   part |-> [id |-> k, saleCount |-> saleCount[p][k]]])
       /\ announce' = [announce EXCEPT ![p] = @ \ {k}]
  /\ UNCHANGED <<mainVars, serverVars, step, orders, sumVars, totalVars, avg,
                 underSale, closed, handling>>

Close(p) ==
  /\ InPhase(p, 3) /\ p \notin closed
  /\ closed' = closed \cup {p}
  /\ UNCHANGED <<mainVars, serverVars, wire, step, orders, sumVars, totalVars,
                 avg, listVars, handling>>

Calculate(p) ==
  \/ SolveOrder(p) \/ AddLocalTotals(p) \/ SendTotalData(p)
  \/ ReadAverage(p) \/ SendUnderSale(p) \/ Close(p)

\* What is left to do before the doAsync at the end of the phase.
PhaseDone(p) ==
  CASE finish_index[p] = 0 -> orders[p] = << >>
    [] finish_index[p] = 1 -> step[p] = 2
    [] finish_index[p] = 2 -> step[p] = 1 /\ announce[p] = {}
    [] OTHER -> FALSE

EnterBarrier(p) ==
  /\ PhaseDone(p)
  /\ Ring!EnterBarrier(p)
  /\ UNCHANGED routingVars

LeaveBarrier(p) ==
  /\ Ring!LeaveBarrier(p)
  /\ step' = [step EXCEPT ![p] = 0]
  /\ UNCHANGED <<orders, sumVars, totalVars, avg, listVars, closed, handling>>

Synchronise(p) ==
  \/ EnterBarrier(p)
  \/ LeaveBarrier(p)
  \/ (Ring!SendFinish(p) \/ Ring!Wait(p)) /\ UNCHANGED routingVars

-------------------------------------------------------------------------------
(***************************************************************************)
(* The server thread.                                                      *)
(***************************************************************************)

Reads(p, head) ==
  /\ handling[p] = None
  /\ Ring!Receives(p)
  /\ Head(wire[p]).head = head

Consume(p) == wire' = [wire EXCEPT ![p] = Tail(@)]

GoOn(p) == handling' = [handling EXCEPT ![p] = Head(wire[p])]

\* A server whose instance has closed drops every token: all barriers are
\* behind it, so that HandleFinish sends nothing.
ReceiveFinish(p) ==
  /\ Reads(p, "finish")
  /\ Ring!HandleFinish(p)
  /\ UNCHANGED routingVars

\* Mutant: a foreign order is counted where it arrives.
ReceiveOrderHere(p) ==
  /\ Reads(p, "order")
  /\ Consume(p)
  /\ Count(p, Head(wire[p]).order)
  /\ UNCHANGED <<mainVars, serverVars, step, orders, totalVars, avg, listVars,
                 closed, handling>>

ReceiveOrder(p) ==
  /\ Reads(p, "order")
  /\ Consume(p)
  /\ LET o == Head(wire[p]).order IN
       \/ /\ o.lPartkey \in Parts[p]
          /\ Count(p, o)
          /\ UNCHANGED handling
       \/ /\ o.lPartkey \notin Parts[p]
          /\ GoOn(p)
          /\ UNCHANGED sumVars
  /\ UNCHANGED <<mainVars, serverVars, step, orders, totalVars, avg, listVars,
                 closed>>

ReceiveTotalData(p) ==
  /\ Reads(p, "totalData")
  /\ Consume(p)
  /\ LET m == Head(wire[p]) IN
       \/ /\ m.from = p
          /\ UNCHANGED <<totalVars, handling>>
       \/ /\ m.from # p
          /\ partCount' = [partCount EXCEPT ![p] = @ + m.parts]
          /\ totalSales' = [totalSales EXCEPT ![p] = @ + m.sales]
          /\ GoOn(p)
  /\ UNCHANGED <<mainVars, serverVars, step, orders, sumVars, avg, listVars,
                 closed>>

\* tryInsertUndersalePart: a part that is on the list goes no further.  The
\* message makes a full turn, and its origin puts it on the list last.
ReceiveUnderSale(p) ==
  /\ Reads(p, "underSale")
  /\ Consume(p)
  /\ LET part == Head(wire[p]).part IN
       \/ /\ \E x \in underSale[p] : x.id = part.id
          /\ UNCHANGED <<underSale, handling>>
       \/ /\ \A x \in underSale[p] : x.id # part.id
          /\ underSale' = [underSale EXCEPT ![p] = @ \cup {part}]
          /\ GoOn(p)
  /\ UNCHANGED <<mainVars, serverVars, step, orders, sumVars, totalVars, avg,
                 announce, closed>>

\* Mutant: what comes from another instance goes no further.
ForwardNot(p) ==
  /\ handling[p] # None
  /\ handling' = [handling EXCEPT ![p] = None]
  /\ UNCHANGED <<mainVars, serverVars, wire, step, orders, sumVars, totalVars,
                 avg, listVars, closed>>

\* sendMessager->send(m), transferTotalData, transferUndersalePartData
Forward(p) ==
  /\ handling[p] # None
  /\ Send(p, handling[p])
  /\ handling' = [handling EXCEPT ![p] = None]
  /\ UNCHANGED <<mainVars, serverVars, step, orders, sumVars, totalVars, avg,
                 listVars, closed>>

Serve(p) ==
  \/ ReceiveFinish(p) \/ ReceiveOrder(p) \/ ReceiveTotalData(p)
  \/ ReceiveUnderSale(p) \/ Forward(p)
  \/ Ring!Notify(p) /\ UNCHANGED routingVars

Next == \E p \in Procs : Calculate(p) \/ Synchronise(p) \/ Serve(p)

Spec == Init /\ [][Next]_vars

-------------------------------------------------------------------------------
(***************************************************************************)
(* Properties.                                                             *)
(***************************************************************************)

Quantity(os) == Total([i \in DOMAIN os |-> os[i].lQuantity])

QuantityOf(k, os) ==
  Total([i \in DOMAIN os |->
           IF os[i].lPartkey = k THEN os[i].lQuantity ELSE 0])

KeysOf(os) == {os[i].lPartkey : i \in DOMAIN os}

\* What one instance that has read everything computes.
SoldParts == UNION {KeysOf(Orders[p]) : p \in Procs}

SumOf == [k \in SoldParts |-> Total([p \in 1..N |-> QuantityOf(k, Orders[p])])]

Average ==
  <<Total([p \in 1..N |-> Quantity(Orders[p])]), Cardinality(SoldParts)>>

Undersold == {[id |-> k, saleCount |-> SumOf[k]] :
                k \in {j \in DOMAIN SumOf : SellsBadly(SumOf[j], Average)}}

PartType == [id : Nat, saleCount : Nat]

Message == [head : {"finish"}, idx : Nat, cnt : [Procs -> Nat]]
           \cup [head : {"order"}, order : OrderType]
           \cup [head : {"totalData"}, from : Procs, sales : Nat, parts : Nat]
           \cup [head : {"underSale"}, part : PartType]

TypeOK ==
  /\ step \in [Procs -> 0..2]
  /\ \A p \in Procs :
       /\ \A i \in DOMAIN wire[p] : wire[p][i] \in Message
       /\ \A i \in DOMAIN orders[p] : orders[p][i] \in OrderType
       /\ DOMAIN saleCount[p] \subseteq Parts[p]
       /\ \A k \in DOMAIN saleCount[p] : saleCount[p][k] \in Nat
       /\ announce[p] \subseteq DOMAIN saleCount[p]
       /\ avg[p] \in Nat \X Nat
  /\ localSales \in [Procs -> Nat]
  /\ partCount \in [Procs -> Nat] /\ totalSales \in [Procs -> Nat]
  /\ underSale \in [Procs -> SUBSET PartType]
  /\ closed \subseteq Procs
  /\ handling \in [Procs -> {None} \cup Message]

\* Every order is counted exactly once, by the instance that has its part,
\* before anybody adds up: an instance that has left the first barrier has the
\* sums over everybody's orders, however far these had to travel.
OrdersRouted ==
  \A p \in Procs : finish_index[p] > 0 =>
    saleCount[p] = Restrict(SumOf, Parts[p] \cap DOMAIN SumOf)

\* The averages all instances compare with are the same, that of all orders,
\* although each sums up the totals in another order and on two threads.
SameAverage ==
  \A p \in Procs :
    finish_index[p] > 2 \/ (finish_index[p] = 2 /\ step[p] > 0)
      => avg[p] = Average

\* An instance that comes out of the last barrier, and will close its client,
\* lists the undersold parts all others list, which are the right ones, and its
\* server has nothing to forward.  As the list is complete it never will have:
\* an undersold part on its second turn is dropped.
SameList ==
  \A p \in Procs : finish_index[p] = 3 =>
    underSale[p] = Undersold /\ handling[p] = None

===============================================================================
