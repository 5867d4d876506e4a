------------------------------ MODULE FinalQuery -------------------------------
(***************************************************************************)
(* The calculation of the program: FinalCompetitionCalculator::doCalculate *)
(* on the main thread of every instance, and the cases partKey, finalPart, *)
(* finalAns and finish of the server thread.                               *)
(*                                                                         *)
(* The phases are separated by the barrier of module RingBarrier, whose    *)
(* actions are used as they are: tokens and data share one TCP stream per  *)
(* link, and that order is what makes a barrier also mean "everything sent *)
(* before it has been handled".  finish_index is the number of the phase:  *)
(*                                                                         *)
(*   0          preprocess: tell everybody the matching part keys          *)
(*   1          preprocess: collect the local orders of these parts        *)
(*   2          communicatePartSale: tell everybody the local sums         *)
(*   3          mergeData; getLocalUnderSale: the local share              *)
(*   4 .. N+2   mergeQueryAns: the share travels down the ring to          *)
(*              SelectIdx, one link per phase, summed on the way           *)
(*   N+3        the final doAsync                                          *)
(*                                                                         *)
(* No wait is disturbed here: what a disturbed one does to the barrier is  *)
(* the subject of RingBarrier.                                             *)
(*                                                                         *)
(* Prices are in cents (to_string keeps six decimals of a sum of prices    *)
(* with two), and the test lQuantity < 0.3 * average is the same test on   *)
(* integers.                                                               *)
(***************************************************************************)
EXTENDS Integers, Sequences, SequencesExt, Totals, Turns

CONSTANTS N,             \* as in RingBarrier
          SelectIdx,     \* the instance where the query was typed
          Parts,         \* Parts[p]: keys of p's parts that match the target
          Orders         \* Orders[p]: p's orders

VARIABLES pc, finish_index, is_finished, is_notify, has_notify, notifying,
          wire, disturbed, lost,
          step,            \* position of the main thread within the phase
          partKeyMap,      \* part keys known to match
          orders,          \* orders kept by preprocess
          partData,        \* sums per part
          receivePartData, \* sums received from the others
          underSales,      \* the share of the answer
          handling         \* the rest of the handler the server thread is in

Ring == INSTANCE RingBarrier WITH Rounds <- N + 4, Disturbed <- {}

Procs == Ring!Procs
Down(p) == Ring!Down(p)

ASSUME NAssumption == N \in Nat /\ N >= 2
ASSUME SelectAssumption == SelectIdx \in Procs
ASSUME PartsAssumption == Parts \in [Procs -> Seq(Nat)]
ASSUME OrdersAssumption ==
  Orders \in [Procs -> Seq([lPartkey : Nat, lQuantity : Nat,
                            lExtendedprice : Nat])]

dataVars == <<partKeyMap, orders, partData, receivePartData, underSales>>
queryVars == <<step, dataVars, handling>>
vars == <<Ring!vars, queryVars>>

Idle == [rest |-> "none"]

Init ==
  /\ Ring!Init
  /\ step = [p \in Procs |-> 0]
  /\ partKeyMap = [p \in Procs |-> {}]
  /\ orders = [p \in Procs |-> << >>]
  /\ partData = [p \in Procs |-> << >>]
  /\ receivePartData = [p \in Procs |-> << >>]
  /\ underSales = [p \in Procs |-> 0]
  /\ handling = [p \in Procs |-> Idle]

-------------------------------------------------------------------------------
(***************************************************************************)
(* FinalCompetitionData and PartSaleData.                                  *)
(***************************************************************************)

Sale(id, sale, count) ==
  [partid |-> id, totalSale |-> sale, orderCount |-> count]

\* Mutant: the entry of the same part is replaced.
InsertReplaces(sales, d) ==
  IF \E i \in DOMAIN sales : sales[i].partid = d.partid
    THEN [i \in DOMAIN sales |->
            IF sales[i].partid = d.partid THEN d ELSE sales[i]]
    ELSE Append(sales, d)

\* insertPartData and insertReceivePartData: merge with the entry of the same
\* part, or append.
Insert(sales, d) ==
  IF \E i \in DOMAIN sales : sales[i].partid = d.partid
    THEN [i \in DOMAIN sales |->
            IF sales[i].partid = d.partid
              THEN Sale(d.partid, sales[i].totalSale + d.totalSale,
                        sales[i].orderCount + d.orderCount)
              ELSE sales[i]]
    ELSE Append(sales, d)

SolveAnOrder(sales, o) == Insert(sales, Sale(o.lPartkey, o.lQuantity, 1))

\* lQuantity < getAvg() * 0.3
SellsBadly(o, sale) == 10 * o.lQuantity * sale.orderCount < 3 * sale.totalSale

EntryOf(sales, key) == sales[CHOOSE i \in DOMAIN sales : sales[i].partid = key]

\* What an order adds to underSales.
Undersold(o, sale) == IF SellsBadly(o, sale) THEN o.lExtendedprice ELSE 0

UnderSale(os, sales) ==
  Total([i \in DOMAIN os |->
           Undersold(os[i], EntryOf(sales, os[i].lPartkey))])

-------------------------------------------------------------------------------
(***************************************************************************)
(* The main thread.                                                        *)
(***************************************************************************)

\* The instance whose turn it is in round i of the loop of mergeQueryAns.
Now == [i \in 0..N - 2 |-> TurnOf(i, SelectIdx, N)]

\* Steps of the main thread in the phase it is in.
Work(p) ==
  LET k == finish_index[p] IN
    CASE k = 0 -> 2 * Len(Parts[p])
      [] k = 1 -> Len(Orders[p])
      [] k = 2 -> Len(partData[p])
      [] k = 3 -> Len(receivePartData[p]) + 1
      [] k \in 4..N + 2 -> IF p = Now[k - 4] THEN 1 ELSE 0
      [] OTHER -> 0

InPhase(p, k) == pc[p] = "run" /\ finish_index[p] = k /\ step[p] < Work(p)

Advance(p) == step' = [step EXCEPT ![p] = @ + 1]

Send(p, m) == wire' = [wire EXCEPT ![Down(p)] = Append(@, m)]

mainVars == <<pc, finish_index, is_finished, is_notify>>
serverVars == <<has_notify, notifying, lost, disturbed>>

PartKey(k) == [head |-> "partKey", key |-> k]

\* preprocess, first loop: addPartKey, then send and insertPartData
AddPartKey(p) ==
  /\ InPhase(p, 0) /\ step[p] % 2 = 0
  /\ Advance(p)
  /\ partKeyMap' =
       [partKeyMap EXCEPT ![p] = @ \cup {Parts[p][step[p] \div 2 + 1]}]
  /\ UNCHANGED <<mainVars, serverVars, wire, orders, partData, receivePartData,
                 underSales, handling>>

SendPartKey(p) ==
  /\ InPhase(p, 0) /\ step[p] % 2 = 1
  /\ Advance(p)
  /\ LET k == Parts[p][step[p] \div 2 + 1] IN
       /\ Send(p, PartKey(k))
       /\ partData' = [partData EXCEPT ![p] = Insert(@, Sale(k, 0, 0))]
  /\ UNCHANGED <<mainVars, serverVars, partKeyMap, orders, receivePartData,
                 underSales, handling>>

\* preprocess, second loop
CollectOrder(p) ==
  /\ InPhase(p, 1)
  /\ Advance(p)
  /\ LET o == Orders[p][step[p] + 1] IN
       \/ /\ o.lPartkey \notin partKeyMap[p]
          /\ UNCHANGED <<orders, partData>>
       \/ /\ o.lPartkey \in partKeyMap[p]
          /\ orders' = [orders EXCEPT ![p] = Append(@, o)]
          /\ partData' = [partData EXCEPT ![p] = SolveAnOrder(@, o)]
  /\ UNCHANGED <<mainVars, serverVars, wire, partKeyMap, receivePartData,
                 underSales, handling>>

\* Mutant: origins are counted from 0.
SendPartSaleDataFromZero(p) ==
  /\ InPhase(p, 2)
  /\ Advance(p)
  /\ Send(p, [head |-> "finalPart",
              sale |-> partData[p][step[p] + 1], from |-> p - 1])
  /\ UNCHANGED <<mainVars, serverVars, dataVars, handling>>

\* communicatePartSale; the receive port tells where the message started
SendPartSaleData(p) ==
  /\ InPhase(p, 2)
  /\ Advance(p)
  /\ Send(p, [head |-> "finalPart",
              sale |-> partData[p][step[p] + 1], from |-> p])
  /\ UNCHANGED <<mainVars, serverVars, dataVars, handling>>

\* One iteration of mergeData
MergeData(p) ==
  /\ InPhase(p, 3) /\ step[p] < Len(receivePartData[p])
  /\ Advance(p)
  /\ partData' = [partData EXCEPT ![p] =
                    Insert(@, receivePartData[p][step[p] + 1])]
  /\ UNCHANGED <<mainVars, serverVars, wire, partKeyMap, orders,
                 receivePartData, underSales, handling>>

\* Mutant: getLocalUnderSale does not reset underSales.
GetLocalUnderSaleOnTop(p) ==
  /\ InPhase(p, 3) /\ step[p] = Len(receivePartData[p])
  /\ Advance(p)
  /\ underSales' =
       [underSales EXCEPT ![p] = @ + UnderSale(orders[p], partData[p])]
  /\ UNCHANGED <<mainVars, serverVars, wire, partKeyMap, orders, partData,
                 receivePartData, handling>>

\* setUnderSales(0.) and the loop of getLocalUnderSale
GetLocalUnderSale(p) ==
  /\ InPhase(p, 3) /\ step[p] = Len(receivePartData[p])
  /\ Advance(p)
  /\ underSales' = [underSales EXCEPT ![p] = UnderSale(orders[p], partData[p])]
  /\ UNCHANGED <<mainVars, serverVars, wire, partKeyMap, orders, partData,
                 receivePartData, handling>>

\* mergeQueryAns
SendFinalAns(p) ==
  /\ pc[p] = "run" /\ finish_index[p] \in 4..N + 2 /\ step[p] < Work(p)
  /\ Advance(p)
  /\ Send(p, [head |-> "finalAns", ans |-> underSales[p]])
  /\ UNCHANGED <<mainVars, serverVars, dataVars, handling>>

Calculate(p) ==
  \/ AddPartKey(p) \/ SendPartKey(p) \/ CollectOrder(p)
  \/ SendPartSaleData(p) \/ MergeData(p) \/ GetLocalUnderSale(p)
  \/ SendFinalAns(p)

\* doAsync, when the phase is done
EnterBarrier(p) ==
  /\ step[p] = Work(p)
  /\ Ring!EnterBarrier(p)
  /\ UNCHANGED queryVars

LeaveBarrier(p) ==
  /\ Ring!LeaveBarrier(p)
  /\ step' = [step EXCEPT ![p] = 0]
  /\ UNCHANGED <<dataVars, handling>>

Synchronise(p) ==
  \/ EnterBarrier(p)
  \/ LeaveBarrier(p)
  \/ (Ring!SendFinish(p) \/ Ring!Wait(p)) /\ UNCHANGED queryVars

-------------------------------------------------------------------------------
(***************************************************************************)
(* The server thread.  The main thread may run between two steps of a      *)
(* handler: after partKeyMap or receivePartData is updated and before the  *)
(* message is forwarded.                                                   *)
(***************************************************************************)

\* Mutant: forwarding is left to another thread, the next message is read
\* meanwhile.
ReadsOn(p, head) ==
  /\ Ring!Receives(p)
  /\ Head(wire[p]).head = head

Reads(p, head) ==
  /\ handling[p] = Idle
  /\ Ring!Receives(p)
  /\ Head(wire[p]).head = head

Consume(p) == wire' = [wire EXCEPT ![p] = Tail(@)]

\* A handler goes on: rest names the steps that are left.
GoOn(p, rest) ==
  handling' = [handling EXCEPT ![p] = [rest |-> rest, msg |-> Head(wire[p])]]

ReceiveFinish(p) ==
  /\ Reads(p, "finish")
  /\ Ring!HandleFinish(p)
  /\ UNCHANGED queryVars

\* Mutant: a known key is forwarded all the same.
ReceivePartKeyAlways(p) ==
  /\ Reads(p, "partKey")
  /\ Consume(p)
  /\ partKeyMap' = [partKeyMap EXCEPT ![p] = @ \cup {Head(wire[p]).key}]
  /\ GoOn(p, "forward")
  /\ UNCHANGED <<mainVars, serverVars, step, orders, partData, receivePartData,
                 underSales>>

ReceivePartKey(p) ==
  /\ Reads(p, "partKey")
  /\ Consume(p)
  /\ LET k == Head(wire[p]).key IN
       \/ /\ k \in partKeyMap[p]
          /\ UNCHANGED <<partKeyMap, handling>>
       \/ /\ k \notin partKeyMap[p]
          /\ partKeyMap' = [partKeyMap EXCEPT ![p] = @ \cup {k}]
          /\ GoOn(p, "forward")
  /\ UNCHANGED <<mainVars, serverVars, step, orders, partData, receivePartData,
                 underSales>>

ReceiveFinalPart(p) ==
  /\ Reads(p, "finalPart")
  /\ Consume(p)
  /\ LET m == Head(wire[p]) IN
       \/ /\ m.from = p
          /\ UNCHANGED <<receivePartData, handling>>
       \/ /\ m.from # p
          /\ receivePartData' =
               [receivePartData EXCEPT ![p] = Insert(@, m.sale)]
          /\ GoOn(p, "forward")
  /\ UNCHANGED <<mainVars, serverVars, step, partKeyMap, orders, partData,
                 underSales>>

\* Mutant: only sums are forwarded, a part key goes one link.
ForwardSales(p) ==
  /\ handling[p].rest = "forward"
  /\ IF handling[p].msg.head = "finalPart"
       THEN /\ Send(p, handling[p].msg)
            /\ handling' = [handling EXCEPT ![p].rest = "ans"]
       ELSE /\ handling' = [handling EXCEPT ![p] = Idle]
            /\ UNCHANGED wire
  /\ UNCHANGED <<mainVars, serverVars, step, dataVars>>

\* sendMessager->send(m).  The case finalPart has no break: the code of
\* finalAns follows.
Forward(p) ==
  /\ handling[p].rest = "forward"
  /\ Send(p, handling[p].msg)
  /\ handling' = [handling EXCEPT ![p] =
                    IF @.msg.head = "finalPart" THEN [@ EXCEPT !.rest = "ans"]
                                                ELSE Idle]
  /\ UNCHANGED <<mainVars, serverVars, step, dataVars>>

\* The fall-through: stold(m.getBody()) stops at the first `|' of the body,
\* so what is added is the part's key.
FallThrough(p) ==
  /\ handling[p].rest = "ans"
  /\ underSales' = [underSales EXCEPT ![p] = @ + handling[p].msg.sale.partid]
  /\ handling' = [handling EXCEPT ![p] = Idle]
  /\ UNCHANGED <<mainVars, serverVars, wire, step, partKeyMap, orders, partData,
                 receivePartData>>

\* Mutant: the handler of finalAns notifies, as those of load and start do.
ReceiveFinalAnsNotifies(p) ==
  /\ Reads(p, "finalAns")
  /\ Consume(p)
  /\ underSales' = [underSales EXCEPT ![p] = @ + Head(wire[p]).ans]
  /\ pc' = [pc EXCEPT ![p] = IF @ = "wait" THEN "woken" ELSE @]
  /\ UNCHANGED <<finish_index, is_finished, is_notify, serverVars, step,
                 partKeyMap, orders, partData, receivePartData, handling>>

\* Mutant: the answer replaces what has been summed so far.
ReceiveFinalAnsReplaces(p) ==
  /\ Reads(p, "finalAns")
  /\ Consume(p)
  /\ underSales' = [underSales EXCEPT ![p] = Head(wire[p]).ans]
  /\ UNCHANGED <<mainVars, serverVars, step, partKeyMap, orders, partData,
                 receivePartData, handling>>

ReceiveFinalAns(p) ==
  /\ Reads(p, "finalAns")
  /\ Consume(p)
  /\ underSales' = [underSales EXCEPT ![p] = @ + Head(wire[p]).ans]
  /\ UNCHANGED <<mainVars, serverVars, step, partKeyMap, orders, partData,
                 receivePartData, handling>>

Serve(p) ==
  \/ ReceiveFinish(p) \/ ReceivePartKey(p) \/ ReceiveFinalPart(p)
  \/ ReceiveFinalAns(p) \/ Forward(p) \/ FallThrough(p)
  \/ Ring!Notify(p) /\ UNCHANGED queryVars

Next == \E p \in Procs : Calculate(p) \/ Synchronise(p) \/ Serve(p)

Spec == Init /\ [][Next]_vars

\* The operating system schedules both threads.
FairSpec ==
  /\ Spec
  /\ \A p \in Procs :
       WF_vars(Calculate(p) \/ Synchronise(p)) /\ WF_vars(Serve(p))

-------------------------------------------------------------------------------
(***************************************************************************)
(* Properties.                                                             *)
(***************************************************************************)

SaleType == [partid : Nat, totalSale : Nat, orderCount : Nat]

Message == [head : {"finish"}, idx : Nat, cnt : [Procs -> Nat]]
           \cup [head : {"partKey"}, key : Nat]
           \cup [head : {"finalPart"}, sale : SaleType, from : Procs]
           \cup [head : {"finalAns"}, ans : Nat]

TypeOK ==
  /\ step \in [Procs -> Nat]
  /\ partKeyMap \in [Procs -> SUBSET Nat]
  /\ \A p \in Procs :
       /\ \A i \in DOMAIN wire[p] : wire[p][i] \in Message
       /\ \A i \in DOMAIN orders[p] : orders[p][i] \in Range(Orders[p])
       /\ \A i \in DOMAIN partData[p] : partData[p][i] \in SaleType
       /\ \A i \in DOMAIN receivePartData[p] :
            receivePartData[p][i] \in SaleType
  /\ underSales \in [Procs -> Nat]
  /\ handling \in
       [Procs -> {Idle} \cup [rest : {"forward", "ans"}, msg : Message]]

\* A message of this kind that p has still to handle, or is handling.
Incoming(p, head) ==
  \/ \E i \in DOMAIN wire[p] : wire[p][i].head = head
  \/ handling[p] # Idle /\ handling[p].msg.head = head

\* A barrier is also a flush: an instance that has left it has nothing of the
\* phase left to handle, although the messages of the others take up to N hops
\* and its own main thread sends while its server thread forwards.  What it
\* reads without a lock in the next phase (partKeyMap, receivePartData) does not
\* change under it.
PhaseFlush ==
  \A p \in Procs :
    /\ finish_index[p] > 0 => ~ Incoming(p, "partKey")
    /\ finish_index[p] > 2 => ~ Incoming(p, "finalPart")

AllKeys == UNION {Range(Parts[p]) : p \in Procs}

\* An instance that scans its orders knows the matching parts of everybody.
EverybodyKnows ==
  \A p \in Procs : finish_index[p] > 0 => partKeyMap[p] = AllKeys

\* What p's orders of a part come to, and how many they are.
Ordered(p, key) ==
  Total([i \in DOMAIN Orders[p] |->
           IF Orders[p][i].lPartkey = key THEN Orders[p][i].lQuantity ELSE 0])

NumberOf(p, key) ==
  Total([i \in DOMAIN Orders[p] |->
           IF Orders[p][i].lPartkey = key THEN 1 ELSE 0])

\* What one instance that has read everything computes.
SumOf ==
  [key \in AllKeys |->
     Sale(key, Total([p \in 1..N |-> Ordered(p, key)]),
          Total([p \in 1..N |-> NumberOf(p, key)]))]

\* The part of the answer that comes from p's orders.
Share ==
  [p \in Procs |->
     Total([i \in DOMAIN Orders[p] |->
              IF Orders[p][i].lPartkey \in AllKeys
                THEN Undersold(Orders[p][i], SumOf[Orders[p][i].lPartkey])
                ELSE 0])]

\* After the merge every instance has the sums over the orders of everybody, for
\* the parts it has orders of: no sum is lost on the way, none counted twice.
SumsAgree ==
  \A p \in Procs : finish_index[p] > 3 =>
    \A i \in DOMAIN orders[p] :
      LET k == orders[p][i].lPartkey IN EntryOf(partData[p], k) = SumOf[k]

\* The way of the answer: its d-th stop is the instance d links below
\* SelectIdx - 1, the last one SelectIdx.
Stop(d) == 1 + ((SelectIdx - 2 - d) % N)

\* The shares gathered on the way to the d-th stop.
Gathered ==
  [d \in 0..N - 1 |-> Total([i \in 1..d + 1 |-> Share[Stop(i - 1)]])]

\* Each instance has exactly its own share until its upstream neighbour's turn,
\* then those of everybody upstream too: no share is skipped, sent too early or
\* added twice, nothing else is added.  At the last stop, SelectIdx, the answer
\* is the one a single instance would have computed from all parts and orders.
AnswerIsRight ==
  \A d \in 0..N - 1 :
    LET p == Stop(d) IN
      /\ pc[p] = "run" /\ finish_index[p] \in 4..d + 2
           => underSales[p] = Share[p]
      /\ finish_index[p] > d + 3 => underSales[p] = Gathered[d]

\* Every part key and every sum dies: whoever waits or hangs, from some moment
\* on no stream carries one and no server handles one.
DataDies ==
  <>[](\A p \in Procs : ~ Incoming(p, "partKey") /\ ~ Incoming(p, "finalPart"))

\* The finish tokens of a stream.
TokensOf(s) ==
  FoldLeft(LAMBDA ts, m : IF m.head = "finish" THEN Append(ts, m) ELSE ts,
           << >>, s)

\* The data messages do not disturb the barrier: without them the streams are
\* those of RingBarrier.
Tokens == INSTANCE RingBarrier WITH
  Rounds <- N + 4, Disturbed <- {},
  wire <- [p \in Procs |-> TokensOf(wire[p])]

ImplementsRing == Tokens!Spec

===============================================================================
