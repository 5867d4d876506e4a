-------------------------- MODULE OrderRoutingProofs --------------------------
(***************************************************************************)
(* Proofs about OrderRouting, for any number of instances, any division of *)
(* the part table and any orders: OrdersRouted (every order is counted     *)
(* once, before anybody adds up) and TypeOK; in the second half            *)
(* SameAverage and SameList.                                               *)
(*                                                                         *)
(* Two arguments meet.  One is that of FinalQueryProofs: an order is       *)
(* followed from the instance that sent it (Placed), the tokens of the     *)
(* first barrier do not overtake it, and it does not get past the instance *)
(* that has its part.  So whoever has left the barrier has no order of     *)
(* his parts to come.  The other is a law of conservation: the quantity of *)
(* a part, counted, in the loop, on the ring and in the hands of servers,  *)
(* is at all times that of the orders (Conserved).  When nothing is on its *)
(* way any more, what is counted is all of it.                             *)
(***************************************************************************)
EXTENDS OrderRouting, TotalsProofs, FiniteSetTheorems

\* Hops of a message of origin q that is at instance s, N at q itself.
Hops(q, s) == IF s < q THEN q - s ELSE q - s + N

\* The server of p has notified its main thread of barrier k, or is about to.
Announced(p, k) == k \in has_notify[p] \/ notifying[p] = k

IsToken(m) == m.head = "finish"
IsOrder(m) == m.head = "order"
IsData(m) == m.head \in {"order", "totalData", "underSale"}

\* The phase a message is sent in.
Phase(m) == IF m.head = "order" THEN 0 ELSE IF m.head = "totalData" THEN 1 ELSE 2

\* The barriers an instance has reached, read off finish_index.
FinishedIsPrefix ==
  \A p \in Procs : \A k \in Nat :
    k \in is_finished[p] <=> \/ k < finish_index[p]
                             \/ k = finish_index[p] /\ Ring!Inside(p)

AnnouncedByAll ==
  \A p, q \in Procs : \A k \in Nat : Announced(p, k) => k \in is_finished[q]

WakeIsCurrent ==
  \A p \in Procs : notifying[p] # Ring!None =>
    /\ notifying[p] = finish_index[p]
    /\ notifying[p] \notin has_notify[p]
    /\ pc[p] # "woken"

\* Nobody leaves a barrier that its own server has not announced.
LeftAnnounced ==
  \A p \in Procs :
    /\ \A k \in Nat : k < finish_index[p] => k \in has_notify[p]
    /\ pc[p] = "woken" => finish_index[p] \in has_notify[p]

\* A connection is closed after the last barrier.
ClosedLast ==
  \A p \in closed : p \in Procs /\ pc[p] = "run" /\ finish_index[p] = 3

ControlType ==
  /\ pc \in [Procs -> {"run", "entered", "sent", "wait", "woken"}]
  /\ finish_index \in [Procs -> Nat]
  /\ is_finished \in [Procs -> SUBSET Nat]
  /\ has_notify \in [Procs -> SUBSET Nat]
  /\ notifying \in [Procs -> Nat \cup {Ring!None}]
  /\ step \in [Procs -> 0..2]

ControlInv ==
  ControlType /\ FinishedIsPrefix /\ AnnouncedByAll /\ WakeIsCurrent
  /\ LeftAnnounced /\ ClosedLast

\* The orders there are.
RealOrder == {o \in OrderType : o.lPartkey \in SoldParts}

\* An instance solves its orders before it enters the first barrier.
OrdersInv ==
  /\ orders \in [Procs -> Seq(RealOrder)]
  /\ \A p \in Procs :
       ~ (finish_index[p] = 0 /\ pc[p] = "run") => orders[p] = << >>

\* Orders are counted where their part is.
Counts(p) ==
  /\ saleCount[p] \in [DOMAIN saleCount[p] -> Nat]
  /\ DOMAIN saleCount[p] \subseteq Parts[p] \cap SoldParts
  /\ announce[p] \subseteq DOMAIN saleCount[p]

CountsInv ==
  /\ saleCount = [p \in Procs |-> saleCount[p]]
  /\ announce = [p \in Procs |-> announce[p]]
  /\ \A p \in Procs : Counts(p)
  /\ localSales \in [Procs -> Nat]
  /\ partCount \in [Procs -> Nat] /\ totalSales \in [Procs -> Nat]
  /\ avg \in [Procs -> Nat \X Nat]
  /\ underSale \in [Procs -> SUBSET PartType]

\* What may be in a stream.  A digit that is set names an instance that has
\* reached the barrier.
Sound(m) ==
  /\ m \in Message
  /\ IsToken(m) => \A q \in Procs : m.cnt[q] # 0 => m.idx \in is_finished[q]
  /\ IsOrder(m) => m.order \in RealOrder

\* What the server thread may have in its hands.
Held(S) == {None} \cup {m \in S : m.head # "finish"}

Streams ==
  \E S : /\ wire \in [Procs -> Seq(S)]
         /\ handling \in [Procs -> Held(S)]
         /\ \A m \in S : Sound(m)

\* The i-th place of the stream of s is ahead of the j-th of that of r, for what
\* comes from q; place 0 are the hands of the server thread.
Ahead(q, s, i, r, j) == Hops(q, s) > Hops(q, r) \/ (s = r /\ i < j)

\* What q sent in phase k, in place i at s, is not overtaken by the token t, in
\* place j at r.
NotOvertaken(t, k, q, s, i, r, j) ==
  IsToken(t) /\ t.idx = k /\ t.cnt[q] # 0 =>
    t.cnt[q] = 1 /\ Ahead(q, s, i, r, j)

Clear(w, k, q, s, i) ==
  \A r \in Procs : \A j \in 1..Len(w[r]) :
    NotOvertaken(w[r][j], k, q, s, i, r, j)

\* What q sent in phase k, in place i at s, is not overtaken by any token, nor
\* has the barrier been announced where it has still to come.
OnTrack(k, q, s, i) ==
  /\ Clear(wire, k, q, s, i)
  /\ \A p \in Procs : Announced(p, k) => Hops(q, s) > Hops(q, p)

\* What comes from q, in place i at s, has still to come to u.
Coming(q, u, s, i) ==
  Hops(q, s) <= Hops(q, u) /\ (i = 0 => Hops(q, s) < Hops(q, u))

\* The order m, in place i at s, was sent by q; it has not got past the instance
\* of its part.
Placed(m, q, s, i) ==
  /\ \A u \in Procs : m.order.lPartkey \in Parts[u] =>
       u # q /\ Coming(q, u, s, i)
  /\ OnTrack(0, q, s, i)

\* What is in a place.
At(s, i) == IF i = 0 THEN handling[s] ELSE wire[s][i]

OrdersPlaced ==
  \A s \in Procs : \A i \in 0..Len(wire[s]) :
    IsOrder(At(s, i)) => \E q \in Procs : Placed(At(s, i), q, s, i)

\* Stands for all parts together where a part is expected.
All == -1

IsOf(k, o) == k = All \/ o.lPartkey = k

\* What an order, or a list of them, is worth of part k.
Share(k, o) == IF IsOf(k, o) THEN o.lQuantity ELSE 0
Owed(k, os) == Total([i \in DOMAIN os |-> Share(k, os[i])])
Among(k, os) == \E i \in DOMAIN os : IsOf(k, os[i])

\* What a message carries of part k, what a stream does, and what is counted.
Carries(k, m) == IsOrder(m) /\ IsOf(k, m.order)
Amount(k, m) == IF Carries(k, m) THEN m.order.lQuantity ELSE 0
InStream(k, w) == \E i \in DOMAIN w : Carries(k, w[i])
OnWire(k, w) == Total([i \in DOMAIN w |-> Amount(k, w[i])])
Counted(k, p) ==
  IF k = All THEN localSales[p]
  ELSE IF k \in DOMAIN saleCount[p] THEN saleCount[p][k] ELSE 0

\* The quantity of part k that is at p: counted, in the loop, in its stream
\* and in the hands of its server.
Load(k, p) ==
  Counted(k, p) + Owed(k, orders[p]) + OnWire(k, wire[p])
  + Amount(k, handling[p])

\* Something of part k is at p, be it an order of nothing.
Found(k, p) ==
  \/ k \in DOMAIN saleCount[p] \cup {All}
  \/ Among(k, orders[p])
  \/ InStream(k, wire[p])
  \/ Carries(k, handling[p])

\* No order gets lost, and none is counted twice.
Conserved ==
  \A k \in SoldParts \cup {All} :
    /\ Total([p \in 1..N |-> Load(k, p)])
         = Total([p \in 1..N |-> Owed(k, Orders[p])])
    /\ \E p \in Procs : Found(k, p)

\* A message that is not a token is read.
Receive(p) == ReceiveOrder(p) \/ ReceiveTotalData(p) \/ ReceiveUnderSale(p)

\* What holds of the flow of orders; the sums are below.
FlowInv ==
  ControlInv /\ OrdersInv /\ CountsInv /\ Streams /\ OrdersPlaced

\* The message e is one that the main thread of p sends.
SendsOwn(p, e) ==
  \/ /\ SolveOrder(p)
     /\ e = Order(Head(orders[p])) /\ e.order.lPartkey \notin Parts[p]
  \/ /\ SendTotalData(p)
     /\ e = [head |-> "totalData", from |-> p, sales |-> localSales[p],
             parts |-> Cardinality(DOMAIN saleCount[p])]
  \/ /\ SendUnderSale(p)
     /\ \E k \in announce[p] \ announce'[p] :
          e = [head |-> "underSale",
               part |-> [id |-> k, saleCount |-> saleCount[p][k]]]

\* A step brings what comes from some q from place j at s to place i at t and
\* leaves it on its track, unless q sends it on a second lap.
Kept(s, j, t, i) ==
  \A k \in Nat : \A q \in Procs :
    OnTrack(k, q, s, j) /\ (t # s => s # q) => OnTrack(k, q, t, i)'

Shifted(s) == Len(wire'[s]) < Len(wire[s])

\* The message in place j at s is in place i at t after the step: it stays, or
\* the stream is read and it moves up, or it is sent on.
Goes(s, j, t, i) ==
  /\ At(t, i)' = At(s, j)
  /\ Kept(s, j, t, i)
  /\ \/ t = s /\ i = j /\ (Shifted(s) => j = 0)
     \/ t = s /\ j = i + 1 /\ Shifted(s) /\ (Receive(s) \/ ReceiveFinish(s))
     \/ t = Down(s) /\ j = 0 /\ i = Len(wire[t]) + 1 /\ handling'[s] = None

\* The message in place i at t after the step has just been sent.
Fresh(t, i) ==
  \E p \in Procs :
    /\ t = Down(p) /\ i = Len(wire[t]) + 1
    /\ SendsOwn(p, At(t, i)')
    /\ pc[p] = "run" /\ finish_index[p] = Phase(At(t, i)')
    /\ OnTrack(Phase(At(t, i)), p, t, i)'

\* The message in place j at s is read and not kept, or not sent on any more.
Gone(s, j) ==
  \/ Receive(s) /\ j = 1 /\ UNCHANGED handling
  \/ Forward(s) /\ j = 0 /\ s \in closed

\* Where the messages are after the step, and where those go that were there
\* before it.
Backwards ==
  \A t \in Procs : \A i \in 0..Len(wire'[t]) : IsData(At(t, i)') =>
    \/ Fresh(t, i)
    \/ \E s \in Procs : \E j \in 0..Len(wire[s]) : Goes(s, j, t, i)

Onwards ==
  \A s \in Procs : \A j \in 0..Len(wire[s]) : IsData(At(s, j)) =>
    \/ Gone(s, j)
    \/ \E t \in Procs : \E i \in 0..Len(wire'[t]) : Goes(s, j, t, i)

-------------------------------------------------------------------------------
(***************************************************************************)
(* The ring and the places on it.                                          *)
(***************************************************************************)

\* Positions on the ring.
LEMMA RingArithmetic ==
  ASSUME NEW q \in Procs, NEW s \in Procs
  PROVE  /\ Down(s) \in Procs /\ Down(s) # s
         /\ Hops(q, s) \in 1..N
         /\ Hops(q, s) = N <=> s = q
         /\ s # q => Hops(q, Down(s)) = Hops(q, s) + 1
         /\ Hops(s, Down(s)) = 1
         /\ \A r \in Procs : Hops(q, r) = Hops(q, s) => r = s
         /\ \A r \in Procs : Hops(q, r) \in 1..N
  BY NAssumption DEF Procs, Ring!Procs, Hops, Down, Ring!Down

LEMMA StampedType ==
  ASSUME NEW p \in Procs, NEW idx \in Nat, NEW cnt \in [Procs -> Nat]
  PROVE  Ring!Stamped(p, idx, cnt) \in Ring!Token
  BY DEF Ring!Stamped, Ring!Token, Procs

LEMMA NoDigitsType == Ring!NoDigits \in [Procs -> Nat]
  BY DEF Ring!NoDigits, Procs

\* The elements of a sequence when one is appended.
LEMMA AppendElements ==
  ASSUME NEW S, NEW s \in Seq(S), NEW e
  PROVE  /\ Append(s, e) \in Seq(S \cup {e})
         /\ Len(s) \in Nat /\ Len(Append(s, e)) = Len(s) + 1
         /\ \A i \in 1..Len(s) : Append(s, e)[i] = s[i]
         /\ Append(s, e)[Len(s) + 1] = e
  <1>1. s \in Seq(S \cup {e})
    BY SeqMonotonic
  <1> QED
    BY <1>1, AppendProperties, LenProperties

\* The elements of a sequence without its head.
LEMMA TailElements ==
  ASSUME NEW S, NEW s \in Seq(S), s # << >>
  PROVE  /\ Tail(s) \in Seq(S) /\ Head(s) \in S /\ Head(s) = s[1]
         /\ Len(s) \in Nat \ {0} /\ Len(Tail(s)) = Len(s) - 1
         /\ \A i \in 1..Len(Tail(s)) : Tail(s)[i] = s[i + 1]
  BY HeadTailProperties, LenProperties, EmptySeq

\* The first message is read: what is behind it moves up by one place.
LEMMA ClearTail ==
  ASSUME NEW S, NEW w \in [Procs -> Seq(S)], NEW p \in Procs, w[p] # << >>,
         NEW k, NEW q \in Procs, NEW s \in Procs, NEW i \in Nat,
         Clear(w, k, q, s, i), s = p => i >= 1
  PROVE  Clear([w EXCEPT ![p] = Tail(@)], k, q, s, IF s = p THEN i - 1 ELSE i)
  <1> DEFINE w2 == [w EXCEPT ![p] = Tail(@)]
             i2 == IF s = p THEN i - 1 ELSE i
  <1> SUFFICES ASSUME NEW r \in Procs, NEW j \in 1..Len(w2[r])
               PROVE  NotOvertaken(w2[r][j], k, q, s, i2, r, j)
    BY DEF Clear
  <1>1. CASE r = p
    <2>1. j + 1 \in 1..Len(w[r]) /\ w2[r][j] = w[r][j + 1]
      BY <1>1, TailElements
    <2>2. NotOvertaken(w[r][j + 1], k, q, s, i, r, j + 1)
      BY <2>1 DEF Clear
    <2>3. Ahead(q, s, i, r, j + 1) => Ahead(q, s, i2, r, j)
      BY <1>1 DEF Ahead
    <2> QED
      BY <2>1, <2>2, <2>3 DEF NotOvertaken
  <1>2. CASE r # p
    <2>1. w2[r] = w[r]
      BY <1>2
    <2>2. NotOvertaken(w[r][j], k, q, s, i, r, j)
      BY <2>1 DEF Clear
    <2>3. Ahead(q, s, i, r, j) => Ahead(q, s, i2, r, j)
      BY <1>2 DEF Ahead
    <2> QED
      BY <2>1, <2>2, <2>3 DEF NotOvertaken
  <1> QED
    BY <1>1, <1>2

\* A message is sent that does not overtake.
LEMMA ClearSend ==
  ASSUME NEW S, NEW w \in [Procs -> Seq(S)], NEW d \in Procs, NEW e,
         NEW k, NEW q \in Procs, NEW s \in Procs, NEW i \in Nat,
         Clear(w, k, q, s, i),
         NotOvertaken(e, k, q, s, i, d, Len(w[d]) + 1)
  PROVE  Clear([w EXCEPT ![d] = Append(@, e)], k, q, s, i)
  <1> DEFINE w2 == [w EXCEPT ![d] = Append(@, e)]
  <1> SUFFICES ASSUME NEW r \in Procs, NEW j \in 1..Len(w2[r])
               PROVE  NotOvertaken(w2[r][j], k, q, s, i, r, j)
    BY DEF Clear
  <1>1. CASE r = d
    <2>1. /\ j \in 1..Len(w[r]) => w2[r][j] = w[r][j]
          /\ j \notin 1..Len(w[r]) => j = Len(w[r]) + 1 /\ w2[r][j] = e
      BY <1>1, AppendElements
    <2> QED
      BY <1>1, <2>1 DEF Clear
  <1>2. CASE r # d
    BY <1>2 DEF Clear
  <1> QED
    BY <1>1, <1>2

\* What a server has in its hands is ahead when it is sent on.
LEMMA ClearAdvance ==
  ASSUME NEW w, NEW k, NEW q \in Procs, NEW p \in Procs, NEW i \in Nat,
         Clear(w, k, q, p, 0), p # q
  PROVE  Clear(w, k, q, Down(p), i)
  <1> SUFFICES ASSUME NEW r \in Procs, NEW j \in 1..Len(w[r])
               PROVE  NotOvertaken(w[r][j], k, q, Down(p), i, r, j)
    BY DEF Clear
  <1>1. NotOvertaken(w[r][j], k, q, p, 0, r, j)
    BY DEF Clear
  <1>2. /\ Hops(q, Down(p)) = Hops(q, p) + 1
        /\ Hops(q, p) \in 1..N /\ Hops(q, r) \in 1..N
    BY RingArithmetic
  <1>3. Ahead(q, p, 0, r, j) => Ahead(q, Down(p), i, r, j)
    BY <1>2, NAssumption DEF Ahead
  <1> QED
    BY <1>1, <1>3 DEF NotOvertaken

\* A token that an instance starts is behind all its own messages.
LEMMA FreshBehind ==
  ASSUME NEW p \in Procs, NEW idx \in Nat, NEW k,
         NEW q \in Procs, NEW s \in Procs, NEW i \in Nat, NEW last \in Nat,
         s = Down(p) => i < last
  PROVE  NotOvertaken(Ring!Stamped(p, idx, Ring!NoDigits), k, q, s, i,
                      Down(p), last)
  <1> DEFINE u == Ring!Stamped(p, idx, Ring!NoDigits)
  <1>1. \A r \in Procs : u.cnt[r] = IF r = p THEN 1 ELSE 0
    BY DEF Ring!Stamped, Ring!NoDigits, Procs
  <1> HIDE DEF u
  <1>2. q = p => Ahead(q, s, i, Down(p), last)
    BY RingArithmetic, NAssumption DEF Ahead
  <1> QED
    BY <1>1, <1>2 DEF NotOvertaken, u

\* A token that is read and passed on overtakes nothing: what comes from its
\* origins was ahead of it, and nothing was left in the hands of the server.
LEMMA StampBehind ==
  ASSUME NEW p \in Procs, NEW t \in Ring!Token, NEW k,
         NEW q \in Procs, NEW s \in Procs, NEW i \in Nat, NEW i2 \in Nat,
         NEW last \in Nat,
         NotOvertaken(t, k, q, s, i, p, 1),
         s = p => i >= 1, s = Down(p) => i2 < last
  PROVE  NotOvertaken(Ring!Stamped(p, t.idx, t.cnt), k, q, s, i2, Down(p), last)
  <1> DEFINE u == Ring!Stamped(p, t.idx, t.cnt)
  <1>1. /\ t.cnt \in [Procs -> Nat] /\ t.head = "finish"
        /\ u.idx = t.idx
        /\ u.cnt[q] = IF q = p THEN t.cnt[p] + 1 ELSE t.cnt[q]
    BY DEF Ring!Stamped, Ring!Token, Procs
  <1> HIDE DEF u
  <1> SUFFICES ASSUME u.idx = k, u.cnt[q] # 0
               PROVE  u.cnt[q] = 1 /\ Ahead(q, s, i2, Down(p), last)
    BY DEF NotOvertaken, u
  <1>2. t.cnt[q] # 0 => t.cnt[q] = 1 /\ Hops(q, s) > Hops(q, p)
    BY <1>1, NAssumption DEF NotOvertaken, IsToken, Ahead
  <1>3. CASE q = p
    <2>1. t.cnt[q] = 0
      BY <1>2, <1>3, RingArithmetic, NAssumption
    <2>2. Ahead(q, s, i2, Down(p), last)
      BY <1>3, RingArithmetic, NAssumption DEF Ahead
    <2> QED
      BY <1>1, <1>3, <2>1, <2>2
  <1>4. CASE q # p
    <2>1. t.cnt[q] = 1 /\ Hops(q, s) > Hops(q, p)
      BY <1>1, <1>2, <1>4
    <2>2. Ahead(q, s, i2, Down(p), last)
      BY <1>4, <2>1, RingArithmetic, NAssumption DEF Ahead
    <2> QED
      BY <1>1, <1>4, <2>1, <2>2
  <1> QED
    BY <1>3, <1>4

-------------------------------------------------------------------------------
(***************************************************************************)
(* The barrier.                                                            *)
(***************************************************************************)

\* The first message of a stream is sound.
LEMMA HeadSound ==
  ASSUME Streams, NEW p \in Procs, wire[p] # << >>
  PROVE  Sound(Head(wire[p]))
  <1>1. PICK S : /\ wire \in [Procs -> Seq(S)]
                 /\ handling \in [Procs -> Held(S)]
                 /\ \A m \in S : Sound(m)
    BY DEF Streams
  <1>2. Head(wire[p]) \in S
    BY <1>1, TailElements
  <1> QED
    BY <1>1, <1>2

\* A sound message with the header of a token is one, and an honest one.
LEMMA TokenSound ==
  ASSUME NEW m, Sound(m), m.head = "finish"
  PROVE  /\ m \in Ring!Token
         /\ m.idx \in Nat /\ m.cnt \in [Procs -> Nat]
         /\ \A q \in Procs : m.cnt[q] # 0 => m.idx \in is_finished[q]
  BY DEF Sound, Message, IsToken, Ring!Token, Procs

LEMMA TokenIsMessage ==
  ASSUME NEW m \in Ring!Token
  PROVE  m \in Message /\ m.head = "finish"
  BY DEF Message, Ring!Token, Procs

\* The shared variables of the barrier are left alone.
LEMMA ControlQuiet ==
  ASSUME ControlInv, UNCHANGED <<mainVars, serverVars, closed>>,
         step' \in [Procs -> 0..2]
  PROVE  ControlInv'
  <1> USE DEF ControlInv, mainVars, serverVars
  <1>1. ControlType'
    BY DEF ControlType
  <1>2. FinishedIsPrefix' /\ WakeIsCurrent' /\ LeftAnnounced' /\ ClosedLast'
    BY DEF FinishedIsPrefix, Ring!Inside, WakeIsCurrent, LeftAnnounced,
           ClosedLast
  <1>3. AnnouncedByAll'
    BY DEF AnnouncedByAll, Announced
  <1> QED
    BY <1>1, <1>2, <1>3

\* What the main thread calculates.
LEMMA CalculateControl ==
  ASSUME ControlInv, NEW p \in Procs, Calculate(p)
  PROVE  ControlInv'
  <1>1. ControlType
    BY DEF ControlInv
  <1>2. UNCHANGED <<mainVars, serverVars>>
    BY DEF Calculate, SolveOrder, AddLocalTotals, SendTotalData,
           ReadAverage, SendUnderSale, Close
  <1>3. step' \in [Procs -> 0..2]
    <2>1. UNCHANGED step \/ (Advance(p) /\ step[p] \in 0..1)
      BY DEF Calculate, SolveOrder, AddLocalTotals, SendTotalData,
             ReadAverage, SendUnderSale, Close
    <2> QED
      BY <1>1, <2>1 DEF Advance, ControlType
  <1>4. CASE Close(p)
    <2>1. pc[p] = "run" /\ finish_index[p] = 3 /\ closed' = closed \cup {p}
      BY <1>4 DEF Close, InPhase
    <2>2. ClosedLast'
      BY <1>2, <2>1 DEF ControlInv, ClosedLast, mainVars
    <2>3. /\ ControlType' /\ FinishedIsPrefix' /\ WakeIsCurrent'
          /\ LeftAnnounced' /\ AnnouncedByAll'
      BY <1>2, <1>3
         DEF ControlInv, ControlType, FinishedIsPrefix, Ring!Inside,
             WakeIsCurrent, LeftAnnounced, AnnouncedByAll, Announced,
             mainVars, serverVars
    <2> QED
      BY <2>2, <2>3 DEF ControlInv
  <1>5. CASE ~ Close(p)
    <2>1. UNCHANGED closed
      BY <1>5 DEF Calculate, SolveOrder, AddLocalTotals, SendTotalData,
                  ReadAverage, SendUnderSale
    <2> QED
      BY <1>2, <1>3, <2>1, ControlQuiet
  <1> QED
    BY <1>4, <1>5

\* doAsync.
LEMMA SynchroniseControl ==
  ASSUME ControlInv, NEW p \in Procs, Synchronise(p)
  PROVE  ControlInv'
  <1> USE DEF ControlInv, ControlType, routingVars, Ring!mainVars,
              Ring!serverVars, Procs
  <1>1. CASE EnterBarrier(p)
    <2>1. Ring!EnterBarrier(p) /\ UNCHANGED <<step, closed>>
      BY <1>1 DEF EnterBarrier
    <2>2. ControlType'
      BY <2>1 DEF Ring!EnterBarrier
    <2>3. FinishedIsPrefix'
      BY <2>1 DEF Ring!EnterBarrier, FinishedIsPrefix, Ring!Inside
    <2>4. AnnouncedByAll'
      BY <2>1 DEF Ring!EnterBarrier, AnnouncedByAll, Announced
    <2>5. WakeIsCurrent' /\ LeftAnnounced'
      BY <2>1 DEF Ring!EnterBarrier, WakeIsCurrent, LeftAnnounced
    <2>6. ClosedLast'
      BY <2>1, NAssumption DEF Ring!EnterBarrier, ClosedLast
    <2> QED
      BY <2>2, <2>3, <2>4, <2>5, <2>6
  <1>2. CASE LeaveBarrier(p)
    <2>1. /\ Ring!LeaveBarrier(p)
          /\ step' = [step EXCEPT ![p] = 0]
          /\ UNCHANGED closed
      BY <1>2 DEF LeaveBarrier
    <2>2. ControlType'
      BY <2>1 DEF Ring!LeaveBarrier
    <2>3. FinishedIsPrefix'
      BY <2>1 DEF Ring!LeaveBarrier, FinishedIsPrefix, Ring!Inside
    <2>4. AnnouncedByAll'
      BY <2>1 DEF Ring!LeaveBarrier, AnnouncedByAll, Announced
    <2>5. WakeIsCurrent' /\ ClosedLast'
      BY <2>1 DEF Ring!LeaveBarrier, WakeIsCurrent, ClosedLast
    <2>6. LeftAnnounced'
      <3>1. /\ UNCHANGED has_notify
            /\ finish_index' = [finish_index EXCEPT ![p] = @ + 1]
            /\ pc' = [pc EXCEPT ![p] = "run"] /\ pc[p] = "woken"
        BY <2>1 DEF Ring!LeaveBarrier
      <3>2. \A q \in Procs \ {p} : finish_index'[q] = finish_index[q]
                                 /\ pc'[q] = pc[q]
        BY <3>1
      <3>5. finish_index[p] \in Nat /\ finish_index'[p] = finish_index[p] + 1
        BY <3>1
      <3>3. \A k \in Nat : k < finish_index'[p] => k \in has_notify[p]
        BY <3>1, <3>5 DEF LeftAnnounced
      <3>4. pc'[p] # "woken"
        BY <3>1
      <3> QED
        BY <3>1, <3>2, <3>3, <3>4 DEF LeftAnnounced
    <2> QED
      BY <2>2, <2>3, <2>4, <2>5, <2>6
  <1>3. CASE (Ring!SendFinish(p) \/ Ring!Wait(p)) /\ UNCHANGED routingVars
    <2> USE <1>3 DEF Ring!SendFinish, Ring!Wait
    <2>1. ControlType'
      OBVIOUS
    <2>2. FinishedIsPrefix'
      BY DEF FinishedIsPrefix, Ring!Inside
    <2>3. AnnouncedByAll'
      BY DEF AnnouncedByAll, Announced
    <2>4. WakeIsCurrent' /\ LeftAnnounced' /\ ClosedLast'
      BY DEF WakeIsCurrent, LeftAnnounced, ClosedLast
    <2> QED
      BY <2>1, <2>2, <2>3, <2>4
  <1> QED
    BY <1>1, <1>2, <1>3 DEF Synchronise

\* The server thread, but for the announcement of a barrier.
LEMMA ServeControl ==
  ASSUME ControlInv, NEW p \in Procs,
         \/ Receive(p) \/ Forward(p)
         \/ (Ring!DropToken(p) \/ Ring!PassToken(p)) /\ UNCHANGED routingVars
  PROVE  ControlInv'
  <1>1. UNCHANGED <<mainVars, serverVars, step, closed>>
    BY DEF Receive, ReceiveOrder, ReceiveTotalData, ReceiveUnderSale, Forward, Ring!DropToken,
           Ring!PassToken, Ring!mainVars, Ring!serverVars, mainVars, serverVars,
           routingVars
  <1>2. step' \in [Procs -> 0..2]
    BY <1>1 DEF ControlInv, ControlType
  <1> QED
    BY <1>1, <1>2, ControlQuiet

\* A server sees a complete token: everybody has reached the barrier.
LEMMA CompleteControl ==
  ASSUME ControlInv, Streams, NEW p \in Procs, Reads(p, "finish"),
         Ring!CompleteToken(p), UNCHANGED routingVars
  PROVE  ControlInv'
  <1> DEFINE t == Head(wire[p])
  <1>1. /\ UNCHANGED <<mainVars, has_notify, step, closed>>
        /\ notifying' = [notifying EXCEPT ![p] = t.idx]
        /\ notifying[p] = Ring!None
        /\ t.idx \notin has_notify[p]
        /\ Ring!Current(p, t) /\ Ring!CheckFinish(t)
    BY DEF Ring!CompleteToken, Ring!mainVars, mainVars, Ring!Receives,
           routingVars
  <1>2. Sound(t) /\ t.head = "finish"
    BY HeadSound DEF Reads, Ring!Receives
  <1> HIDE DEF t
  <1>3. /\ t.idx \in Nat /\ t.cnt \in [Procs -> Nat]
        /\ \A q \in Procs : t.cnt[q] # 0 => t.idx \in is_finished[q]
    BY <1>2, TokenSound
  <1>4. t.idx = finish_index[p]
    BY <1>1 DEF Ring!Current
  <1>5. \A q \in Procs : t.idx \in is_finished[q]
    BY <1>1, <1>3 DEF Ring!CheckFinish, Procs
  <1> USE DEF ControlInv, mainVars
  <1>6. ControlType'
    BY <1>1, <1>3 DEF ControlType
  <1>7. FinishedIsPrefix' /\ LeftAnnounced' /\ ClosedLast'
    BY <1>1 DEF FinishedIsPrefix, Ring!Inside, LeftAnnounced, ClosedLast
  <1>8. AnnouncedByAll'
    BY <1>1, <1>5 DEF AnnouncedByAll, Announced, ControlType
  <1>9. WakeIsCurrent'
    BY <1>1, <1>4 DEF WakeIsCurrent, LeftAnnounced, ControlType
  <1> QED
    BY <1>6, <1>7, <1>8, <1>9

\* The server calls notify_one.
LEMMA NotifyControl ==
  ASSUME ControlInv, NEW p \in Procs, Ring!Notify(p), UNCHANGED routingVars
  PROVE  ControlInv'
  <1> USE DEF ControlInv, ControlType, routingVars
  <1>1. /\ UNCHANGED <<finish_index, is_finished>>
        /\ notifying[p] # Ring!None /\ notifying[p] \in Nat
        /\ has_notify' = [has_notify EXCEPT ![p] = @ \cup {notifying[p]}]
        /\ notifying' = [notifying EXCEPT ![p] = Ring!None]
    BY DEF Ring!Notify
  <1>2. /\ \A q \in Procs \ {p} : pc'[q] = pc[q]
        /\ \/ pc'[p] = pc[p]
           \/ pc[p] = "wait" /\ pc'[p] = "woken"
        /\ pc' \in [Procs -> {"run", "entered", "sent", "wait", "woken"}]
    BY DEF Ring!Notify
  <1>3. ControlType'
    BY <1>1, <1>2
  <1>4. FinishedIsPrefix'
    BY <1>1, <1>2 DEF FinishedIsPrefix, Ring!Inside
  <1>5. \A q \in Procs : \A k \in Nat : Announced(q, k)' => Announced(q, k)
    BY <1>1 DEF Announced, Ring!None
  <1>6. AnnouncedByAll'
    BY <1>1, <1>5 DEF AnnouncedByAll
  <1>7. WakeIsCurrent' /\ ClosedLast'
    BY <1>1, <1>2 DEF WakeIsCurrent, ClosedLast
  <1>8. LeftAnnounced'
    BY <1>1, <1>2 DEF LeftAnnounced, WakeIsCurrent
  <1> QED
    BY <1>3, <1>4, <1>6, <1>7, <1>8

LEMMA NextControl ==
  ASSUME ControlInv, Streams, [Next]_vars
  PROVE  ControlInv'
  <1>1. CASE UNCHANGED vars
    <2>1. UNCHANGED <<mainVars, serverVars, step, closed>>
      BY <1>1 DEF vars, routingVars, Ring!vars, mainVars, serverVars
    <2> QED
      BY <2>1, ControlQuiet DEF ControlInv, ControlType
  <1>2. CASE Next
    <2>1. PICK p \in Procs : Calculate(p) \/ Synchronise(p) \/ Serve(p)
      BY <1>2 DEF Next
    <2>2. CASE Serve(p)
      <3>1. \/ \/ Receive(p) \/ Forward(p)
               \/ /\ Ring!DropToken(p) \/ Ring!PassToken(p)
                  /\ UNCHANGED routingVars
            \/ /\ Reads(p, "finish") /\ Ring!CompleteToken(p)
               /\ UNCHANGED routingVars
            \/ Ring!Notify(p) /\ UNCHANGED routingVars
        BY <2>2 DEF Serve, Receive, ReceiveFinish, Ring!HandleFinish
      <3> QED
        BY <3>1, ServeControl, CompleteControl, NotifyControl
    <2> QED
      BY <2>1, <2>2, CalculateControl, SynchroniseControl
  <1> QED
    BY <1>1, <1>2

-------------------------------------------------------------------------------
(***************************************************************************)
(* What is in the streams.                                                 *)
(***************************************************************************)

\* Instances only ever reach more barriers.
LEMMA FinishedGrows ==
  ASSUME ControlType, [Next]_vars
  PROVE  \A q \in Procs : is_finished[q] \subseteq is_finished'[q]
  <1> USE DEF mainVars, serverVars, routingVars, Ring!mainVars, Ring!serverVars
  <1>1. ASSUME NEW p \in Procs, EnterBarrier(p)
        PROVE  \A q \in Procs : is_finished[q] \subseteq is_finished'[q]
    BY <1>1 DEF EnterBarrier, Ring!EnterBarrier, ControlType
  <1>2. \/ UNCHANGED is_finished
        \/ \E p \in Procs : EnterBarrier(p)
    <2>1. CASE UNCHANGED vars
      BY <2>1 DEF vars, Ring!vars
    <2>2. ASSUME NEW p \in Procs, Calculate(p) PROVE UNCHANGED is_finished
      BY <2>2 DEF Calculate, SolveOrder, AddLocalTotals, SendTotalData,
                  ReadAverage, SendUnderSale, Close
    <2>3. ASSUME NEW p \in Procs, Synchronise(p)
          PROVE  UNCHANGED is_finished \/ EnterBarrier(p)
      BY <2>3 DEF Synchronise, LeaveBarrier, Ring!LeaveBarrier,
                  Ring!SendFinish, Ring!Wait
    <2>4. ASSUME NEW p \in Procs, Serve(p) PROVE UNCHANGED is_finished
      BY <2>4 DEF Serve, ReceiveFinish, Ring!HandleFinish, Ring!DropToken,
                  Ring!PassToken, Ring!CompleteToken, Ring!Notify,
                  Receive, ReceiveOrder, ReceiveTotalData, ReceiveUnderSale, Forward
    <2> QED
      BY <2>1, <2>2, <2>3, <2>4 DEF Next
  <1> QED
    BY <1>1, <1>2

\* A message stays sound when more instances reach more barriers.
LEMMA SoundGrows ==
  ASSUME NEW m, Sound(m),
         \A q \in Procs : is_finished[q] \subseteq is_finished'[q]
  PROVE  Sound(m)'
  BY DEF Sound

\* At most one new message, a sound one.
LEMMA StreamsWith ==
  ASSUME NEW S, \A m \in S : Sound(m), NEW u, Sound(u)',
         \A q \in Procs : is_finished[q] \subseteq is_finished'[q],
         wire' \in [Procs -> Seq(S \cup {u})],
         handling' \in [Procs -> Held(S \cup {u})]
  PROVE  Streams'
  <1>1. \A m \in S \cup {u} : Sound(m)'
    BY SoundGrows
  <1> QED
    BY <1>1 DEF Streams

\* What may be in the streams may be in larger ones.
LEMMA TypesGrow ==
  ASSUME NEW S, NEW u, wire \in [Procs -> Seq(S)],
         handling \in [Procs -> Held(S)]
  PROVE  /\ wire \in [Procs -> Seq(S \cup {u})]
         /\ handling \in [Procs -> Held(S \cup {u})]
  <1>1. \A p \in Procs : wire[p] \in Seq(S \cup {u})
    BY SeqMonotonic
  <1>2. \A p \in Procs : handling[p] \in Held(S \cup {u})
    BY DEF Held
  <1> QED
    BY <1>1, <1>2

\* Nothing is sent or read; the hands of a server may be emptied.
LEMMA StreamsQuiet ==
  ASSUME Streams, \A q \in Procs : is_finished[q] \subseteq is_finished'[q],
         UNCHANGED wire, NEW p \in Procs,
         handling' = handling \/ handling' = [handling EXCEPT ![p] = None]
  PROVE  Streams'
  <1>1. PICK S : /\ wire \in [Procs -> Seq(S)]
                 /\ handling \in [Procs -> Held(S)]
                 /\ \A m \in S : Sound(m)
    BY DEF Streams
  <1>2. \A m \in S : Sound(m)'
    BY <1>1, SoundGrows
  <1>3. handling' \in [Procs -> Held(S)]
    BY <1>1 DEF Held
  <1> QED
    BY <1>1, <1>2, <1>3 DEF Streams

\* A sound message is sent.
LEMMA StreamsSend ==
  ASSUME Streams, NEW p \in Procs,
         \A q \in Procs : is_finished[q] \subseteq is_finished'[q],
         NEW u, Sound(u)',
         wire' = [wire EXCEPT ![Down(p)] = Append(@, u)],
         handling' = handling \/ handling' = [handling EXCEPT ![p] = None]
  PROVE  Streams'
  <1>1. PICK S : /\ wire \in [Procs -> Seq(S)]
                 /\ handling \in [Procs -> Held(S)]
                 /\ \A m \in S : Sound(m)
    BY DEF Streams
  <1>2. /\ wire \in [Procs -> Seq(S \cup {u})]
        /\ handling \in [Procs -> Held(S \cup {u})]
    BY <1>1, TypesGrow
  <1>3. Append(wire[Down(p)], u) \in Seq(S \cup {u})
    BY <1>1, RingArithmetic, AppendElements
  <1>4. wire' \in [Procs -> Seq(S \cup {u})]
    BY <1>2, <1>3
  <1>5. handling' \in [Procs -> Held(S \cup {u})]
    BY <1>2 DEF Held
  <1> QED
    BY <1>1, <1>4, <1>5, StreamsWith

\* The first message is read, and perhaps kept to be forwarded.
LEMMA StreamsRead ==
  ASSUME Streams, NEW p \in Procs, wire[p] # << >>,
         \A q \in Procs : is_finished[q] \subseteq is_finished'[q],
         wire' = [wire EXCEPT ![p] = Tail(@)],
         handling' = handling \/ (Head(wire[p]).head # "finish" /\ GoOn(p))
  PROVE  Streams'
  <1>1. PICK S : /\ wire \in [Procs -> Seq(S)]
                 /\ handling \in [Procs -> Held(S)]
                 /\ \A m \in S : Sound(m)
    BY DEF Streams
  <1>2. Tail(wire[p]) \in Seq(S) /\ Head(wire[p]) \in S
    BY <1>1, TailElements
  <1>3. wire' \in [Procs -> Seq(S)]
    BY <1>1, <1>2
  <1>4. handling' \in [Procs -> Held(S)]
    BY <1>1, <1>2 DEF Held, GoOn
  <1>5. \A m \in S : Sound(m)'
    BY <1>1, SoundGrows
  <1> QED
    BY <1>3, <1>4, <1>5 DEF Streams

\* What a server has in its hands.
LEMMA HandType ==
  ASSUME Streams, NEW p \in Procs, handling[p] # None
  PROVE  handling[p].head # "finish" /\ Sound(handling[p])
  BY DEF Streams, Held

\* A token is passed on.
LEMMA StreamsRelay ==
  ASSUME Streams, NEW p \in Procs, wire[p] # << >>,
         \A q \in Procs : is_finished[q] \subseteq is_finished'[q],
         NEW u, Sound(u)',
         wire' = [wire EXCEPT ![p] = Tail(@), ![Down(p)] = Append(@, u)],
         handling' = handling
  PROVE  Streams'
  <1>1. PICK S : /\ wire \in [Procs -> Seq(S)]
                 /\ handling \in [Procs -> Held(S)]
                 /\ \A m \in S : Sound(m)
    BY DEF Streams
  <1>2. /\ wire \in [Procs -> Seq(S \cup {u})]
        /\ handling \in [Procs -> Held(S \cup {u})]
    BY <1>1, TypesGrow
  <1>3. /\ Append(wire[Down(p)], u) \in Seq(S \cup {u})
        /\ Down(p) # p
    BY <1>1, RingArithmetic, AppendElements
  <1>4. Tail(wire[p]) \in Seq(S \cup {u})
    BY <1>2, TailElements
  <1>5. wire' \in [Procs -> Seq(S \cup {u})]
    BY <1>2, <1>3, <1>4
  <1> QED
    BY <1>1, <1>2, <1>5, StreamsWith

-------------------------------------------------------------------------------
(***************************************************************************)
(* The parts that were sold.                                               *)
(***************************************************************************)

\* They are natural numbers, and each is the part of some instance, and of one.
LEMMA SoldSomewhere ==
  ASSUME NEW k \in SoldParts
  PROVE  k \in Nat /\ \E u \in Procs : k \in Parts[u]
  <1>1. PICK p \in Procs : k \in KeysOf(Orders[p])
    BY DEF SoldParts
  <1>2. PICK i \in DOMAIN Orders[p] : k = Orders[p][i].lPartkey
    BY <1>1 DEF KeysOf
  <1>3. PICK u \in Procs : k \in Parts[u]
    BY <1>2, OrdersAssumption
  <1> QED
    BY <1>3, PartsAssumption

LEMMA SoldFinite == IsFiniteSet(SoldParts)
  <1> DEFINE K == {KeysOf(Orders[p]) : p \in Procs}
  <1>1. IsFiniteSet(Procs)
    BY NAssumption, FS_Interval DEF Procs, Ring!Procs
  <1>2. IsFiniteSet(K)
    <2>1. [p \in Procs |-> KeysOf(Orders[p])] \in Surjection(Procs, K)
      BY DEF Surjection
    <2> HIDE DEF K
    <2> QED
      BY <1>1, <2>1, FS_Surjection
  <1>3. ASSUME NEW p \in Procs PROVE IsFiniteSet(KeysOf(Orders[p]))
    <2> DEFINE D == DOMAIN Orders[p]
    <2>1. Orders[p] \in Seq(OrderType)
      BY OrdersAssumption
    <2>2. D = 1..Len(Orders[p]) /\ Len(Orders[p]) \in Nat
      BY <2>1, LenProperties
    <2>3. IsFiniteSet(D)
      BY <2>2, FS_Interval
    <2>4. [i \in D |-> Orders[p][i].lPartkey] \in Surjection(D, KeysOf(Orders[p]))
      BY DEF Surjection, KeysOf
    <2> HIDE DEF D
    <2> QED
      BY <2>3, <2>4, FS_Surjection
  <1>4. \A s \in K : IsFiniteSet(s)
    BY <1>3
  <1>5. IsFiniteSet(UNION K)
    <2> HIDE DEF K
    <2> QED
      BY <1>2, <1>4, FS_UNION
  <1> QED
    BY <1>5 DEF SoldParts

LEMMA CountsFinite ==
  ASSUME CountsInv, NEW p \in Procs
  PROVE  Cardinality(DOMAIN saleCount[p]) \in Nat
  BY SoldFinite, FS_Subset, FS_CardinalityType DEF CountsInv, Counts

-------------------------------------------------------------------------------
(***************************************************************************)
(* The steps and the streams.                                              *)
(***************************************************************************)

\* doAsync.
LEMMA SynchroniseStreams ==
  ASSUME FlowInv, NEW p \in Procs, Synchronise(p)
  PROVE  Streams'
  <1>1. ControlType /\ Streams /\ FinishedIsPrefix
    BY DEF FlowInv, ControlInv
  <1>2. \A q \in Procs : is_finished[q] \subseteq is_finished'[q]
    BY <1>1 DEF Synchronise, EnterBarrier, LeaveBarrier, Ring!EnterBarrier,
                Ring!LeaveBarrier, Ring!SendFinish, Ring!Wait, ControlType
  <1>3. UNCHANGED handling
    BY DEF Synchronise, EnterBarrier, LeaveBarrier, routingVars
  <1>4. CASE UNCHANGED wire
    BY <1>1, <1>2, <1>3, <1>4, StreamsQuiet
  <1>5. CASE Ring!SendFinish(p)
    <2>1. PICK e : e = Ring!Stamped(p, finish_index[p], Ring!NoDigits)
      OBVIOUS
    <2>2. finish_index[p] \in Nat /\ pc[p] = "entered"
      BY <1>1, <1>5 DEF ControlType, Ring!SendFinish
    <2>3. e \in Ring!Token
      BY <2>1, <2>2, StampedType, NoDigitsType
    <2>4. /\ e.head = "finish" /\ e.idx = finish_index[p]
          /\ \A q \in Procs : e.cnt[q] = IF q = p THEN 1 ELSE 0
      BY <2>1 DEF Ring!Stamped, Ring!NoDigits, Procs
    <2>5. finish_index[p] \in is_finished[p]
      BY <1>1, <2>2 DEF FinishedIsPrefix, Ring!Inside
    <2>6. Sound(e)'
      <3>1. Sound(e)
        BY <2>3, <2>4, <2>5, TokenIsMessage DEF Sound, IsOrder
      <3> QED
        BY <1>2, <3>1, SoundGrows
    <2>7. wire' = [wire EXCEPT ![Down(p)] = Append(@, e)]
      BY <1>5, <2>1 DEF Ring!SendFinish, Down
    <2> QED
      BY <1>1, <1>2, <1>3, <2>6, <2>7, StreamsSend
  <1>6. UNCHANGED wire \/ Ring!SendFinish(p)
    BY DEF Synchronise, EnterBarrier, LeaveBarrier, Ring!EnterBarrier,
           Ring!LeaveBarrier, Ring!Wait
  <1> QED
    BY <1>4, <1>5, <1>6

\* The finish case.
LEMMA ReceiveFinishStreams ==
  ASSUME FlowInv, NEW p \in Procs, ReceiveFinish(p)
  PROVE  Streams'
  <1>1. ControlType /\ Streams
    BY DEF FlowInv, ControlInv
  <1>2. /\ handling[p] = None /\ wire[p] # << >>
        /\ Head(wire[p]).head = "finish"
        /\ UNCHANGED handling
    BY DEF ReceiveFinish, Reads, Ring!Receives, routingVars
  <1>3. /\ UNCHANGED is_finished
        /\ \A q \in Procs : is_finished[q] \subseteq is_finished'[q]
    BY DEF ReceiveFinish, Ring!HandleFinish, Ring!DropToken, Ring!PassToken,
           Ring!CompleteToken, Ring!mainVars, Ring!serverVars
  <1>4. CASE Ring!DropToken(p)
    BY <1>1, <1>2, <1>3, <1>4, StreamsRead DEF Ring!DropToken
  <1>5. CASE Ring!PassToken(p) \/ Ring!CompleteToken(p)
    <2>1. PICK t : t = Head(wire[p])
      OBVIOUS
    <2>2. Sound(t) /\ t.head = "finish"
      BY <1>1, <1>2, <2>1, HeadSound
    <2>3. /\ t \in Ring!Token /\ t.idx \in Nat /\ t.cnt \in [Procs -> Nat]
          /\ \A q \in Procs : t.cnt[q] # 0 => t.idx \in is_finished[q]
      BY <2>2, TokenSound
    <2>4. PICK u : u = Ring!Stamped(p, t.idx, t.cnt)
      OBVIOUS
    <2>5. wire' = [wire EXCEPT ![p] = Tail(@), ![Down(p)] = Append(@, u)]
      BY <1>5, <2>1, <2>4 DEF Ring!PassToken, Ring!CompleteToken, Ring!Forward,
                              Down
    <2>6. t.idx \in is_finished[p]
      BY <1>5, <2>1 DEF Ring!PassToken, Ring!CompleteToken, Ring!Current
    <2>7. Sound(u)'
      <3>1. u \in Ring!Token
        BY <2>3, <2>4, StampedType
      <3>2. /\ u.idx = t.idx
            /\ \A q \in Procs :
                 u.cnt[q] = IF q = p THEN t.cnt[p] + 1 ELSE t.cnt[q]
        BY <2>3, <2>4 DEF Ring!Stamped
      <3>3. \A q \in Procs : u.cnt[q] # 0 => u.idx \in is_finished[q]
        BY <2>3, <2>6, <3>2
      <3>4. Sound(u)
        BY <3>1, <3>3, TokenIsMessage DEF Sound, IsOrder
      <3> QED
        BY <1>3, <3>4, SoundGrows
    <2> QED
      BY <1>1, <1>2, <1>3, <2>5, <2>7, StreamsRelay
  <1> QED
    BY <1>4, <1>5 DEF ReceiveFinish, Ring!HandleFinish

\* What the main thread calculates: it sends nothing, or a message of its own.
LEMMA CalculateSends ==
  ASSUME FlowInv, NEW p \in Procs, Calculate(p)
  PROVE  /\ UNCHANGED <<mainVars, serverVars, handling>>
         /\ \/ UNCHANGED wire
            \/ \E e : /\ SendsOwn(p, e) /\ Sound(e) /\ IsData(e)
                      /\ pc[p] = "run" /\ finish_index[p] = Phase(e)
                      /\ wire' = [wire EXCEPT ![Down(p)] = Append(@, e)]
  <1>1. /\ ControlType /\ ClosedLast /\ OrdersInv /\ CountsInv
    BY DEF FlowInv, ControlInv
  <1>2. UNCHANGED <<mainVars, serverVars, handling>>
    BY DEF Calculate, SolveOrder, AddLocalTotals, SendTotalData,
           ReadAverage, SendUnderSale, Close
  <1>3. CASE SolveOrder(p) /\ Head(orders[p]).lPartkey \notin Parts[p]
    <2>1. /\ pc[p] = "run" /\ finish_index[p] = 0 /\ p \notin closed
          /\ orders[p] # << >>
      BY <1>1, <1>3 DEF SolveOrder, InPhase, ClosedLast
    <2>2. PICK e : e = Order(Head(orders[p]))
      OBVIOUS
    <2>3. Head(orders[p]) \in RealOrder
      BY <1>1, <2>1, TailElements DEF OrdersInv
    <2>4. e.head = "order" /\ e.order = Head(orders[p])
      BY <2>2 DEF Order
    <2>5. Sound(e) /\ IsData(e) /\ Phase(e) = 0
      BY <2>2, <2>3 DEF Sound, Message, Order, IsToken, RealOrder, IsData, Phase
    <2>6. wire' = [wire EXCEPT ![Down(p)] = Append(@, e)]
      BY <1>3, <2>1, <2>2 DEF SolveOrder, Send
    <2> QED
      BY <1>2, <1>3, <2>1, <2>2, <2>4, <2>5, <2>6 DEF SendsOwn
  <1>4. CASE SendTotalData(p)
    <2>1. p \notin closed /\ pc[p] = "run" /\ finish_index[p] = 1
      BY <1>1, <1>4 DEF SendTotalData, InPhase, ClosedLast
    <2>2. PICK e :
            e = [head |-> "totalData", from |-> p, sales |-> localSales[p],
                 parts |-> Cardinality(DOMAIN saleCount[p])]
      OBVIOUS
    <2>3. localSales[p] \in Nat /\ Cardinality(DOMAIN saleCount[p]) \in Nat
      BY <1>1, CountsFinite DEF CountsInv
    <2>4. Sound(e) /\ IsData(e) /\ Phase(e) = 1
      BY <2>2, <2>3 DEF Sound, Message, IsToken, IsOrder, IsData, Phase
    <2>5. wire' = [wire EXCEPT ![Down(p)] = Append(@, e)]
      BY <1>4, <2>1, <2>2 DEF SendTotalData, Send
    <2> QED
      BY <1>2, <1>4, <2>1, <2>2, <2>4, <2>5 DEF SendsOwn
  <1>5. CASE SendUnderSale(p)
    <2>1. p \notin closed /\ pc[p] = "run" /\ finish_index[p] = 2
      BY <1>1, <1>5 DEF SendUnderSale, InPhase, ClosedLast
    <2>2. PICK k \in announce[p] :
            /\ Send(p, [head |-> "underSale",
                        part |-> [id |-> k, saleCount |-> saleCount[p][k]]])
            /\ announce' = [announce EXCEPT ![p] = @ \ {k}]
      BY <1>5 DEF SendUnderSale
    <2>3. PICK e : e = [head |-> "underSale",
                        part |-> [id |-> k, saleCount |-> saleCount[p][k]]]
      OBVIOUS
    <2>4. k \in Nat /\ saleCount[p][k] \in Nat /\ k \notin announce'[p]
      BY <1>1, <2>2, SoldSomewhere DEF CountsInv, Counts
    <2>5. Sound(e) /\ IsData(e) /\ Phase(e) = 2
      BY <2>3, <2>4 DEF Sound, Message, PartType, IsToken, IsOrder, IsData, Phase
    <2>6. wire' = [wire EXCEPT ![Down(p)] = Append(@, e)]
      BY <2>1, <2>2, <2>3 DEF Send
    <2> QED
      BY <1>2, <1>5, <2>1, <2>3, <2>4, <2>5, <2>6 DEF SendsOwn
  <1>6. \/ UNCHANGED wire \/ SendTotalData(p) \/ SendUnderSale(p)
        \/ SolveOrder(p) /\ Head(orders[p]).lPartkey \notin Parts[p]
    BY DEF Calculate, SolveOrder, AddLocalTotals, ReadAverage, Close
  <1> QED
    BY <1>2, <1>3, <1>4, <1>5, <1>6

LEMMA CalculateStreams ==
  ASSUME FlowInv, NEW p \in Procs, Calculate(p)
  PROVE  Streams'
  <1>1. Streams /\ UNCHANGED <<is_finished, handling>>
    BY CalculateSends DEF FlowInv, mainVars
  <1>2. CASE UNCHANGED wire
    BY <1>1, <1>2, StreamsQuiet
  <1>3. ASSUME NEW e, Sound(e), wire' = [wire EXCEPT ![Down(p)] = Append(@, e)]
        PROVE  Streams'
    BY <1>1, <1>3, SoundGrows, StreamsSend
  <1> QED
    BY <1>2, <1>3, CalculateSends

\* A message that is not a token is read.
LEMMA ReceiveReads ==
  ASSUME NEW p \in Procs, Receive(p)
  PROVE  /\ handling[p] = None /\ wire[p] # << >>
         /\ Head(wire[p]).head # "finish"
         /\ wire' = [wire EXCEPT ![p] = Tail(@)]
         /\ handling' = handling \/ GoOn(p)
         /\ UNCHANGED <<is_finished, has_notify, notifying>>
  BY DEF Receive, ReceiveOrder, ReceiveTotalData, ReceiveUnderSale, Reads,
         Consume, Ring!Receives, mainVars, serverVars

LEMMA ReceiveStreams ==
  ASSUME FlowInv, NEW p \in Procs, Receive(p)
  PROVE  Streams'
  BY ReceiveReads, StreamsRead DEF FlowInv

\* The rest of the handler.
LEMMA ForwardStreams ==
  ASSUME FlowInv, NEW p \in Procs, Forward(p)
  PROVE  Streams'
  <1>1. Streams
    BY DEF FlowInv
  <1>2. PICK e : e = handling[p]
    OBVIOUS
  <1>3. /\ handling' = [handling EXCEPT ![p] = None] /\ handling[p] # None
        /\ UNCHANGED is_finished
    BY DEF Forward, mainVars
  <1>4. e.head # "finish" /\ Sound(e)
    BY <1>1, <1>2, <1>3, HandType
  <1>5. CASE p \in closed
    BY <1>1, <1>3, <1>5, StreamsQuiet DEF Forward, Send
  <1>6. CASE p \notin closed
    <2>1. wire' = [wire EXCEPT ![Down(p)] = Append(@, e)]
      BY <1>2, <1>6 DEF Forward, Send
    <2>2. Sound(e)'
      BY <1>3, <1>4, SoundGrows
    <2> QED
      BY <1>1, <1>3, <2>1, <2>2, StreamsSend
  <1> QED
    BY <1>5, <1>6

\* What a step does to the streams.
LEMMA NextStreams ==
  ASSUME FlowInv, [Next]_vars
  PROVE  Streams'
  <1>1. CASE \/ UNCHANGED vars
             \/ \E p \in Procs : Ring!Notify(p) /\ UNCHANGED routingVars
    <2>1. UNCHANGED <<is_finished, wire, handling>>
      BY <1>1 DEF vars, Ring!vars, routingVars, Ring!Notify
    <2>2. 1 \in Procs
      BY NAssumption DEF Procs, Ring!Procs
    <2> QED
      BY <2>1, <2>2, StreamsQuiet DEF FlowInv
  <1>2. ASSUME NEW p \in Procs,
               \/ Calculate(p) \/ Synchronise(p)
               \/ ReceiveFinish(p) \/ Receive(p) \/ Forward(p)
        PROVE  Streams'
    BY <1>2, CalculateStreams, SynchroniseStreams, ReceiveFinishStreams,
       ReceiveStreams, ForwardStreams
  <1> QED
    BY <1>1, <1>2 DEF Next, Serve, Receive

-------------------------------------------------------------------------------
(***************************************************************************)
(* The steps and the places.                                               *)
(***************************************************************************)

LEMMA NoneIsNoData == ~ IsData(None)
  BY DEF IsData, None

\* How far a message is when it moves: one hop further, or picked up.
LEMMA GoesComing ==
  ASSUME NEW s \in Procs, NEW j \in Nat, NEW t \in Procs, NEW i \in Nat,
         Streams, Goes(s, j, t, i), NEW q \in Procs, t # s => s # q,
         NEW u \in Procs
  PROVE  Coming(q, u, t, i) <=>
           Coming(q, u, s, j) /\ ~ (t = s /\ i = 0 /\ j = 1 /\ u = s)
  <1>1. Hops(q, s) \in 1..N /\ Hops(q, t) \in 1..N /\ Hops(q, u) \in 1..N
    BY RingArithmetic
  <1>2. Hops(q, u) = Hops(q, s) => u = s
    BY RingArithmetic
  <1>3. Down(s) # s /\ (s # q => Hops(q, Down(s)) = Hops(q, s) + 1)
    BY RingArithmetic
  <1>4. Len(wire[t]) \in Nat
    BY LenProperties DEF Streams
  <1>5. CASE t = s /\ i = j
    BY <1>5 DEF Coming
  <1>6. CASE t = s /\ j = i + 1
    BY <1>1, <1>2, <1>6, NAssumption DEF Coming
  <1>7. CASE t = Down(s) /\ j = 0 /\ i = Len(wire[t]) + 1
    <2>1. i # 0 /\ s # q /\ t # s
      BY <1>3, <1>4, <1>7
    <2>2. Hops(q, t) = Hops(q, s) + 1
      BY <1>3, <1>7, <2>1
    <2>3. Hops(q, t) <= Hops(q, u) <=> Hops(q, s) < Hops(q, u)
      BY <1>1, <2>2, NAssumption
    <2>4. Hops(q, s) < Hops(q, u) => Hops(q, s) <= Hops(q, u)
      BY <1>1, NAssumption
    <2> QED
      BY <1>7, <2>1, <2>3, <2>4 DEF Coming
  <1> QED
    BY <1>5, <1>6, <1>7 DEF Goes

\* A message goes to one place only.
LEMMA GoesOnce ==
  ASSUME NEW s \in Procs, NEW j \in Nat,
         NEW t \in Procs, NEW i \in Nat, Goes(s, j, t, i),
         NEW t2 \in Procs, NEW i2 \in Nat, Goes(s, j, t2, i2),
         IsData(At(s, j))
  PROVE  t = t2 /\ i = i2
  <1>1. j = 0 /\ i = 0 /\ t = s => handling'[s] # None
    BY NoneIsNoData DEF Goes, At
  <1>2. j = 0 /\ i2 = 0 /\ t2 = s => handling'[s] # None
    BY NoneIsNoData DEF Goes, At
  <1> QED
    BY <1>1, <1>2 DEF Goes

\* A message that is picked up is read and not used up.
LEMMA PickedUp ==
  ASSUME NEW t \in Procs, Goes(t, 1, t, 0), IsData(At(t, 0)')
  PROVE  /\ Receive(t) /\ GoOn(t) /\ handling[t] = None /\ wire[t] # << >>
         /\ At(t, 0)' = At(t, 1)
  <1>1. Receive(t) \/ ReceiveFinish(t)
    BY RingArithmetic DEF Goes
  <1>2. handling'[t] # None
    BY NoneIsNoData DEF At
  <1>3. ~ ReceiveFinish(t)
    BY <1>2 DEF ReceiveFinish, Reads, routingVars
  <1> QED
    BY <1>1, <1>2, <1>3, ReceiveReads DEF Goes

\* Nothing moves.
LEMMA QuietPlaces ==
  ASSUME Streams, UNCHANGED <<wire, handling>>,
         \A q \in Procs : \A k \in Nat : Announced(q, k)' => Announced(q, k)
  PROVE  Backwards /\ Onwards
  <1>1. ASSUME NEW s \in Procs, NEW i \in 0..Len(wire[s])
        PROVE  Goes(s, i, s, i)
    <2>1. Len(wire[s]) \in Nat /\ ~ Shifted(s)
      BY LenProperties DEF Streams, Shifted
    <2> QED
      BY <2>1 DEF Goes, At, Kept, OnTrack, Clear
  <1> QED
    BY <1>1 DEF Backwards, Onwards, At

\* A message is sent: what there is stays where it is.
LEMMA Stays ==
  ASSUME Streams, NEW d \in Procs, NEW e, NEW last, last = Len(wire[d]) + 1,
         wire' = [wire EXCEPT ![d] = Append(@, e)],
         \A q \in Procs : \A k \in Nat : Announced(q, k)' => Announced(q, k),
         \A k \in Nat : \A q, s \in Procs : \A i \in Nat :
           (s = d => i < last) => NotOvertaken(e, k, q, s, i, d, last),
         NEW s \in Procs, NEW i \in 0..Len(wire[s]),
         i = 0 => handling'[s] = handling[s]
  PROVE  Goes(s, i, s, i) /\ i \in 0..Len(wire'[s])
  <1>1. PICK S : wire \in [Procs -> Seq(S)]
    BY DEF Streams
  <1>2. /\ Len(wire[s]) \in Nat
        /\ Len(wire'[s]) = Len(wire[s]) \/ Len(wire'[s]) = Len(wire[s]) + 1
        /\ i # 0 => wire'[s][i] = wire[s][i]
        /\ s = d => i < last
    BY <1>1, AppendElements, LenProperties
  <1>3. ASSUME NEW k \in Nat, NEW q \in Procs, OnTrack(k, q, s, i)
        PROVE  OnTrack(k, q, s, i)'
    <2>1. Clear(wire, k, q, s, i) /\ i \in Nat
      BY <1>2, <1>3 DEF OnTrack
    <2>2. NotOvertaken(e, k, q, s, i, d, Len(wire[d]) + 1)
      BY <1>2, <2>1
    <2>3. Clear([wire EXCEPT ![d] = Append(@, e)], k, q, s, i)
      BY <1>1, <2>1, <2>2, ClearSend
    <2> QED
      BY <1>3, <2>3 DEF OnTrack
  <1> QED
    BY <1>2, <1>3 DEF Goes, At, Kept, Shifted

\* The places there are when a message has been sent.
LEMMA PlacesWith ==
  ASSUME Streams, NEW d \in Procs, NEW e, NEW last, last = Len(wire[d]) + 1,
         wire' = [wire EXCEPT ![d] = Append(@, e)],
         NEW t \in Procs, NEW i \in 0..Len(wire'[t])
  PROVE  \/ i \in 0..Len(wire[t])
         \/ t = d /\ i = last /\ At(t, i)' = e
  <1>1. PICK S : wire \in [Procs -> Seq(S)]
    BY DEF Streams
  <1>2. /\ Len(wire[t]) \in Nat
        /\ t # d => Len(wire'[t]) = Len(wire[t])
        /\ t = d => /\ Len(wire'[t]) = Len(wire[t]) + 1
                    /\ wire'[t][Len(wire[t]) + 1] = e
    BY <1>1, AppendElements, LenProperties
  <1> QED
    BY <1>2 DEF At

\* A token is sent, or a message of one's own.
LEMMA SendPlaces ==
  ASSUME Streams, NEW d \in Procs, NEW e, NEW last, last = Len(wire[d]) + 1,
         wire' = [wire EXCEPT ![d] = Append(@, e)], UNCHANGED handling,
         \A q \in Procs : \A k \in Nat : Announced(q, k)' => Announced(q, k),
         \A k \in Nat : \A q, s \in Procs : \A i \in Nat :
           (s = d => i < last) => NotOvertaken(e, k, q, s, i, d, last),
         IsData(e) => Fresh(d, last)
  PROVE  Backwards /\ Onwards
  <1>1. \A s \in Procs : \A i \in 0..Len(wire[s]) :
          Goes(s, i, s, i) /\ i \in 0..Len(wire'[s])
    BY Stays
  <1>2. ASSUME NEW t \in Procs, NEW i \in 0..Len(wire'[t]), IsData(At(t, i)')
        PROVE  Fresh(t, i) \/ (Goes(t, i, t, i) /\ i \in 0..Len(wire[t]))
    <2>1. CASE i \in 0..Len(wire[t])
      BY <1>1, <2>1
    <2>2. CASE t = d /\ i = last /\ At(t, i)' = e
      <3>1. Fresh(d, last)
        BY <1>2, <2>2
      <3> QED
        BY <2>2, <3>1
    <2> QED
      BY <2>1, <2>2, PlacesWith
  <1> QED
    BY <1>1, <1>2 DEF Backwards, Onwards

\* A message is read, and perhaps kept to be forwarded.
LEMMA ReadPlaces ==
  ASSUME Streams, NEW p \in Procs, wire[p] # << >>, handling[p] = None,
         wire' = [wire EXCEPT ![p] = Tail(@)],
         Receive(p) \/ ReceiveFinish(p),
         \/ UNCHANGED handling /\ (Receive(p) \/ ~ IsData(Head(wire[p])))
         \/ GoOn(p),
         \A q \in Procs : \A k \in Nat : Announced(q, k)' => Announced(q, k)
  PROVE  Backwards /\ Onwards
  <1>1. PICK S : wire \in [Procs -> Seq(S)] /\ handling \in [Procs -> Held(S)]
    BY DEF Streams
  <1>2. /\ \A i \in 1..Len(wire'[p]) : /\ i + 1 \in 1..Len(wire[p])
                                       /\ wire'[p][i] = wire[p][i + 1]
        /\ \A s \in Procs \ {p} : wire'[s] = wire[s]
        /\ Len(wire[p]) \in Nat \ {0} /\ Len(wire'[p]) = Len(wire[p]) - 1
        /\ Head(wire[p]) = wire[p][1]
        /\ \A s \in Procs : Len(wire[s]) \in Nat
    BY <1>1, TailElements, LenProperties
  <1>3. ASSUME NEW s \in Procs, NEW i \in Nat, s = p => i >= 1,
               NEW k \in Nat, NEW q \in Procs, OnTrack(k, q, s, i)
        PROVE  OnTrack(k, q, s, IF s = p THEN i - 1 ELSE i)'
    <2>1. Clear(wire', k, q, s, IF s = p THEN i - 1 ELSE i)
      BY <1>1, <1>3, ClearTail DEF OnTrack
    <2> QED
      BY <1>3, <2>1 DEF OnTrack
  <1>4. ASSUME NEW s \in Procs \ {p}, NEW i \in 0..Len(wire[s])
        PROVE  Goes(s, i, s, i) /\ i \in 0..Len(wire'[s])
    <2>1. At(s, i)' = At(s, i)
      BY <1>1, <1>2 DEF At, GoOn
    <2>2. Kept(s, i, s, i)
      <3>1. i \in Nat
        BY <1>2
      <3> QED
        BY <1>3, <3>1 DEF Kept
    <2>3. ~ Shifted(s)
      BY <1>2 DEF Shifted
    <2> QED
      BY <1>2, <2>1, <2>2, <2>3 DEF Goes
  <1>5. ASSUME NEW i \in 0..Len(wire'[p]), i = 0 => GoOn(p)
        PROVE  Goes(p, i + 1, p, i) /\ i + 1 \in 0..Len(wire[p])
    <2>1. At(p, i)' = At(p, i + 1)
      BY <1>1, <1>2, <1>5 DEF At, GoOn
    <2>2. i \in Nat /\ i + 1 \in Nat /\ i + 1 >= 1 /\ (i + 1) - 1 = i
      BY <1>2
    <2>3. Kept(p, i + 1, p, i)
      <3>1. ASSUME NEW k \in Nat, NEW q \in Procs, OnTrack(k, q, p, i + 1)
            PROVE  OnTrack(k, q, p, i)'
        <4>1. PICK j \in Nat : j = i + 1
          BY <2>2
        <4>2. OnTrack(k, q, p, IF p = p THEN j - 1 ELSE j)'
          BY <1>3, <2>2, <3>1, <4>1
        <4>3. j - 1 = i
          BY <2>2, <4>1
        <4> QED
          BY <4>2, <4>3
      <3> QED
        BY <3>1 DEF Kept
    <2>4. Shifted(p)
      BY <1>2 DEF Shifted
    <2> QED
      BY <1>2, <2>1, <2>3, <2>4 DEF Goes
  <1>6. Backwards
    <2> SUFFICES ASSUME NEW t \in Procs, NEW i \in 0..Len(wire'[t]),
                        IsData(At(t, i)')
                 PROVE  \E s \in Procs : \E j \in 0..Len(wire[s]) :
                          Goes(s, j, t, i)
      BY DEF Backwards
    <2>1. CASE t # p
      BY <1>2, <1>4, <2>1
    <2>2. CASE t = p
      <3>1. i = 0 => GoOn(p)
        BY <2>2, NoneIsNoData DEF At
      <3> QED
        BY <1>5, <2>2, <3>1
    <2> QED
      BY <2>1, <2>2
  <1>7. Onwards
    <2> SUFFICES ASSUME NEW s \in Procs, NEW j \in 0..Len(wire[s]),
                        IsData(At(s, j)), ~ Gone(s, j)
                 PROVE  \E t \in Procs : \E i \in 0..Len(wire'[t]) :
                          Goes(s, j, t, i)
      BY DEF Onwards
    <2>1. CASE s # p
      BY <1>4, <2>1
    <2>2. CASE s = p
      <3>1. j # 0
        BY <2>2, NoneIsNoData DEF At
      <3>2. PICK i \in 0..Len(wire'[p]) : j = i + 1
        <4>1. j - 1 \in 0..Len(wire'[p]) /\ j = (j - 1) + 1
          BY <1>2, <2>2, <3>1
        <4> QED
          BY <4>1
      <3>3. i = 0 => GoOn(p)
        BY <1>2, <2>2, <3>2 DEF At, Gone
      <3> QED
        BY <1>5, <2>2, <3>2, <3>3
    <2> QED
      BY <2>1, <2>2
  <1> QED
    BY <1>6, <1>7

\* A message is read and e is sent.
Relays(p, e) ==
  wire' = [wire EXCEPT ![p] = Tail(@), ![Down(p)] = Append(@, e)]

\* The streams when a message has been read and another sent.
LEMMA RelayLengths ==
  ASSUME NEW S, NEW w \in [Procs -> Seq(S)], NEW p \in Procs, NEW d \in Procs,
         d # p, w[p] # << >>, NEW e, NEW w2,
         w2[p] = Tail(w[p]), w2[d] = Append(w[d], e),
         \A s \in Procs \ {p, d} : w2[s] = w[s]
  PROVE  /\ \A s \in Procs : Len(w[s]) \in Nat /\ Len(w2[s]) \in Nat
         /\ Len(w[p]) >= 1 /\ Len(w2[p]) = Len(w[p]) - 1
         /\ \A i \in 1..Len(w2[p]) : w2[p][i] = w[p][i + 1]
         /\ Len(w2[d]) = Len(w[d]) + 1
         /\ w2[d][Len(w[d]) + 1] = e
         /\ \A i \in 1..Len(w[d]) : w2[d][i] = w[d][i]
         /\ \A s \in Procs \ {p, d} : w2[s] = w[s]
  <1>1. PICK a, b, c, g : /\ a = w[p] /\ b = w[d]
                          /\ c = Tail(a) /\ g = Append(b, e)
    OBVIOUS
  <1>2. a \in Seq(S) /\ b \in Seq(S) /\ a # << >>
    BY <1>1
  <1>3. /\ Len(a) \in Nat /\ Len(a) >= 1 /\ Len(c) = Len(a) - 1
        /\ \A i \in 1..Len(c) : c[i] = a[i + 1]
    <2>1. /\ Len(a) \in Nat \ {0} /\ Len(Tail(a)) = Len(a) - 1
          /\ \A i \in 1..Len(Tail(a)) : Tail(a)[i] = a[i + 1]
      BY <1>2, TailElements
    <2> QED
      BY <1>1, <2>1
  <1>4. /\ Len(b) \in Nat /\ Len(g) = Len(b) + 1
        /\ \A i \in 1..Len(b) : g[i] = b[i]
        /\ g[Len(b) + 1] = e
    BY <1>1, <1>2, AppendElements
  <1>5. \A s \in Procs : Len(w[s]) \in Nat
    BY LenProperties
  <1>6. /\ w2[p] = c /\ w2[d] = g
        /\ \A s \in Procs \ {p, d} : w2[s] = w[s]
    BY <1>1
  <1>7. \A s \in Procs : Len(w2[s]) \in Nat
    BY <1>3, <1>4, <1>5, <1>6
  <1> QED
    BY <1>1, <1>3, <1>4, <1>5, <1>6, <1>7

\* A token is read and passed on, and its barrier announced if it is complete.
LEMMA RelayPlaces ==
  ASSUME Streams, NEW p \in Procs, wire[p] # << >>, handling[p] = None,
         ReceiveFinish(p), NEW t \in Ring!Token, t = Head(wire[p]),
         Relays(p, Ring!Stamped(p, t.idx, t.cnt)), UNCHANGED handling,
         \A q \in Procs : \A k \in Nat : Announced(q, k)' =>
           Announced(q, k) \/ (q = p /\ t.idx = k /\ Ring!CheckFinish(t))
  PROVE  Backwards /\ Onwards
  <1> DEFINE u == Ring!Stamped(p, t.idx, t.cnt)
             w2 == [wire EXCEPT ![p] = Tail(@)]
  <1>1. PICK S : wire \in [Procs -> Seq(S)] /\ handling \in [Procs -> Held(S)]
    BY DEF Streams
  <1>2. /\ w2 \in [Procs -> Seq(S)]
        /\ w2[p] = Tail(wire[p]) /\ \A s \in Procs \ {p} : w2[s] = wire[s]
        /\ Down(p) \in Procs /\ Down(p) # p
    BY <1>1, TailElements, RingArithmetic
  <1>3. wire' = [w2 EXCEPT ![Down(p)] = Append(@, u)]
    BY <1>2 DEF Relays
  <1>4. u.head = "finish" /\ t.head = "finish" /\ t.cnt \in [Procs -> Nat]
        /\ t.idx \in Nat
    BY DEF Ring!Stamped, Ring!Token, Procs
  <1>5. \A s \in Procs : Len(wire[s]) \in Nat /\ Len(w2[s]) \in Nat
    BY <1>1, <1>2, LenProperties
  <1>6. /\ \A i \in 1..Len(w2[p]) : /\ i + 1 \in 1..Len(wire[p])
                                    /\ w2[p][i] = wire[p][i + 1]
        /\ 1 \in 1..Len(wire[p]) /\ t = wire[p][1]
        /\ Len(w2[p]) = Len(wire[p]) - 1
    BY <1>1, <1>2, TailElements
  <1>7. PICK last : last = Len(w2[Down(p)]) + 1
    OBVIOUS
  <1> HIDE DEF u, w2
  <1>15. PICK d, v : d = Down(p) /\ v = wire' /\ d \in Procs /\ d # p
    BY <1>2
  <1>16. /\ v[p] = Tail(wire[p]) /\ v[d] = Append(wire[d], u)
         /\ \A s \in Procs \ {p, d} : v[s] = wire[s]
    BY <1>1, <1>15 DEF Relays, u
  <1>17. /\ \A s \in Procs : Len(wire[s]) \in Nat /\ Len(v[s]) \in Nat
         /\ Len(wire[p]) >= 1 /\ Len(v[p]) = Len(wire[p]) - 1
         /\ \A i \in 1..Len(v[p]) : v[p][i] = wire[p][i + 1]
         /\ Len(v[d]) = Len(wire[d]) + 1
         /\ v[d][Len(wire[d]) + 1] = u
         /\ \A i \in 1..Len(wire[d]) : v[d][i] = wire[d][i]
         /\ \A s \in Procs \ {p, d} : v[s] = wire[s]
    <2>7. wire \in [Procs -> Seq(S)] /\ wire[p] # << >> /\ d \in Procs /\ d # p
      BY <1>1, <1>15
    <2>1. \A s \in Procs : Len(wire[s]) \in Nat /\ Len(v[s]) \in Nat
      BY <1>16, <2>7, RelayLengths
    <2>2. Len(wire[p]) >= 1 /\ Len(v[p]) = Len(wire[p]) - 1
      BY <1>16, <2>7, RelayLengths
    <2>3. \A i \in 1..Len(v[p]) : v[p][i] = wire[p][i + 1]
      BY <1>16, <2>7, RelayLengths
    <2>4. Len(v[d]) = Len(wire[d]) + 1
      BY <1>16, <2>7, RelayLengths
    <2>5. v[d][Len(wire[d]) + 1] = u
      BY <1>16, <2>7, RelayLengths
    <2>6. \A i \in 1..Len(wire[d]) : v[d][i] = wire[d][i]
      BY <1>16, <2>7, RelayLengths
    <2> QED
      BY <1>16, <2>1, <2>2, <2>3, <2>4, <2>5, <2>6
  <1>8. /\ \A s \in Procs : \A i \in 1..Len(w2[s]) : wire'[s][i] = w2[s][i]
        /\ \A s \in Procs \ {Down(p)} : Len(wire'[s]) = Len(w2[s])
        /\ Len(wire'[Down(p)]) = last /\ wire'[Down(p)][last] = u
        /\ last \in Nat
    <2>1. ASSUME NEW s \in Procs
          PROVE  /\ \A i \in 1..Len(w2[s]) : v[s][i] = w2[s][i]
                 /\ s # d => Len(v[s]) = Len(w2[s])
      <3>1. CASE s = p
        <4>1. Len(w2[p]) = Len(wire[p]) - 1 /\ Len(v[p]) = Len(wire[p]) - 1
          BY <1>6, <1>17
        <4>2. \A i \in 1..Len(w2[p]) : w2[p][i] = wire[p][i + 1]
          BY <1>6
        <4>3. \A i \in 1..Len(v[p]) : v[p][i] = wire[p][i + 1]
          BY <1>17
        <4>4. \A i \in 1..Len(w2[p]) : v[p][i] = w2[p][i]
          BY <4>1, <4>2, <4>3
        <4> QED
          BY <3>1, <4>1, <4>4
      <3>2. CASE s = d
        <4>1. w2[d] = wire[d]
          BY <1>2, <1>15
        <4>2. \A i \in 1..Len(wire[d]) : v[d][i] = wire[d][i]
          BY <1>17
        <4> QED
          BY <3>2, <4>1, <4>2
      <3>3. CASE s # p /\ s # d
        <4>1. w2[s] = wire[s] /\ v[s] = wire[s]
          BY <1>2, <1>17, <3>3
        <4> QED
          BY <4>1
      <3> QED
        BY <3>1, <3>2, <3>3
    <2>2. w2[d] = wire[d]
      BY <1>2, <1>15
    <2>3. Len(v[d]) = last /\ v[d][last] = u /\ last \in Nat
      BY <1>7, <1>15, <1>17, <2>2
    <2> QED
      BY <1>15, <2>1, <2>3
  <1>14. PICK n, n2 : /\ n = [s \in Procs |-> Len(wire[s])]
                      /\ n2 = [s \in Procs |-> Len(wire'[s])]
    OBVIOUS
  <1>18.   /\ n \in [Procs -> Nat] /\ n2 \in [Procs -> Nat]
           /\ \A s \in Procs : n[s] = Len(wire[s]) /\ n2[s] = Len(wire'[s])
           /\ \A s \in Procs \ {p} : Len(w2[s]) = n[s]
           /\ Len(w2[p]) = n[p] - 1 /\ n[p] >= 1 /\ n2[p] = n[p] - 1
           /\ \A s \in Procs \ {p} : n2[s] = n[s] \/ n2[s] = n[s] + 1
           /\ \A s \in Procs \ {Down(p)} : n2[s] = Len(w2[s])
           /\ n2[Down(p)] = last /\ last = n[Down(p)] + 1
    <2>2. \A s \in Procs : n[s] = Len(wire[s]) /\ n2[s] = Len(wire'[s])
      BY <1>14
    <2>3. \A s \in Procs \ {p} : Len(w2[s]) = n[s]
      BY <1>2, <2>2
    <2>4. Len(w2[p]) = n[p] - 1 /\ n[p] \in Nat /\ n[p] >= 1 /\ n2[p] = n[p] - 1
      BY <1>6, <1>15, <1>17, <2>2
    <2>5. n2[Down(p)] = last /\ last = n[Down(p)] + 1 /\ n[Down(p)] \in Nat
      BY <1>2, <1>5, <1>7, <1>8, <2>2, <2>3
    <2>6. \A s \in Procs \ {Down(p)} : n2[s] = Len(w2[s])
      BY <1>8, <2>2
    <2>7. \A s \in Procs \ {p} : n2[s] = n[s] \/ n2[s] = n[s] + 1
      BY <2>3, <2>5, <2>6
    <2>8. n \in [Procs -> Nat] /\ n2 \in [Procs -> Nat]
      BY <1>14, <1>15, <1>17
    <2> QED
      BY <2>2, <2>3, <2>4, <2>5, <2>6, <2>7, <2>8
  <1>9. ASSUME NEW s \in Procs, NEW i \in Nat, s = p => i >= 1,
               NEW i2 \in Nat, i2 = (IF s = p THEN i - 1 ELSE i),
               i2 <= Len(w2[s]),
               NEW k \in Nat, NEW q \in Procs, OnTrack(k, q, s, i)
        PROVE  OnTrack(k, q, s, i2)'
    <2>1. Clear(wire, k, q, s, i)
      BY <1>9 DEF OnTrack
    <2>2. Clear(w2, k, q, s, i2)
      BY <1>1, <1>9, <2>1, ClearTail DEF w2
    <2>3. NotOvertaken(t, k, q, s, i, p, 1)
      BY <1>6, <2>1 DEF Clear
    <2>4. NotOvertaken(u, k, q, s, i2, Down(p), last)
      <3>1. s = Down(p) => i2 < last
        BY <1>5, <1>7, <1>9
      <3> QED
        BY <1>8, <1>9, <2>3, <3>1, StampBehind DEF u
    <2>5. Clear(wire', k, q, s, i2)
      <3>1. Clear([w2 EXCEPT ![Down(p)] = Append(@, u)], k, q, s, i2)
        BY <1>2, <1>7, <1>9, <2>2, <2>4, ClearSend
      <3> QED
        BY <1>3, <3>1
    <2>6. ASSUME NEW r \in Procs, Announced(r, k)'
          PROVE  Hops(q, s) > Hops(q, r)
      <3>1. CASE Announced(r, k)
        BY <1>9, <3>1 DEF OnTrack
      <3>2. CASE r = p /\ t.idx = k /\ Ring!CheckFinish(t)
        <4>1. t.cnt[q] # 0
          BY <1>4, <3>2 DEF Ring!CheckFinish, Procs
        <4>2. Ahead(q, s, i, p, 1)
          BY <1>4, <2>3, <3>2, <4>1 DEF NotOvertaken, IsToken
        <4> QED
          BY <1>9, <3>2, <4>2 DEF Ahead
      <3> QED
        BY <2>6, <3>1, <3>2
    <2> QED
      BY <2>5, <2>6 DEF OnTrack
  <1>10. ASSUME NEW s \in Procs \ {p}, NEW i \in 0..Len(wire[s])
         PROVE  Goes(s, i, s, i) /\ i \in 0..Len(wire'[s])
    <2>1. i \in Nat /\ i <= Len(w2[s]) /\ (i # 0 => i \in 1..Len(w2[s]))
          /\ wire[s] = w2[s]
      BY <1>2, <1>5
    <2>2. At(s, i)' = At(s, i)
      BY <1>8, <2>1 DEF At
    <2>3. Kept(s, i, s, i)
      BY <1>9, <2>1 DEF Kept
    <2>4. ~ Shifted(s) /\ i \in 0..Len(wire'[s])
      BY <1>18, <2>1 DEF Shifted
    <2> QED
      BY <2>2, <2>3, <2>4 DEF Goes
  <1>11. ASSUME NEW i \in 1..Len(w2[p])
         PROVE  /\ Goes(p, i + 1, p, i) /\ i + 1 \in 0..Len(wire[p])
                /\ i \in 0..Len(wire'[p])
    <2>1. /\ i \in Nat /\ i + 1 \in Nat /\ i + 1 >= 1 /\ (i + 1) - 1 = i
          /\ i # 0 /\ i + 1 # 0 /\ i <= Len(w2[p])
          /\ i + 1 \in 1..Len(wire[p]) /\ w2[p][i] = wire[p][i + 1]
      BY <1>5, <1>6
    <2>2. At(p, i)' = At(p, i + 1)
      BY <1>8, <2>1 DEF At
    <2>3. Kept(p, i + 1, p, i)
      <3>1. ASSUME NEW k \in Nat, NEW q \in Procs, OnTrack(k, q, p, i + 1)
            PROVE  OnTrack(k, q, p, i)'
        <4>1. PICK j \in Nat : j = i + 1
          BY <2>1
        <4>2. i = (IF p = p THEN j - 1 ELSE j) /\ j >= 1
          BY <2>1, <4>1
        <4> QED
          BY <1>9, <2>1, <3>1, <4>1, <4>2
      <3> QED
        BY <3>1 DEF Kept
    <2>4. Shifted(p) /\ i \in 0..Len(wire'[p])
      BY <1>18, <2>1 DEF Shifted
    <2> QED
      BY <2>1, <2>2, <2>3, <2>4 DEF Goes
  <1>12. Backwards
    <2> SUFFICES ASSUME NEW r \in Procs, NEW i \in 0..Len(wire'[r]),
                        IsData(At(r, i)')
                 PROVE  \E s \in Procs : \E j \in 0..Len(wire[s]) :
                          Goes(s, j, r, i)
      BY DEF Backwards
    <2>1. ~ (r = Down(p) /\ i = last)
      <3>1. last # 0 /\ ~ IsData(u)
        BY <1>2, <1>4, <1>5, <1>7 DEF IsData
      <3> QED
        BY <1>8, <3>1 DEF At
    <2>2. CASE r # p
      <3>1. i \in 0..Len(wire[r])
        BY <1>18, <2>1, <2>2
      <3> QED
        BY <1>10, <2>2, <3>1
    <2>3. CASE r = p
      <3>1. i # 0
        BY <2>3, NoneIsNoData DEF At
      <3>2. i \in 1..Len(w2[p])
        BY <1>18, <2>3, <3>1
      <3> QED
        BY <1>11, <2>3, <3>2
    <2> QED
      BY <2>2, <2>3
  <1>13. Onwards
    <2> SUFFICES ASSUME NEW s \in Procs, NEW j \in 0..Len(wire[s]),
                        IsData(At(s, j))
                 PROVE  \E r \in Procs : \E i \in 0..Len(wire'[r]) :
                          Goes(s, j, r, i)
      BY DEF Onwards
    <2>1. CASE s # p
      BY <1>10, <2>1
    <2>2. CASE s = p
      <3>1. j # 0
        BY <2>2, NoneIsNoData DEF At
      <3>2. j # 1
        BY <1>4, <1>6, <2>2 DEF At, IsData
      <3>3. PICK i \in 1..Len(w2[p]) : j = i + 1
        <4>1. j - 1 \in 1..Len(w2[p]) /\ j = (j - 1) + 1
          BY <1>5, <1>6, <2>2, <3>1, <3>2
        <4> QED
          BY <4>1
      <3> QED
        BY <1>11, <2>2, <3>3
    <2> QED
      BY <2>1, <2>2
  <1> QED
    BY <1>12, <1>13

\* What a server has in its hands is sent on, unless the connection is closed.
LEMMA ForwardPlaces ==
  ASSUME FlowInv, NEW p \in Procs, Forward(p)
  PROVE  Backwards /\ Onwards
  <1>1. PICK S : wire \in [Procs -> Seq(S)] /\ handling \in [Procs -> Held(S)]
    BY DEF FlowInv, Streams
  <1>2. Streams
    BY DEF FlowInv
  <1>3. PICK e : e = handling[p]
    OBVIOUS
  <1>4. /\ handling'[p] = None
        /\ \A s \in Procs \ {p} : handling'[s] = handling[s]
        /\ e.head # "finish"
        /\ UNCHANGED <<has_notify, notifying>>
    BY <1>1, <1>2, <1>3, HandType DEF Forward, serverVars
  <1>5. \A q \in Procs : \A k \in Nat : Announced(q, k)' => Announced(q, k)
    BY <1>4 DEF Announced
  <1>6. \A s \in Procs : Len(wire[s]) \in Nat
    BY <1>1, LenProperties
  <1>7. CASE p \in closed
    <2>1. UNCHANGED wire
      BY <1>7 DEF Forward, Send
    <2>2. ASSUME NEW s \in Procs, NEW i \in 0..Len(wire[s]), s = p => i # 0
          PROVE  Goes(s, i, s, i)
      <3>1. ~ Shifted(s)
        BY <1>6, <2>1 DEF Shifted
      <3> QED
        BY <1>4, <1>5, <2>1, <2>2, <3>1 DEF Goes, At, Kept, OnTrack, Clear
    <2>3. Backwards
      <3> SUFFICES ASSUME NEW t \in Procs, NEW i \in 0..Len(wire'[t]),
                          IsData(At(t, i)')
                   PROVE  \E s \in Procs : \E j \in 0..Len(wire[s]) :
                            Goes(s, j, t, i)
        BY DEF Backwards
      <3>1. t = p => i # 0
        BY <1>4, NoneIsNoData DEF At
      <3> QED
        BY <2>1, <2>2, <3>1
    <2>4. Onwards
      BY <1>7, <2>1, <2>2 DEF Onwards, Gone
    <2> QED
      BY <2>3, <2>4
  <1>8. CASE p \notin closed
    <2>1. wire' = [wire EXCEPT ![Down(p)] = Append(@, e)]
      BY <1>3, <1>8 DEF Forward, Send
    <2>2. PICK last : last = Len(wire[Down(p)]) + 1
      OBVIOUS
    <2>3. last \in Nat /\ last # 0 /\ Down(p) \in Procs /\ Down(p) # p
      <3>1. Down(p) \in Procs /\ Down(p) # p
        BY RingArithmetic
      <3> QED
        BY <1>6, <2>2, <3>1
    <2>4. \A k, q, s, i : NotOvertaken(e, k, q, s, i, Down(p), last)
      BY <1>4 DEF NotOvertaken, IsToken
    <2>5. ASSUME NEW s \in Procs, NEW i \in 0..Len(wire[s]), s = p => i # 0
          PROVE  Goes(s, i, s, i) /\ i \in 0..Len(wire'[s])
      BY <1>2, <1>4, <1>5, <2>1, <2>2, <2>3, <2>4, <2>5, Stays
    <2>6. /\ Len(wire'[Down(p)]) = last /\ wire'[Down(p)][last] = e
          /\ 0 \in 0..Len(wire[p]) /\ last \in 0..Len(wire'[Down(p)])
      BY <1>1, <1>6, <2>1, <2>2, <2>3, AppendElements
    <2>7. Goes(p, 0, Down(p), last)
      <3>1. ASSUME NEW k \in Nat, NEW q \in Procs, OnTrack(k, q, p, 0), p # q
            PROVE  OnTrack(k, q, Down(p), last)'
        <4>1. Hops(q, Down(p)) = Hops(q, p) + 1
          BY <3>1, RingArithmetic
        <4>2. \A r \in Procs : Hops(q, r) \in 1..N
          BY RingArithmetic
        <4>3. Clear(wire, k, q, Down(p), last)
          BY <2>3, <3>1, ClearAdvance DEF OnTrack
        <4>4. Clear([wire EXCEPT ![Down(p)] = Append(@, e)], k, q, Down(p), last)
          BY <1>1, <2>2, <2>3, <2>4, <4>3, ClearSend
        <4>5. \A r \in Procs : Announced(r, k)' => Hops(q, Down(p)) > Hops(q, r)
          BY <1>5, <3>1, <4>1, <4>2, NAssumption DEF OnTrack
        <4> QED
          BY <2>1, <4>4, <4>5 DEF OnTrack
      <3>2. At(Down(p), last)' = At(p, 0)
        BY <1>3, <2>3, <2>6 DEF At
      <3> QED
        BY <1>4, <2>2, <2>3, <3>1, <3>2 DEF Goes, Kept
    <2>8. Backwards
      <3> SUFFICES ASSUME NEW t \in Procs, NEW i \in 0..Len(wire'[t]),
                          IsData(At(t, i)')
                   PROVE  \E s \in Procs : \E j \in 0..Len(wire[s]) :
                            Goes(s, j, t, i)
        BY DEF Backwards
      <3>1. t = p => i # 0
        BY <1>4, NoneIsNoData DEF At
      <3>2. i \in 0..Len(wire[t]) \/ (t = Down(p) /\ i = last)
        BY <1>2, <2>1, <2>2, <2>3, PlacesWith
      <3> QED
        BY <2>5, <2>6, <2>7, <3>1, <3>2
    <2>9. Onwards
      BY <2>3, <2>5, <2>6, <2>7 DEF Onwards
    <2> QED
      BY <2>8, <2>9
  <1> QED
    BY <1>7, <1>8

\* A token that carries the digit of an instance is of a barrier it has
\* reached: none can be behind what the instance sends in its phase.
LEMMA OwnClear ==
  ASSUME FlowInv, NEW p \in Procs, pc[p] = "run",
         NEW k \in Nat, finish_index[p] = k, NEW s \in Procs, NEW i
  PROVE  OnTrack(k, p, s, i)
  <1>1. k \notin is_finished[p]
    BY DEF FlowInv, ControlInv, FinishedIsPrefix, Ring!Inside
  <1>2. PICK S : wire \in [Procs -> Seq(S)] /\ \A m \in S : Sound(m)
    BY DEF FlowInv, Streams
  <1>3. ASSUME NEW r \in Procs, NEW j \in 1..Len(wire[r])
        PROVE  NotOvertaken(wire[r][j], k, p, s, i, r, j)
    <2>1. Sound(wire[r][j])
      BY <1>2, ElementOfSeq
    <2>2. /\ wire[r][j].head = "finish" /\ wire[r][j].cnt[p] # 0
          => wire[r][j].idx \in is_finished[p]
      BY <2>1, TokenSound
    <2> QED
      BY <1>1, <2>2 DEF NotOvertaken, IsToken
  <1>4. \A r \in Procs : ~ Announced(r, k)
    BY <1>1 DEF FlowInv, ControlInv, AnnouncedByAll
  <1> QED
    BY <1>3, <1>4 DEF Clear, OnTrack

LEMMA CalculatePlaces ==
  ASSUME FlowInv, NEW p \in Procs, Calculate(p)
  PROVE  Backwards /\ Onwards
  <1>1. Streams /\ UNCHANGED <<has_notify, notifying, handling>>
    BY CalculateSends DEF FlowInv, serverVars
  <1>2. \A q \in Procs : \A k \in Nat : Announced(q, k)' => Announced(q, k)
    BY <1>1 DEF Announced
  <1>3. CASE UNCHANGED wire
    BY <1>1, <1>2, <1>3, QuietPlaces
  <1>4. ASSUME NEW e, SendsOwn(p, e), IsData(e), pc[p] = "run",
               finish_index[p] = Phase(e),
               wire' = [wire EXCEPT ![Down(p)] = Append(@, e)]
        PROVE  Backwards /\ Onwards
    <2>1. PICK S : wire \in [Procs -> Seq(S)]
      BY <1>1 DEF Streams
    <2>2. PICK d \in Procs : d = Down(p)
      BY RingArithmetic
    <2>3. PICK last : last = Len(wire[d]) + 1
      OBVIOUS
    <2>4. /\ last \in Nat /\ last # 0
          /\ At(d, last)' = e
      BY <1>4, <2>1, <2>2, <2>3, AppendElements DEF At
    <2>5. \A k, q, s, i : NotOvertaken(e, k, q, s, i, d, last)
      BY <1>4 DEF NotOvertaken, IsToken, IsData
    <2>6. OnTrack(Phase(e), p, d, last)'
      <3>1. Phase(e) \in Nat
        BY DEF Phase
      <3>2. OnTrack(Phase(e), p, d, last)
        BY <1>4, <3>1, OwnClear
      <3>3. Clear([wire EXCEPT ![d] = Append(@, e)], Phase(e), p, d, last)
        BY <2>1, <2>3, <2>4, <2>5, <3>2, ClearSend DEF OnTrack
      <3> QED
        BY <1>1, <1>4, <2>2, <3>2, <3>3 DEF OnTrack, Announced
    <2>7. Fresh(d, last)
      BY <1>4, <2>2, <2>3, <2>4, <2>6 DEF Fresh
    <2> QED
      BY <1>1, <1>2, <1>4, <2>2, <2>3, <2>5, <2>7, SendPlaces
  <1> QED
    BY <1>3, <1>4, CalculateSends

LEMMA SynchronisePlaces ==
  ASSUME FlowInv, NEW p \in Procs, Synchronise(p)
  PROVE  Backwards /\ Onwards
  <1>1. ControlType /\ Streams
    BY DEF FlowInv, ControlInv
  <1>2. UNCHANGED <<has_notify, notifying, handling>>
    BY DEF Synchronise, EnterBarrier, LeaveBarrier, Ring!EnterBarrier,
           Ring!LeaveBarrier, Ring!SendFinish, Ring!Wait, Ring!serverVars,
           routingVars
  <1>3. \A q \in Procs : \A k \in Nat : Announced(q, k)' => Announced(q, k)
    BY <1>2 DEF Announced
  <1>4. CASE UNCHANGED wire
    BY <1>1, <1>2, <1>3, <1>4, QuietPlaces
  <1>5. CASE Ring!SendFinish(p)
    <2>1. PICK e : e = Ring!Stamped(p, finish_index[p], Ring!NoDigits)
      OBVIOUS
    <2>2. finish_index[p] \in Nat
      BY <1>1 DEF ControlType
    <2>3. ~ IsData(e)
      BY <2>1 DEF Ring!Stamped, IsData
    <2>4. wire' = [wire EXCEPT ![Down(p)] = Append(@, e)]
      BY <1>5, <2>1 DEF Ring!SendFinish, Down
    <2>5. PICK d \in Procs : d = Down(p)
      BY RingArithmetic
    <2>6. PICK last : last = Len(wire[d]) + 1
      OBVIOUS
    <2>7. last \in Nat
      BY <1>1, <2>6, LenProperties DEF Streams
    <2>8. \A k \in Nat : \A q, s \in Procs : \A i \in Nat :
            (s = d => i < last) => NotOvertaken(e, k, q, s, i, d, last)
      BY <2>1, <2>2, <2>5, <2>7, FreshBehind
    <2> QED
      BY <1>1, <1>2, <1>3, <2>3, <2>4, <2>5, <2>6, <2>8, SendPlaces
  <1>6. UNCHANGED wire \/ Ring!SendFinish(p)
    BY DEF Synchronise, EnterBarrier, LeaveBarrier, Ring!EnterBarrier,
           Ring!LeaveBarrier, Ring!Wait
  <1> QED
    BY <1>4, <1>5, <1>6

LEMMA ReceiveFinishPlaces ==
  ASSUME FlowInv, NEW p \in Procs, ReceiveFinish(p)
  PROVE  Backwards /\ Onwards
  <1>1. ControlType /\ Streams
    BY DEF FlowInv, ControlInv
  <1>2. /\ handling[p] = None /\ wire[p] # << >>
        /\ Head(wire[p]).head = "finish" /\ ~ IsData(Head(wire[p]))
        /\ UNCHANGED handling
    BY DEF ReceiveFinish, Reads, Ring!Receives, routingVars, IsData
  <1>3. UNCHANGED has_notify
    BY DEF ReceiveFinish, Ring!HandleFinish, Ring!DropToken, Ring!PassToken,
           Ring!CompleteToken, Ring!mainVars, Ring!serverVars
  <1>4. CASE Ring!DropToken(p)
    <2>1. wire' = [wire EXCEPT ![p] = Tail(@)] /\ UNCHANGED notifying
      BY <1>4 DEF Ring!DropToken, Ring!serverVars
    <2>2. \A q \in Procs : \A k \in Nat : Announced(q, k)' => Announced(q, k)
      BY <1>3, <2>1 DEF Announced
    <2> QED
      BY <1>1, <1>2, <2>1, <2>2, ReadPlaces
  <1>5. CASE Ring!PassToken(p) \/ Ring!CompleteToken(p)
    <2>1. PICK t : t = Head(wire[p])
      OBVIOUS
    <2>2. t \in Ring!Token /\ t.idx \in Nat
      BY <1>1, <1>2, <2>1, HeadSound, TokenSound
    <2>3. Relays(p, Ring!Stamped(p, t.idx, t.cnt))
      BY <1>5, <2>1
         DEF Relays, Ring!PassToken, Ring!CompleteToken, Ring!Forward, Down
    <2>4. \A q \in Procs : \A k \in Nat : Announced(q, k)' =>
            Announced(q, k) \/ (q = p /\ t.idx = k /\ Ring!CheckFinish(t))
      <3>1. CASE Ring!PassToken(p)
        BY <1>3, <3>1 DEF Ring!PassToken, Ring!serverVars, Announced
      <3>2. CASE Ring!CompleteToken(p)
        BY <1>1, <1>3, <2>1, <3>2
           DEF Ring!CompleteToken, Announced, ControlType
      <3> QED
        BY <1>5, <3>1, <3>2
    <2> QED
      BY <1>1, <1>2, <2>1, <2>2, <2>3, <2>4, RelayPlaces
  <1> QED
    BY <1>4, <1>5 DEF ReceiveFinish, Ring!HandleFinish

\* Where the messages are after a step, and where they go.
LEMMA NextPlaces ==
  ASSUME FlowInv, [Next]_vars
  PROVE  Backwards /\ Onwards
  <1>1. CASE \/ UNCHANGED vars
             \/ \E p \in Procs : Ring!Notify(p) /\ UNCHANGED routingVars
    <2>1. UNCHANGED <<wire, handling>>
      BY <1>1 DEF vars, Ring!vars, routingVars, Ring!Notify
    <2>2. \A q \in Procs : \A k \in Nat : Announced(q, k)' => Announced(q, k)
      <3>1. CASE UNCHANGED vars
        BY <3>1 DEF vars, Ring!vars, Announced
      <3>2. ASSUME NEW p \in Procs, Ring!Notify(p)
            PROVE  \A q \in Procs : \A k \in Nat :
                     Announced(q, k)' => Announced(q, k)
        BY <3>2 DEF FlowInv, ControlInv, ControlType, Ring!Notify, Announced,
                    Ring!None
      <3> QED
        BY <1>1, <3>1, <3>2
    <2> QED
      BY <2>1, <2>2, QuietPlaces DEF FlowInv
  <1>2. ASSUME NEW p \in Procs, Receive(p) PROVE Backwards /\ Onwards
    <2>1. \A q \in Procs : \A k \in Nat : Announced(q, k)' => Announced(q, k)
      BY <1>2, ReceiveReads DEF Announced
    <2> QED
      BY <1>2, <2>1, ReceiveReads, ReadPlaces DEF FlowInv
  <1>3. ASSUME NEW p \in Procs,
               Calculate(p) \/ Synchronise(p) \/ ReceiveFinish(p) \/ Forward(p)
        PROVE  Backwards /\ Onwards
    BY <1>3, CalculatePlaces, SynchronisePlaces, ReceiveFinishPlaces,
       ForwardPlaces
  <1> QED
    BY <1>1, <1>2, <1>3 DEF Next, Serve, Receive

\* An order that is picked up is not one of the instance's parts.
LEMMA PickedUpOrder ==
  ASSUME NEW t \in Procs, Receive(t), GoOn(t), handling[t] = None,
         FlowInv, wire[t] # << >>, IsOrder(At(t, 1))
  PROVE  At(t, 1).order.lPartkey \notin Parts[t]
  <1>1. PICK S : wire \in [Procs -> Seq(S)] /\ handling \in [Procs -> Held(S)]
    BY DEF FlowInv, Streams
  <1>2. At(t, 1) = Head(wire[t])
    BY <1>1, TailElements DEF At
  <1>3. handling'[t] # handling[t]
    BY <1>1, <1>2 DEF GoOn, IsOrder, None
  <1> QED
    BY <1>2, <1>3
       DEF Receive, ReceiveOrder, ReceiveTotalData, ReceiveUnderSale, Reads,
           IsOrder

LEMMA NextPlaced ==
  ASSUME FlowInv, [Next]_vars
  PROVE  OrdersPlaced'
  <1> SUFFICES ASSUME NEW t \in Procs, NEW i \in 0..Len(wire'[t]),
                      IsOrder(At(t, i)')
               PROVE  \E q \in Procs : Placed(At(t, i), q, t, i)'
    BY DEF OrdersPlaced, IsOrder
  <1>1. PICK m : m = At(t, i)' /\ IsOrder(m)
    OBVIOUS
  <1>2. IsData(m) /\ Phase(m) = 0
    BY <1>1 DEF IsOrder, IsData, Phase
  <1>3. \A s \in Procs : Len(wire[s]) \in Nat
    BY LenProperties DEF FlowInv, Streams
  <1>4. i \in Nat
    BY NextStreams, LenProperties DEF Streams
  <1>5. CASE Fresh(t, i)
    <2>1. PICK p \in Procs :
            /\ t = Down(p) /\ i = Len(wire[t]) + 1
            /\ SendsOwn(p, m) /\ OnTrack(0, p, t, i)'
      BY <1>1, <1>2, <1>5 DEF Fresh
    <2>2. m.order.lPartkey \notin Parts[p]
      <3>1. m.head # "totalData" /\ m.head # "underSale"
        BY <1>1 DEF IsOrder
      <3>2. CASE SolveOrder(p) /\ m.order.lPartkey \notin Parts[p]
        BY <3>2
      <3>3. CASE m = [head |-> "totalData", from |-> p, sales |-> localSales[p],
                      parts |-> Cardinality(DOMAIN saleCount[p])]
        BY <3>1, <3>3
      <3>4. CASE \E k : m = [head |-> "underSale",
                             part |-> [id |-> k, saleCount |-> saleCount[p][k]]]
        BY <3>1, <3>4
      <3> QED
        BY <2>1, <3>2, <3>3, <3>4 DEF SendsOwn
    <2>3. Hops(p, t) = 1 /\ \A u \in Procs : Hops(p, u) \in 1..N
      BY <2>1, RingArithmetic
    <2>4. i # 0
      BY <1>3, <2>1
    <2>5. \A u \in Procs : Coming(p, u, t, i)
      BY <2>3, <2>4, NAssumption DEF Coming
    <2>6. Placed(At(t, i), p, t, i)'
      BY <1>1, <2>1, <2>2, <2>5 DEF Placed
    <2> QED
      BY <2>6
  <1>6. ASSUME NEW s \in Procs, NEW j \in 0..Len(wire[s]), Goes(s, j, t, i)
        PROVE  \E q \in Procs : Placed(At(t, i), q, t, i)'
    <2>1. At(s, j) = m /\ j \in Nat
      BY <1>1, <1>3, <1>6 DEF Goes
    <2>2. PICK q \in Procs : Placed(m, q, s, j)
      BY <1>1, <2>1 DEF FlowInv, OrdersPlaced
    <2>3. /\ \A u \in Procs : m.order.lPartkey \in Parts[u] =>
               u # q /\ Coming(q, u, s, j)
          /\ OnTrack(0, q, s, j)
      BY <2>2 DEF Placed
    <2>4. t # s => s # q
      <3> SUFFICES ASSUME t # s PROVE s # q
        OBVIOUS
      <3>1. j = 0
        BY <1>6 DEF Goes
      <3>2. handling[s] # None /\ m = handling[s]
        BY <1>1, <2>1, <3>1 DEF At, IsOrder, None
      <3>3. m.order.lPartkey \in SoldParts
        BY <1>1, <3>2, HandType DEF FlowInv, Sound, RealOrder
      <3>4. PICK u \in Procs : m.order.lPartkey \in Parts[u]
        BY <3>3, SoldSomewhere
      <3>5. Hops(q, s) < Hops(q, u)
        BY <2>3, <3>1, <3>4 DEF Coming
      <3>6. Hops(q, s) \in 1..N /\ Hops(q, u) \in 1..N
        BY RingArithmetic
      <3>7. Hops(q, s) # N
        BY <3>5, <3>6, NAssumption
      <3> QED
        BY <3>7, RingArithmetic
    <2>5. OnTrack(0, q, t, i)'
      BY <1>6, <2>3, <2>4 DEF Goes, Kept
    <2>6. ASSUME NEW u \in Procs, m.order.lPartkey \in Parts[u]
          PROVE  u # q /\ Coming(q, u, t, i)
      <3>1. u # q /\ Coming(q, u, s, j)
        BY <2>3, <2>6
      <3>2. ~ (t = s /\ i = 0 /\ j = 1 /\ u = s)
        <4> SUFFICES ASSUME t = s, i = 0, j = 1, u = s PROVE FALSE
          OBVIOUS
        <4>1. Goes(t, 1, t, 0) /\ IsData(At(t, 0)') /\ IsOrder(At(t, 1))
          BY <1>1, <1>2, <1>6, <2>1
        <4>2. m.order.lPartkey \notin Parts[t]
          BY <2>1, <4>1, PickedUp, PickedUpOrder
        <4> QED
          BY <2>6, <4>2
      <3> QED
        BY <1>4, <1>6, <2>1, <2>4, <3>1, <3>2, GoesComing DEF FlowInv
    <2>7. Placed(At(t, i), q, t, i)'
      BY <1>1, <2>5, <2>6 DEF Placed
    <2> QED
      BY <2>7
  <1>7. Backwards
    BY NextPlaces
  <1>8. Fresh(t, i) \/ \E s \in Procs : \E j \in 0..Len(wire[s]) : Goes(s, j, t, i)
    BY <1>1, <1>2, <1>7 DEF Backwards
  <1> QED
    BY <1>5, <1>6, <1>8

\* A server that has an order in its hands has not closed its connection.
LEMMA ForwardSends ==
  ASSUME FlowInv, NEW p \in Procs, IsOrder(handling[p])
  PROVE  finish_index[p] = 0 /\ p \notin closed
  <1>1. PICK q \in Procs : OnTrack(0, q, p, 0)
    <2>1. 0 \in 0..Len(wire[p]) /\ IsOrder(At(p, 0))
      BY LenProperties DEF FlowInv, Streams, At
    <2> QED
      BY <2>1 DEF FlowInv, OrdersPlaced, Placed
  <1>2. ~ Announced(p, 0)
    <2>1. Hops(q, p) \in Nat
      BY RingArithmetic, NAssumption
    <2> QED
      BY <1>1, <2>1 DEF OnTrack
  <1>3. finish_index[p] = 0
    BY <1>2 DEF FlowInv, ControlInv, ControlType, LeftAnnounced, Announced
  <1> QED
    BY <1>3 DEF FlowInv, ControlInv, ClosedLast

-------------------------------------------------------------------------------
(***************************************************************************)
(* The orders in the loop, the counts and the sums.                        *)
(***************************************************************************)

\* No order is solved, and no instance goes into the barrier before its time.
LEMMA OrdersQuiet ==
  ASSUME OrdersInv, UNCHANGED orders,
         \A p \in Procs : finish_index[p] = 0 /\ pc[p] = "run" =>
           \/ finish_index'[p] = 0 /\ pc'[p] = "run"
           \/ orders[p] = << >>
  PROVE  OrdersInv'
  BY DEF OrdersInv

LEMMA NextOrders ==
  ASSUME FlowInv, [Next]_vars
  PROVE  OrdersInv'
  <1>1. OrdersInv /\ ControlType
    BY DEF FlowInv, ControlInv
  <1>2. CASE UNCHANGED vars
    <2>1. UNCHANGED <<orders, pc, finish_index>>
      BY <1>2 DEF vars, routingVars, Ring!vars
    <2> QED
      BY <1>1, <2>1, OrdersQuiet
  <1>3. ASSUME NEW p \in Procs, SolveOrder(p) PROVE OrdersInv'
    <2>1. /\ orders[p] # << >> /\ orders' = [orders EXCEPT ![p] = Tail(@)]
          /\ finish_index[p] = 0 /\ pc[p] = "run"
          /\ UNCHANGED <<pc, finish_index>>
      BY <1>3 DEF SolveOrder, InPhase, mainVars
    <2>2. Tail(orders[p]) \in Seq(RealOrder)
      BY <1>1, <2>1, TailElements DEF OrdersInv
    <2> QED
      BY <1>1, <2>1, <2>2 DEF OrdersInv
  <1>4. ASSUME NEW p \in Procs, Calculate(p), ~ SolveOrder(p) PROVE OrdersInv'
    <2>1. UNCHANGED <<orders, pc, finish_index>>
      BY <1>4 DEF Calculate, AddLocalTotals, SendTotalData, ReadAverage,
                  SendUnderSale, Close, mainVars
    <2> QED
      BY <1>1, <2>1, OrdersQuiet
  <1>5. ASSUME NEW p \in Procs, Synchronise(p) PROVE OrdersInv'
    <2>1. CASE EnterBarrier(p)
      <3>1. /\ finish_index[p] = 0 => orders[p] = << >>
            /\ UNCHANGED <<orders, finish_index>>
            /\ pc' = [pc EXCEPT ![p] = "entered"]
        BY <2>1 DEF EnterBarrier, PhaseDone, Ring!EnterBarrier, routingVars
      <3> QED
        BY <1>1, <3>1, OrdersQuiet DEF ControlType
    <2>2. CASE ~ EnterBarrier(p)
      <3>1. /\ UNCHANGED orders /\ pc[p] # "run"
            /\ finish_index' = finish_index
                 \/ finish_index' = [finish_index EXCEPT ![p] = @ + 1]
            /\ \E x : pc' = [pc EXCEPT ![p] = x]
        BY <1>5, <2>2
           DEF Synchronise, LeaveBarrier, Ring!LeaveBarrier, Ring!SendFinish,
               Ring!Wait, routingVars
      <3> QED
        BY <1>1, <3>1, OrdersQuiet DEF ControlType
    <2> QED
      BY <2>1, <2>2
  <1>6. ASSUME NEW p \in Procs, Serve(p) PROVE OrdersInv'
    <2>1. /\ UNCHANGED <<orders, finish_index>>
          /\ UNCHANGED pc \/ (pc[p] = "wait" /\ \E x : pc' = [pc EXCEPT ![p] = x])
      BY <1>6 DEF Serve, ReceiveFinish, ReceiveOrder, ReceiveTotalData,
                  ReceiveUnderSale, Forward, Ring!HandleFinish, Ring!DropToken,
                  Ring!PassToken, Ring!CompleteToken, Ring!Notify, mainVars,
                  Ring!mainVars, routingVars
    <2> QED
      BY <1>1, <2>1, OrdersQuiet DEF ControlType
  <1> QED
    BY <1>2, <1>3, <1>4, <1>5, <1>6 DEF Next

\* An order is counted.
LEMMA CountCounts ==
  ASSUME CountsInv, NEW p \in Procs, NEW o \in RealOrder,
         o.lPartkey \in Parts[p], Count(p, o),
         UNCHANGED <<announce, totalVars, avg, underSale>>
  PROVE  CountsInv'
  <1>1. o \in OrderType /\ o.lPartkey \in SoldParts /\ o.lQuantity \in Nat
    BY DEF RealOrder, OrderType
  <1>2. /\ saleCount' = [saleCount EXCEPT ![p] = Added(@, o)]
        /\ localSales' = [localSales EXCEPT ![p] = @ + o.lQuantity]
    BY DEF Count
  <1>3. saleCount = [q \in Procs |-> saleCount[q]] /\ Counts(p)
    BY DEF CountsInv
  <1>4. /\ saleCount'[p] = Added(saleCount[p], o)
        /\ \A q \in Procs \ {p} : saleCount'[q] = saleCount[q]
        /\ saleCount' = [q \in Procs |-> saleCount'[q]]
    BY <1>2, <1>3
  <1>5. Counts(p)'
    <2>1. PICK D, f : D = DOMAIN saleCount[p] /\ f = saleCount[p]
      OBVIOUS
    <2>3. f \in [D -> Nat]
      BY <1>3, <2>1 DEF Counts
    <2>4. /\ DOMAIN Added(f, o) = D \cup {o.lPartkey}
          /\ Added(f, o) \in [D \cup {o.lPartkey} -> Nat]
      BY <1>1, <2>3 DEF Added
    <2>2. /\ DOMAIN saleCount'[p] = DOMAIN saleCount[p] \cup {o.lPartkey}
          /\ saleCount'[p] \in [DOMAIN saleCount[p] \cup {o.lPartkey} -> Nat]
      BY <1>4, <2>1, <2>4
    <2> QED
      BY <1>1, <1>3, <2>2 DEF Counts
  <1>6. \A q \in Procs : Counts(q)'
    BY <1>4, <1>5 DEF CountsInv, Counts
  <1>7. localSales' \in [Procs -> Nat]
    BY <1>1, <1>2 DEF CountsInv
  <1> QED
    BY <1>4, <1>6, <1>7 DEF CountsInv, totalVars

\* An order that is counted leaves the rest alone.
LEMMA CountsQuiet ==
  ASSUME CountsInv, UNCHANGED <<sumVars, totalVars, avg, listVars>>
  PROVE  CountsInv'
  BY DEF CountsInv, Counts, sumVars, totalVars, listVars

\* What the main thread calculates.
LEMMA CalculateCounts ==
  ASSUME FlowInv, NEW p \in Procs, Calculate(p)
  PROVE  CountsInv'
  <1>1. CountsInv /\ OrdersInv
    BY DEF FlowInv
  <1>2. CASE SolveOrder(p)
    <2>1. Head(orders[p]) \in RealOrder
      BY <1>1, <1>2, TailElements DEF SolveOrder, OrdersInv
    <2>2. UNCHANGED <<totalVars, avg, announce, underSale>>
      BY <1>2 DEF SolveOrder, listVars
    <2>3. CASE UNCHANGED sumVars
      BY <1>1, <2>2, <2>3, CountsQuiet DEF listVars
    <2>4. CASE /\ Head(orders[p]).lPartkey \in Parts[p]
               /\ Count(p, Head(orders[p]))
      BY <1>1, <2>1, <2>2, <2>4, CountCounts
    <2> QED
      BY <1>2, <2>3, <2>4 DEF SolveOrder
  <1>3. CASE AddLocalTotals(p)
    <2>1. Cardinality(DOMAIN saleCount[p]) \in Nat
      BY <1>1, CountsFinite
    <2>2. partCount' \in [Procs -> Nat] /\ totalSales' \in [Procs -> Nat]
      BY <1>1, <1>3, <2>1 DEF AddLocalTotals, CountsInv
    <2>3. UNCHANGED <<sumVars, avg, listVars>>
      BY <1>3 DEF AddLocalTotals
    <2> QED
      BY <1>1, <2>2, <2>3 DEF CountsInv, Counts, sumVars, listVars
  <1>4. CASE ReadAverage(p)
    <2>1. UNCHANGED <<sumVars, totalVars, underSale>>
      BY <1>4 DEF ReadAverage
    <2>2. avg' \in [Procs -> Nat \X Nat]
      BY <1>1, <1>4 DEF ReadAverage, CountsInv
    <2>3. /\ announce'[p] \subseteq DOMAIN saleCount[p]
          /\ \A q \in Procs \ {p} : announce'[q] = announce[q]
          /\ announce' = [q \in Procs |-> announce'[q]]
      BY <1>1, <1>4 DEF ReadAverage, CountsInv
    <2>4. \A q \in Procs : Counts(q)'
      BY <1>1, <2>1, <2>3 DEF CountsInv, Counts, sumVars
    <2> QED
      BY <1>1, <2>1, <2>2, <2>3, <2>4 DEF CountsInv, sumVars, totalVars
  <1>5. CASE SendUnderSale(p)
    <2>1. UNCHANGED <<sumVars, totalVars, avg, underSale>>
      BY <1>5 DEF SendUnderSale
    <2>2. /\ announce'[p] \subseteq announce[p]
          /\ \A q \in Procs \ {p} : announce'[q] = announce[q]
          /\ announce' = [q \in Procs |-> announce'[q]]
      BY <1>1, <1>5 DEF SendUnderSale, CountsInv
    <2>3. \A q \in Procs : Counts(q)'
      BY <1>1, <2>1, <2>2 DEF CountsInv, Counts, sumVars
    <2> QED
      BY <1>1, <2>1, <2>2, <2>3 DEF CountsInv, sumVars, totalVars
  <1>6. CASE SendTotalData(p) \/ Close(p)
    BY <1>1, <1>6, CountsQuiet DEF SendTotalData, Close
  <1> QED
    BY <1>2, <1>3, <1>4, <1>5, <1>6 DEF Calculate

\* What the server thread reads.
LEMMA ReceiveCounts ==
  ASSUME FlowInv, NEW p \in Procs, Receive(p)
  PROVE  CountsInv'
  <1>1. CountsInv /\ Streams
    BY DEF FlowInv
  <1>2. PICK m : m = Head(wire[p])
    OBVIOUS
  <1>3. Sound(m)
    BY <1>1, <1>2, HeadSound
       DEF Receive, ReceiveOrder, ReceiveTotalData, ReceiveUnderSale, Reads,
           Ring!Receives
  <1>4. CASE ReceiveOrder(p)
    <2>1. m.head = "order" /\ UNCHANGED <<totalVars, avg, announce, underSale>>
      BY <1>2, <1>4 DEF ReceiveOrder, Reads, listVars
    <2>2. m.order \in RealOrder
      BY <1>3, <2>1 DEF Sound, IsOrder
    <2>3. CASE UNCHANGED sumVars
      BY <1>1, <2>1, <2>3, CountsQuiet DEF listVars
    <2>4. CASE m.order.lPartkey \in Parts[p] /\ Count(p, m.order)
      BY <1>1, <2>1, <2>2, <2>4, CountCounts
    <2> QED
      BY <1>2, <1>4, <2>3, <2>4 DEF ReceiveOrder
  <1>5. CASE ReceiveTotalData(p)
    <2>1. m.head = "totalData" /\ UNCHANGED <<sumVars, avg, listVars>>
      BY <1>2, <1>5 DEF ReceiveTotalData, Reads
    <2>2. m.parts \in Nat /\ m.sales \in Nat
      BY <1>3, <2>1 DEF Sound, Message
    <2>3. CASE UNCHANGED totalVars
      BY <1>1, <2>1, <2>3, CountsQuiet
    <2>4. CASE /\ partCount' = [partCount EXCEPT ![p] = @ + m.parts]
               /\ totalSales' = [totalSales EXCEPT ![p] = @ + m.sales]
      BY <1>1, <2>1, <2>2, <2>4 DEF CountsInv, Counts, sumVars, listVars
    <2> QED
      BY <1>2, <1>5, <2>3, <2>4 DEF ReceiveTotalData
  <1>6. CASE ReceiveUnderSale(p)
    <2>1. /\ m.head = "underSale"
          /\ UNCHANGED <<sumVars, totalVars, avg, announce>>
      BY <1>2, <1>6 DEF ReceiveUnderSale, Reads
    <2>2. m.part \in PartType
      BY <1>3, <2>1 DEF Sound, Message
    <2>3. CASE UNCHANGED underSale
      BY <1>1, <2>1, <2>3, CountsQuiet DEF listVars
    <2>4. CASE underSale' = [underSale EXCEPT ![p] = @ \cup {m.part}]
      <3>1. underSale' \in [Procs -> SUBSET PartType]
        BY <1>1, <2>2, <2>4 DEF CountsInv
      <3> QED
        BY <1>1, <2>1, <3>1 DEF CountsInv, Counts, sumVars, totalVars
    <2> QED
      BY <1>2, <1>6, <2>3, <2>4 DEF ReceiveUnderSale
  <1> QED
    BY <1>4, <1>5, <1>6 DEF Receive

LEMMA NextCounts ==
  ASSUME FlowInv, [Next]_vars
  PROVE  CountsInv'
  <1>1. ASSUME UNCHANGED <<sumVars, totalVars, avg, listVars>>
        PROVE  CountsInv'
    BY <1>1, CountsQuiet DEF FlowInv
  <1>2. CASE UNCHANGED vars
    BY <1>1, <1>2 DEF vars, routingVars
  <1>3. ASSUME NEW p \in Procs, Synchronise(p) PROVE CountsInv'
    BY <1>1, <1>3 DEF Synchronise, EnterBarrier, LeaveBarrier, routingVars
  <1>4. ASSUME NEW p \in Procs,
               \/ ReceiveFinish(p) \/ Forward(p)
               \/ Ring!Notify(p) /\ UNCHANGED routingVars
        PROVE  CountsInv'
    BY <1>1, <1>4 DEF ReceiveFinish, Forward, routingVars
  <1> QED
    BY <1>2, <1>3, <1>4, CalculateCounts, ReceiveCounts
       DEF Next, Serve, Receive

-------------------------------------------------------------------------------
(***************************************************************************)
(* The flow of orders in all reachable states.                             *)
(***************************************************************************)

\* The orders an instance starts with are real.
LEMMA OwnOrders ==
  ASSUME NEW p \in Procs
  PROVE  Orders[p] \in Seq(RealOrder)
  <1>1. Orders[p] \in Seq(OrderType)
    BY OrdersAssumption
  <1>2. DOMAIN Orders[p] = 1..Len(Orders[p]) /\ Len(Orders[p]) \in Nat
    BY <1>1, LenProperties
  <1>3. \A i \in 1..Len(Orders[p]) : Orders[p][i] \in RealOrder
    <2> SUFFICES ASSUME NEW i \in 1..Len(Orders[p])
                 PROVE  Orders[p][i] \in RealOrder
      OBVIOUS
    <2>1. Orders[p][i] \in OrderType
      BY <1>1, ElementOfSeq
    <2>2. Orders[p][i].lPartkey \in SoldParts
      BY <1>2 DEF SoldParts, KeysOf
    <2> QED
      BY <2>1, <2>2 DEF RealOrder
  <1>4. Orders[p] = [i \in 1..Len(Orders[p]) |-> Orders[p][i]]
    BY <1>1, <1>2
  <1> QED
    BY <1>2, <1>3, <1>4

LEMMA InitFlow == Init => FlowInv
  <1> SUFFICES ASSUME Init PROVE FlowInv
    OBVIOUS
  <1> USE DEF Init, Ring!Init, Procs
  <1>1. ControlInv
    <2>1. ControlType
      BY DEF ControlType
    <2>2. FinishedIsPrefix /\ LeftAnnounced /\ ClosedLast
      BY DEF FinishedIsPrefix, Ring!Inside, LeftAnnounced, ClosedLast
    <2>3. AnnouncedByAll /\ WakeIsCurrent
      BY DEF AnnouncedByAll, Announced, WakeIsCurrent, Ring!None
    <2> QED
      BY <2>1, <2>2, <2>3 DEF ControlInv
  <1>2. Streams
    <2>1. << >> \in Seq({})
      BY EmptySeq
    <2>2. wire \in [Procs -> Seq({})] /\ handling \in [Procs -> Held({})]
      BY <2>1 DEF Held
    <2> QED
      BY <2>2 DEF Streams
  <1>3. OrdersPlaced
    <2>1. \A p \in Procs : Len(wire[p]) = 0 /\ handling[p] = None
      BY EmptySeq
    <2>2. \A p \in Procs : \A i \in 0..Len(wire[p]) : At(p, i) = None
      BY <2>1 DEF At
    <2> QED
      BY <2>2 DEF OrdersPlaced, IsOrder, None
  <1>4. CountsInv
    <2>1. \A p \in Procs : Counts(p)
      <3>1. \A p \in Procs : /\ saleCount[p] = << >> /\ announce[p] = {}
                             /\ DOMAIN saleCount[p] = {}
        BY EmptySeq
      <3>2. << >> \in [{} -> Nat]
        OBVIOUS
      <3> QED
        BY <3>1, <3>2 DEF Counts
    <2> QED
      BY <2>1 DEF CountsInv
  <1>5. OrdersInv
    <2>1. orders = Orders /\ Orders \in [Procs -> Seq(OrderType)]
      BY OrdersAssumption
    <2>2. orders \in [Procs -> Seq(RealOrder)]
      BY <2>1, OwnOrders
    <2>3. \A p \in Procs : finish_index[p] = 0 /\ pc[p] = "run"
      OBVIOUS
    <2> QED
      BY <2>2, <2>3 DEF OrdersInv
  <1> QED
    BY <1>1, <1>2, <1>3, <1>4, <1>5 DEF FlowInv

LEMMA NextFlow == FlowInv /\ [Next]_vars => FlowInv'
  <1> SUFFICES ASSUME FlowInv, [Next]_vars PROVE FlowInv'
    OBVIOUS
  <1>1. ControlInv'
    BY NextControl DEF FlowInv
  <1> QED
    BY <1>1, NextOrders, NextCounts, NextStreams, NextPlaced DEF FlowInv

\* Every variable has its type: messages, counts, sums and the lists.
THEOREM TypeCorrect == Spec => []TypeOK
  <1>1. FlowInv => TypeOK
    <2> SUFFICES ASSUME FlowInv PROVE TypeOK
      OBVIOUS
    <2>1. ControlInv /\ OrdersInv /\ CountsInv /\ Streams
      BY DEF FlowInv
    <2>2. PICK S : /\ wire \in [Procs -> Seq(S)]
                   /\ handling \in [Procs -> Held(S)]
                   /\ \A m \in S : Sound(m)
      BY <2>1 DEF Streams
    <2>3. S \subseteq Message
      BY <2>2 DEF Sound
    <2>4. ASSUME NEW p \in Procs
          PROVE  /\ \A i \in DOMAIN wire[p] : wire[p][i] \in Message
                 /\ \A i \in DOMAIN orders[p] : orders[p][i] \in OrderType
      <3>1. wire[p] \in Seq(S) /\ orders[p] \in Seq(RealOrder)
        BY <2>1, <2>2 DEF OrdersInv
      <3>2. /\ \A i \in DOMAIN wire[p] : wire[p][i] \in S
            /\ \A i \in DOMAIN orders[p] : orders[p][i] \in RealOrder
        BY <3>1, ElementOfSeq, LenProperties
      <3> QED
        BY <2>3, <3>2 DEF RealOrder
    <2>5. ASSUME NEW p \in Procs
          PROVE  /\ DOMAIN saleCount[p] \subseteq Parts[p]
                 /\ \A k \in DOMAIN saleCount[p] : saleCount[p][k] \in Nat
                 /\ announce[p] \subseteq DOMAIN saleCount[p]
                 /\ avg[p] \in Nat \X Nat
      BY <2>1 DEF CountsInv, Counts
    <2>6. handling \in [Procs -> {None} \cup Message]
      BY <2>2, <2>3 DEF Held
    <2>7. step \in [Procs -> 0..2] /\ closed \subseteq Procs
      BY <2>1 DEF ControlInv, ControlType, ClosedLast
    <2> QED
      BY <2>1, <2>4, <2>5, <2>6, <2>7 DEF TypeOK, CountsInv
  <1> QED
    BY <1>1, InitFlow, NextFlow, PTL DEF Spec

-------------------------------------------------------------------------------
(***************************************************************************)
(* Quantities on their way.                                                *)
(***************************************************************************)

\* The real messages carry natural numbers.
LEMMA SoundAmount ==
  ASSUME NEW k, NEW m, Sound(m)
  PROVE  Amount(k, m) \in Nat
  BY DEF Sound, Amount, Carries, RealOrder, OrderType

LEMMA ShareType ==
  ASSUME NEW k, NEW o \in RealOrder
  PROVE  Share(k, o) \in Nat
  BY DEF Share, RealOrder, OrderType

\* A stream that gets longer, and one that is read.
LEMMA WireAppend ==
  ASSUME NEW k, NEW S, \A m \in S : Amount(k, m) \in Nat,
         NEW w \in Seq(S), NEW e, Amount(k, e) \in Nat
  PROVE  /\ OnWire(k, Append(w, e)) = OnWire(k, w) + Amount(k, e)
         /\ InStream(k, w) \/ Carries(k, e) => InStream(k, Append(w, e))
  <1> DEFINE T == S \cup {e}
             F == [m \in T |-> Amount(k, m)]
             t == Append(w, e)
  <1>1. F \in [T -> Int] /\ e \in T
    OBVIOUS
  <1>2. w \in Seq(T)
    BY SeqMonotonic
  <1>3. /\ t \in Seq(T) /\ Len(w) \in Nat /\ Len(t) = Len(w) + 1
        /\ \A i \in 1..Len(w) : t[i] = w[i]
        /\ t[Len(w) + 1] = e
    BY AppendElements
  <1>4. DOMAIN w = 1..Len(w) /\ DOMAIN t = 1..(Len(w) + 1)
    BY <1>3, LenProperties
  <1> HIDE DEF t
  <1>5. /\ \A i \in DOMAIN w : w[i] \in T
        /\ \A i \in DOMAIN t : t[i] \in T
    BY <1>2, <1>3, <1>4, ElementOfSeq
  <1>6. /\ OnWire(k, w) = Total([i \in DOMAIN w |-> F[w[i]]])
        /\ OnWire(k, t) = Total([i \in DOMAIN t |-> F[t[i]]])
        /\ Amount(k, e) = F[e]
    <2>1. /\ [i \in DOMAIN w |-> Amount(k, w[i])] = [i \in DOMAIN w |-> F[w[i]]]
          /\ [i \in DOMAIN t |-> Amount(k, t[i])] = [i \in DOMAIN t |-> F[t[i]]]
      BY <1>5
    <2> QED
      BY <2>1 DEF OnWire
  <1>7. InStream(k, w) \/ Carries(k, e) => InStream(k, t)
    BY <1>3, <1>4 DEF InStream
  <1> HIDE DEF F, T
  <1>8. OnWire(k, t) = OnWire(k, w) + Amount(k, e)
    <2>1. Total([i \in DOMAIN Append(w, e) |-> F[Append(w, e)[i]]])
            = Total([i \in DOMAIN w |-> F[w[i]]]) + F[e]
      BY <1>1, <1>2, TotalMapAppend
    <2> QED
      BY <1>6, <2>1 DEF t
  <1> QED
    BY <1>7, <1>8 DEF t

LEMMA CountedSame ==
  ASSUME UNCHANGED sumVars
  PROVE  UNCHANGED saleCount /\ \A k, q : Counted(k, q)' = Counted(k, q)
  BY DEF sumVars, Counted

LEMMA WireTail ==
  ASSUME NEW k, NEW S, \A m \in S : Amount(k, m) \in Nat,
         NEW w \in Seq(S), w # << >>
  PROVE  /\ OnWire(k, Tail(w)) = OnWire(k, w) - Amount(k, Head(w))
         /\ InStream(k, w) => Carries(k, Head(w)) \/ InStream(k, Tail(w))
  <1> DEFINE F == [m \in S |-> Amount(k, m)]
             t == Tail(w)
  <1>1. F \in [S -> Int]
    OBVIOUS
  <1>2. /\ t \in Seq(S) /\ Head(w) \in S /\ Head(w) = w[1]
        /\ Len(w) \in Nat \ {0} /\ Len(t) = Len(w) - 1
        /\ \A i \in 1..Len(t) : t[i] = w[i + 1]
    BY TailElements
  <1>3. DOMAIN w = 1..Len(w) /\ DOMAIN t = 1..Len(t)
    BY <1>2, LenProperties
  <1> HIDE DEF t
  <1>4. /\ \A i \in DOMAIN w : w[i] \in S
        /\ \A i \in DOMAIN t : t[i] \in S
    BY <1>2, <1>3, ElementOfSeq
  <1>5. /\ OnWire(k, w) = Total([i \in DOMAIN w |-> F[w[i]]])
        /\ OnWire(k, t) = Total([i \in DOMAIN t |-> F[t[i]]])
        /\ Amount(k, Head(w)) = F[Head(w)]
    <2>1. /\ [i \in DOMAIN w |-> Amount(k, w[i])] = [i \in DOMAIN w |-> F[w[i]]]
          /\ [i \in DOMAIN t |-> Amount(k, t[i])] = [i \in DOMAIN t |-> F[t[i]]]
      BY <1>4
    <2> QED
      BY <1>2, <2>1 DEF OnWire
  <1>6. InStream(k, w) => Carries(k, Head(w)) \/ InStream(k, t)
    <2> SUFFICES ASSUME NEW i \in 1..Len(w), Carries(k, w[i]), i # 1
                 PROVE  InStream(k, t)
      BY <1>2, <1>3 DEF InStream
    <2>1. i - 1 \in 1..Len(t) /\ t[i - 1] = w[(i - 1) + 1] /\ (i - 1) + 1 = i
      BY <1>2
    <2> QED
      BY <1>3, <2>1 DEF InStream
  <1> HIDE DEF F
  <1>7. OnWire(k, t) = OnWire(k, w) - Amount(k, Head(w))
    BY <1>1, <1>5, TotalMapTail DEF t
  <1> QED
    BY <1>6, <1>7 DEF t

\* The loop over the orders takes the first.
LEMMA OrdersTail ==
  ASSUME NEW k, NEW os \in Seq(RealOrder), os # << >>
  PROVE  /\ Owed(k, Tail(os)) = Owed(k, os) - Share(k, Head(os))
         /\ Among(k, os) => IsOf(k, Head(os)) \/ Among(k, Tail(os))
  <1> DEFINE F == [o \in RealOrder |-> Share(k, o)]
             t == Tail(os)
  <1>1. F \in [RealOrder -> Int]
    BY ShareType
  <1>2. /\ t \in Seq(RealOrder) /\ Head(os) \in RealOrder /\ Head(os) = os[1]
        /\ Len(os) \in Nat \ {0} /\ Len(t) = Len(os) - 1
        /\ \A i \in 1..Len(t) : t[i] = os[i + 1]
    BY TailElements
  <1>3. DOMAIN os = 1..Len(os) /\ DOMAIN t = 1..Len(t)
    BY <1>2, LenProperties
  <1> HIDE DEF t
  <1>4. /\ \A i \in DOMAIN os : os[i] \in RealOrder
        /\ \A i \in DOMAIN t : t[i] \in RealOrder
    BY <1>2, <1>3, ElementOfSeq
  <1>5. /\ Owed(k, os) = Total([i \in DOMAIN os |-> F[os[i]]])
        /\ Owed(k, t) = Total([i \in DOMAIN t |-> F[t[i]]])
        /\ Share(k, Head(os)) = F[Head(os)]
    <2>1. /\ [i \in DOMAIN os |-> Share(k, os[i])]
               = [i \in DOMAIN os |-> F[os[i]]]
          /\ [i \in DOMAIN t |-> Share(k, t[i])]
               = [i \in DOMAIN t |-> F[t[i]]]
      BY <1>4
    <2> QED
      BY <1>2, <2>1 DEF Owed
  <1>6. Among(k, os) => IsOf(k, Head(os)) \/ Among(k, t)
    <2> SUFFICES ASSUME NEW i \in 1..Len(os), IsOf(k, os[i]), i # 1
                 PROVE  Among(k, t)
      BY <1>2, <1>3 DEF Among
    <2>1. i - 1 \in 1..Len(t) /\ t[i - 1] = os[(i - 1) + 1] /\ (i - 1) + 1 = i
      BY <1>2
    <2> QED
      BY <1>3, <2>1 DEF Among
  <1> HIDE DEF F
  <1>7. Owed(k, t) = Owed(k, os) - Share(k, Head(os))
    BY <1>1, <1>5, TotalMapTail DEF t
  <1> QED
    BY <1>6, <1>7 DEF t

\* Sums over orders and streams are numbers.
LEMMA OwedType ==
  ASSUME NEW k, NEW os \in Seq(RealOrder)
  PROVE  Owed(k, os) \in Int
  <1> DEFINE a == [i \in DOMAIN os |-> Share(k, os[i])]
  <1>1. DOMAIN os = 1..Len(os) /\ Len(os) \in Nat
    BY LenProperties
  <1>2. \A i \in 1..Len(os) : os[i] \in RealOrder
    BY ElementOfSeq
  <1>3. a \in Seq(Int)
    BY <1>1, <1>2, ShareType
  <1> QED
    BY <1>3, TotalType DEF Owed

LEMMA OnWireType ==
  ASSUME NEW k, NEW S, \A m \in S : Amount(k, m) \in Nat, NEW w \in Seq(S)
  PROVE  OnWire(k, w) \in Int
  <1> DEFINE a == [i \in DOMAIN w |-> Amount(k, w[i])]
  <1>1. DOMAIN w = 1..Len(w) /\ Len(w) \in Nat
    BY LenProperties
  <1>2. \A i \in 1..Len(w) : w[i] \in S
    BY ElementOfSeq
  <1>3. a \in Seq(Int)
    BY <1>1, <1>2
  <1> QED
    BY <1>3, TotalType DEF OnWire

LEMMA LoadType ==
  ASSUME FlowInv, NEW p \in Procs, NEW k
  PROVE  /\ Counted(k, p) \in Int
         /\ Owed(k, orders[p]) \in Int
         /\ OnWire(k, wire[p]) \in Int
         /\ Amount(k, handling[p]) \in Int
         /\ Load(k, p) \in Int
  <1>1. PICK S : /\ wire \in [Procs -> Seq(S)]
                 /\ handling \in [Procs -> Held(S)]
                 /\ \A m \in S : Sound(m)
    BY DEF FlowInv, Streams
  <1>2. \A m \in S : Amount(k, m) \in Nat
    BY <1>1, SoundAmount
  <1>3. OnWire(k, wire[p]) \in Int
    BY <1>1, <1>2, OnWireType
  <1>4. Amount(k, handling[p]) \in Int
    BY <1>1, <1>2 DEF Held, Amount, Carries, IsOrder, None
  <1>5. Owed(k, orders[p]) \in Int
    BY OwedType DEF FlowInv, OrdersInv
  <1>6. Counted(k, p) \in Int
    BY DEF FlowInv, CountsInv, Counts, Counted
  <1> QED
    BY <1>3, <1>4, <1>5, <1>6 DEF Load

-------------------------------------------------------------------------------
(***************************************************************************)
(* Conservation.                                                           *)
(***************************************************************************)

\* A step may take something from p and give it to the instance down the ring.
LEMMA Moved ==
  ASSUME FlowInv, Conserved, NEW p \in Procs,
         \A k \in SoldParts \cup {All} : \E x \in Int :
           /\ Load(k, p)' = Load(k, p) - x
           /\ Load(k, Down(p))' = Load(k, Down(p)) + x
           /\ \A q \in Procs \ {p, Down(p)} : Load(k, q)' = Load(k, q),
         \A k \in SoldParts \cup {All} : \A q \in Procs :
           Found(k, q) => Found(k, q)' \/ Found(k, Down(p))'
  PROVE  Conserved'
  <1> SUFFICES ASSUME NEW k \in SoldParts \cup {All}
               PROVE  /\ Total([q \in 1..N |-> Load(k, q)'])
                           = Total([q \in 1..N |-> Owed(k, Orders[q])])
                      /\ \E q \in Procs : Found(k, q)'
    BY DEF Conserved
  <1>1. Procs = 1..N /\ N \in Nat /\ Down(p) \in Procs /\ Down(p) # p
    BY RingArithmetic, NAssumption DEF Procs, Ring!Procs
  <1>2. PICK x \in Int :
          /\ Load(k, p)' = Load(k, p) - x
          /\ Load(k, Down(p))' = Load(k, Down(p)) + x
          /\ \A q \in Procs \ {p, Down(p)} : Load(k, q)' = Load(k, q)
    OBVIOUS
  <1>3. PICK s, t : /\ s = [q \in 1..N |-> Load(k, q)]
                    /\ t = [q \in 1..N |-> Load(k, q)']
    OBVIOUS
  <1>4. \A q \in Procs : Load(k, q) \in Int
    BY LoadType
  <1>5. \A q \in Procs : Load(k, q)' \in Int
    BY <1>2, <1>4
  <1>6. s \in Seq(Int) /\ Len(s) = N /\ t \in Seq(Int) /\ Len(t) = N
    BY <1>1, <1>3, <1>4, <1>5
  <1>7. /\ t[p] = s[p] - x /\ t[Down(p)] = s[Down(p)] + x
        /\ \A q \in 1..N : q # p /\ q # Down(p) => t[q] = s[q]
    BY <1>1, <1>2, <1>3
  <1>8. Total(t) = Total(s)
    <2>1. PICK d : d = Down(p)
      OBVIOUS
    <2>2. p \in 1..Len(s) /\ d \in 1..Len(s) /\ p # d
      BY <1>1, <1>6, <2>1
    <2>3. \A q \in 1..Len(s) : q # p /\ q # d => t[q] = s[q]
      BY <1>6, <1>7, <2>1
    <2>4. Total(t) = (Total(s) - s[p] + t[p]) - s[d] + t[d]
      BY <1>6, <2>2, <2>3, TotalMoved
    <2>5. /\ t[p] = s[p] - x /\ t[d] = s[d] + x
          /\ s[p] \in Int /\ s[d] \in Int /\ x \in Int /\ Total(s) \in Int
      BY <1>2, <1>6, <1>7, <2>1, <2>2, ElementOfSeq, TotalType
    <2> QED
      BY <2>4, <2>5
  <1>9. Total(s) = Total([q \in 1..N |-> Owed(k, Orders[q])])
    BY <1>3 DEF Conserved
  <1>10. \E q \in Procs : Found(k, q)'
    BY <1>1 DEF Conserved
  <1> QED
    BY <1>3, <1>8, <1>9, <1>10

\* Nothing is moved.
LEMMA Unmoved ==
  ASSUME FlowInv, Conserved,
         \A k \in SoldParts \cup {All} : \A q \in Procs :
           Load(k, q)' = Load(k, q) /\ (Found(k, q) => Found(k, q)')
  PROVE  Conserved'
  <1>1. PICK p \in Procs : p = 1
    BY NAssumption DEF Procs, Ring!Procs
  <1>2. Down(p) \in Procs
    BY RingArithmetic
  <1>3. ASSUME NEW k \in SoldParts \cup {All}
        PROVE  \E x \in Int :
                 /\ Load(k, p)' = Load(k, p) - x
                 /\ Load(k, Down(p))' = Load(k, Down(p)) + x
                 /\ \A q \in Procs \ {p, Down(p)} : Load(k, q)' = Load(k, q)
    <2>1. Load(k, p) \in Int /\ Load(k, Down(p)) \in Int
      BY <1>2, LoadType
    <2>2. /\ Load(k, p)' = Load(k, p) - 0
          /\ Load(k, Down(p))' = Load(k, Down(p)) + 0
      BY <1>2, <2>1
    <2> QED
      BY <2>2
  <1> QED
    BY <1>3, Moved

\* What happens at an instance where no order comes, goes or is counted.
LEMMA LoadSame ==
  ASSUME FlowInv, NEW k, NEW q \in Procs,
         UNCHANGED sumVars, orders'[q] = orders[q],
         \/ handling'[q] = handling[q]
         \/ ~ IsOrder(handling[q]) /\ ~ IsOrder(handling'[q]),
         \/ wire'[q] = wire[q]
         \/ \E e : ~ IsOrder(e) /\ wire'[q] = Append(wire[q], e)
         \/ /\ wire[q] # << >> /\ ~ IsOrder(Head(wire[q]))
            /\ wire'[q] = Tail(wire[q])
  PROVE  Load(k, q)' = Load(k, q) /\ (Found(k, q) => Found(k, q)')
  <1>1. PICK S : wire \in [Procs -> Seq(S)] /\ \A m \in S : Sound(m)
    BY DEF FlowInv, Streams
  <1>2. wire[q] \in Seq(S) /\ \A m \in S : Amount(k, m) \in Nat
    BY <1>1, SoundAmount
  <1>3. \A m : ~ IsOrder(m) => Amount(k, m) = 0 /\ ~ Carries(k, m)
    BY DEF Amount, Carries
  <1>4. OnWire(k, wire[q]) \in Int
    BY LoadType
  <1>5. /\ OnWire(k, wire'[q]) = OnWire(k, wire[q])
        /\ InStream(k, wire[q]) => InStream(k, wire'[q])
    <2>1. ASSUME NEW e, ~ IsOrder(e), wire'[q] = Append(wire[q], e)
          PROVE  /\ OnWire(k, wire'[q]) = OnWire(k, wire[q])
                 /\ InStream(k, wire[q]) => InStream(k, wire'[q])
      <3>1. Amount(k, e) = 0 /\ Amount(k, e) \in Nat
        BY <1>3, <2>1
      <3>2. OnWire(k, wire'[q]) = OnWire(k, wire[q]) + Amount(k, e)
        BY <1>2, <2>1, <3>1, WireAppend
      <3>3. InStream(k, wire[q]) => InStream(k, wire'[q])
        BY <1>2, <2>1, <3>1, WireAppend
      <3> QED
        BY <1>4, <3>1, <3>2, <3>3
    <2>2. CASE /\ wire[q] # << >> /\ ~ IsOrder(Head(wire[q]))
               /\ wire'[q] = Tail(wire[q])
      <3>1. Amount(k, Head(wire[q])) = 0 /\ ~ Carries(k, Head(wire[q]))
        BY <1>3, <2>2
      <3>2. OnWire(k, wire'[q]) = OnWire(k, wire[q]) - Amount(k, Head(wire[q]))
        BY <1>2, <2>2, WireTail
      <3>3. InStream(k, wire[q]) => InStream(k, wire'[q])
        BY <1>2, <2>2, <3>1, WireTail
      <3> QED
        BY <1>4, <3>1, <3>2, <3>3
    <2> QED
      BY <2>1, <2>2
  <1>6. /\ Amount(k, handling'[q]) = Amount(k, handling[q])
        /\ Carries(k, handling[q]) => Carries(k, handling'[q])
    BY <1>3
  <1>7. Load(k, q)' = Load(k, q)
    BY <1>5, <1>6, CountedSame DEF Load
  <1>8. Found(k, q) => Found(k, q)'
    BY <1>5, <1>6, CountedSame DEF Found
  <1> QED
    BY <1>7, <1>8

\* An instance counts an order.
LEMMA CountedAdded ==
  ASSUME CountsInv, NEW p \in Procs, NEW o \in RealOrder, Count(p, o),
         NEW k \in SoldParts \cup {All}
  PROVE  /\ Counted(k, p)' = Counted(k, p) + Share(k, o)
         /\ \A q \in Procs \ {p} : Counted(k, q)' = Counted(k, q)
         /\ k \in DOMAIN saleCount[p] \cup {All} \/ IsOf(k, o) =>
              k \in DOMAIN saleCount'[p] \cup {All}
         /\ \A q \in Procs \ {p} : saleCount'[q] = saleCount[q]
  <1>1. saleCount = [q \in Procs |-> saleCount[q]] /\ localSales \in [Procs -> Nat]
    BY DEF CountsInv
  <1>2. /\ saleCount'[p] = Added(saleCount[p], o)
        /\ localSales'[p] = localSales[p] + o.lQuantity
        /\ \A q \in Procs \ {p} : /\ saleCount'[q] = saleCount[q]
                                  /\ localSales'[q] = localSales[q]
    BY <1>1 DEF Count
  <1>3. PICK f : f = saleCount[p]
    OBVIOUS
  <1>4. f \in [DOMAIN f -> Nat]
    BY <1>3 DEF CountsInv, Counts
  <1>5. o.lQuantity \in Nat
    BY DEF RealOrder, OrderType
  <1>6. CASE k = All
    BY <1>1, <1>2, <1>6 DEF Counted, Share, IsOf
  <1>7. CASE k # All
    <2>1. /\ k \in DOMAIN f \/ k = o.lPartkey <=> k \in DOMAIN Added(f, o)
          /\ k \in DOMAIN Added(f, o) =>
               Added(f, o)[k] = (IF k \in DOMAIN f THEN f[k] ELSE 0)
                                + (IF k = o.lPartkey THEN o.lQuantity ELSE 0)
      BY DEF Added
    <2>2. k \in DOMAIN f => f[k] \in Nat
      BY <1>4
    <2> QED
      BY <1>2, <1>3, <1>5, <1>7, <2>1, <2>2 DEF Counted, Share, IsOf
  <1> QED
    BY <1>6, <1>7

\* The loop over the orders.
LEMMA SolveOrderConserved ==
  ASSUME FlowInv, Conserved, NEW p \in Procs, SolveOrder(p)
  PROVE  Conserved'
  <1>1. PICK o : o = Head(orders[p])
    OBVIOUS
  <1>2. /\ orders \in [Procs -> Seq(RealOrder)] /\ CountsInv /\ ClosedLast
        /\ orders[p] # << >> /\ orders' = [orders EXCEPT ![p] = Tail(@)]
        /\ finish_index[p] = 0 /\ UNCHANGED handling
    BY DEF FlowInv, ControlInv, OrdersInv, SolveOrder, InPhase
  <1>3. o \in RealOrder /\ p \notin closed
    BY <1>1, <1>2, TailElements DEF ClosedLast
  <1>4. ASSUME NEW k
        PROVE  /\ Owed(k, orders'[p]) = Owed(k, orders[p]) - Share(k, o)
               /\ Among(k, orders[p]) =>
                    IsOf(k, o) \/ Among(k, orders'[p])
               /\ Owed(k, orders[p]) \in Int
               /\ Share(k, o) \in Nat
    <2>1. orders'[p] = Tail(orders[p]) /\ orders[p] \in Seq(RealOrder)
      BY <1>2
    <2> QED
      BY <1>1, <1>2, <1>3, <2>1, OrdersTail, OwedType, ShareType
  <1>5. CASE o.lPartkey \in Parts[p] /\ Count(p, o) /\ UNCHANGED wire
    <2>1. CountsInv /\ \A q \in Procs \ {p} : orders'[q] = orders[q]
      BY <1>2
    <2>3. ASSUME NEW k \in SoldParts \cup {All}
          PROVE  /\ Counted(k, p)' = Counted(k, p) + Share(k, o)
                 /\ \A q \in Procs \ {p} : Counted(k, q)' = Counted(k, q)
                 /\ k \in DOMAIN saleCount[p] \cup {All} \/ IsOf(k, o) =>
                      k \in DOMAIN saleCount'[p] \cup {All}
                 /\ \A q \in Procs \ {p} : saleCount'[q] = saleCount[q]
      BY <1>3, <1>5, <2>1, CountedAdded
    <2>4. ASSUME NEW k \in SoldParts \cup {All}
          PROVE  Load(k, p)' = Load(k, p) /\ (Found(k, p) => Found(k, p)')
      <3>1. Load(k, p)' = Load(k, p)
        <4>1. PICK x \in Nat :
                x = Share(k, o)
          BY <1>4
        <4>2. /\ Owed(k, orders'[p]) = Owed(k, orders[p]) - x
              /\ Counted(k, p)' = Counted(k, p) + x
          BY <1>4, <2>3, <4>1
        <4> QED
          BY <1>2, <1>5, <4>2, LoadType DEF Load
      <3>2. Found(k, p) => Found(k, p)'
        BY <1>2, <1>4, <1>5, <2>3 DEF Found
      <3> QED
        BY <3>1, <3>2
    <2>5. \A k \in SoldParts \cup {All} : \A q \in Procs \ {p} :
            Load(k, q)' = Load(k, q) /\ (Found(k, q) => Found(k, q)')
      BY <1>2, <1>5, <2>1, <2>3 DEF Load, Found
    <2> QED
      BY <2>4, <2>5, Unmoved
  <1>6. CASE Send(p, Order(o)) /\ UNCHANGED sumVars
    <2>1. PICK e : e = Order(o)
      OBVIOUS
    <2>2. /\ \A k : Carries(k, e) <=> IsOf(k, o)
          /\ \A k : Amount(k, e) = Share(k, o)
      BY <2>1 DEF Order, Carries, Amount, IsOrder, Share
    <2>3. PICK S : wire \in [Procs -> Seq(S)] /\ \A m \in S : Sound(m)
      BY DEF FlowInv, Streams
    <2>4. Down(p) \in Procs /\ Down(p) # p
      BY RingArithmetic
    <2>5. /\ wire'[Down(p)] = Append(wire[Down(p)], e)
          /\ \A q \in Procs \ {Down(p)} : wire'[q] = wire[q]
          /\ \A q \in Procs \ {p} : orders'[q] = orders[q]
          /\ UNCHANGED saleCount /\ \A k, q : Counted(k, q)' = Counted(k, q)
      BY <1>2, <1>3, <1>6, <2>1, <2>3, <2>4, CountedSame DEF Send
    <2>6. ASSUME NEW k \in SoldParts \cup {All}
          PROVE  /\ OnWire(k, wire'[Down(p)])
                      = OnWire(k, wire[Down(p)]) + Amount(k, e)
                 /\ InStream(k, wire[Down(p)]) \/ Carries(k, e)
                      => InStream(k, wire'[Down(p)])
      <3>1. \A m \in S : Amount(k, m) \in Nat
        BY <2>3, SoundAmount
      <3>2. wire[Down(p)] \in Seq(S) /\ Amount(k, e) \in Nat
        BY <1>4, <2>2, <2>3, <2>4
      <3> QED
        BY <2>5, <3>1, <3>2, WireAppend
    <2>7. ASSUME NEW k \in SoldParts \cup {All}
          PROVE  \E x \in Int :
                   /\ Load(k, p)' = Load(k, p) - x
                   /\ Load(k, Down(p))' = Load(k, Down(p)) + x
                   /\ \A q \in Procs \ {p, Down(p)} : Load(k, q)' = Load(k, q)
      <3>1. PICK x \in Nat : x = Amount(k, e)
        BY <1>4, <2>2
      <3>2. Owed(k, orders'[p]) = Owed(k, orders[p]) - x
        BY <1>4, <2>2, <3>1
      <3>3. Load(k, p)' = Load(k, p) - x
        BY <1>2, <2>4, <2>5, <3>2, LoadType DEF Load
      <3>4. Load(k, Down(p))' = Load(k, Down(p)) + x
        <4>1. PICK d \in Procs : d = Down(p) /\ d # p
          BY <2>4
        <4>2. /\ OnWire(k, wire'[d]) = OnWire(k, wire[d]) + x
              /\ orders'[d] = orders[d] /\ Counted(k, d)' = Counted(k, d)
              /\ handling'[d] = handling[d]
          BY <1>2, <2>5, <2>6, <3>1, <4>1
        <4>4. /\ Counted(k, d) \in Int
              /\ Owed(k, orders[d]) \in Int
              /\ OnWire(k, wire[d]) \in Int
              /\ Amount(k, handling[d]) \in Int
          BY LoadType
        <4>3. Load(k, d)' = Load(k, d) + x
          BY <4>2, <4>4 DEF Load
        <4> QED
          BY <4>1, <4>3
      <3>5. \A q \in Procs \ {p, Down(p)} : Load(k, q)' = Load(k, q)
        BY <1>2, <2>5 DEF Load
      <3> QED
        BY <3>3, <3>4, <3>5
    <2>8. ASSUME NEW k \in SoldParts \cup {All}, NEW q \in Procs, Found(k, q)
          PROVE  Found(k, q)' \/ Found(k, Down(p))'
      <3>1. Carries(k, e) => Found(k, Down(p))'
        BY <2>6 DEF Found
      <3>2. InStream(k, wire[q]) => InStream(k, wire'[q])
        BY <2>5, <2>6
      <3>3. Among(k, orders[q]) => Carries(k, e) \/ Among(k, orders'[q])
        BY <1>4, <2>2, <2>5
      <3> QED
        BY <1>2, <2>5, <2>8, <3>1, <3>2, <3>3 DEF Found
    <2> QED
      BY <2>7, <2>8, Moved
  <1> QED
    BY <1>1, <1>5, <1>6 DEF SolveOrder

\* An order is read, and counted or kept to be forwarded.
LEMMA ReceiveOrderConserved ==
  ASSUME FlowInv, Conserved, NEW p \in Procs, ReceiveOrder(p)
  PROVE  Conserved'
  <1>1. PICK S : /\ wire \in [Procs -> Seq(S)]
                 /\ handling \in [Procs -> Held(S)]
                 /\ \A m \in S : Sound(m)
    BY DEF FlowInv, Streams
  <1>2. PICK m : m = Head(wire[p])
    OBVIOUS
  <1>3. /\ m.head = "order" /\ wire[p] # << >> /\ handling[p] = None
        /\ wire' = [wire EXCEPT ![p] = Tail(@)] /\ UNCHANGED orders
    BY <1>2 DEF ReceiveOrder, Reads, Ring!Receives, Consume
  <1>4. Sound(m) /\ m.order \in RealOrder
    BY <1>2, <1>3, HeadSound DEF FlowInv, Sound, IsOrder
  <1>5. /\ \A k : Carries(k, m) <=> IsOf(k, m.order)
        /\ \A k : Amount(k, m) = Share(k, m.order)
        /\ \A k : Amount(k, m) \in Nat
    BY <1>3, <1>4, SoundAmount DEF Carries, Amount, IsOrder, Share
  <1>6. \A k : Amount(k, None) = 0 /\ ~ Carries(k, None)
    BY DEF Amount, Carries, IsOrder, None
  <1>7. /\ wire'[p] = Tail(wire[p])
        /\ \A q \in Procs \ {p} : wire'[q] = wire[q]
    BY <1>1, <1>3
  <1>8. ASSUME NEW k
        PROVE  /\ OnWire(k, wire'[p]) = OnWire(k, wire[p]) - Amount(k, m)
               /\ InStream(k, wire[p]) => Carries(k, m) \/ InStream(k, wire'[p])
    <2>1. wire[p] \in Seq(S) /\ \A e \in S : Amount(k, e) \in Nat
      BY <1>1, SoundAmount
    <2> QED
      BY <1>2, <1>3, <1>7, <2>1, WireTail
  <1>9. CASE m.order.lPartkey \in Parts[p] /\ Count(p, m.order)
             /\ UNCHANGED handling
    <2>4. ASSUME NEW k \in SoldParts \cup {All}
          PROVE  Load(k, p)' = Load(k, p) /\ (Found(k, p) => Found(k, p)')
      <3>1. PICK x \in Nat : x = Amount(k, m)
        BY <1>5
      <3>2. /\ Counted(k, p)' = Counted(k, p) + Share(k, m.order)
            /\ k \in DOMAIN saleCount[p] \cup {All} \/ IsOf(k, m.order) =>
                 k \in DOMAIN saleCount'[p] \cup {All}
        BY <1>4, <1>9, CountedAdded DEF FlowInv
      <3>3. /\ Counted(k, p)' = Counted(k, p) + x
            /\ OnWire(k, wire'[p]) = OnWire(k, wire[p]) - x
        BY <1>5, <1>8, <3>1, <3>2
      <3>6. /\ Counted(k, p) \in Int
            /\ Owed(k, orders[p]) \in Int
            /\ OnWire(k, wire[p]) \in Int
            /\ Amount(k, handling[p]) \in Int
        BY LoadType
      <3>7. orders'[p] = orders[p] /\ handling'[p] = handling[p]
        BY <1>3, <1>9
      <3>4. Load(k, p)' = Load(k, p)
        BY <3>3, <3>6, <3>7 DEF Load
      <3>5. Found(k, p) => Found(k, p)'
        BY <1>3, <1>5, <1>8, <1>9, <3>2 DEF Found
      <3> QED
        BY <3>4, <3>5
    <2>5. ASSUME NEW k \in SoldParts \cup {All}, NEW q \in Procs \ {p}
          PROVE  Load(k, q)' = Load(k, q) /\ (Found(k, q) => Found(k, q)')
      <3>1. Counted(k, q)' = Counted(k, q) /\ saleCount'[q] = saleCount[q]
        BY <1>4, <1>9, CountedAdded DEF FlowInv
      <3> QED
        BY <1>3, <1>7, <1>9, <3>1 DEF Load, Found
    <2> QED
      BY <2>4, <2>5, Unmoved
  <1>10. CASE GoOn(p) /\ UNCHANGED sumVars
    <2>1. /\ handling'[p] = m
          /\ \A q \in Procs \ {p} : handling'[q] = handling[q]
          /\ UNCHANGED saleCount /\ \A k, q : Counted(k, q)' = Counted(k, q)
      BY <1>1, <1>2, <1>10, CountedSame DEF GoOn
    <2>2. ASSUME NEW k \in SoldParts \cup {All}
          PROVE  Load(k, p)' = Load(k, p) /\ (Found(k, p) => Found(k, p)')
      <3>1. PICK x \in Nat : x = Amount(k, m)
        BY <1>5
      <3>2. /\ OnWire(k, wire'[p]) = OnWire(k, wire[p]) - x
            /\ Amount(k, handling'[p]) = x /\ Amount(k, handling[p]) = 0
        BY <1>3, <1>6, <1>8, <2>1, <3>1
      <3>5. /\ Counted(k, p) \in Int
            /\ Owed(k, orders[p]) \in Int
            /\ OnWire(k, wire[p]) \in Int
            /\ Amount(k, handling[p]) \in Int
        BY LoadType
      <3>6. Counted(k, p)' = Counted(k, p) /\ orders'[p] = orders[p]
        BY <1>3, <2>1
      <3>3. Load(k, p)' = Load(k, p)
        BY <3>2, <3>5, <3>6 DEF Load
      <3>4. Found(k, p) => Found(k, p)'
        BY <1>3, <1>6, <1>8, <2>1 DEF Found
      <3> QED
        BY <3>3, <3>4
    <2>3. \A k : \A q \in Procs \ {p} :
            Load(k, q)' = Load(k, q) /\ (Found(k, q) => Found(k, q)')
      BY <1>3, <1>7, <2>1 DEF Load, Found
    <2> QED
      BY <2>2, <2>3, Unmoved
  <1> QED
    BY <1>2, <1>9, <1>10 DEF ReceiveOrder

\* An order is forwarded.
LEMMA ForwardOrderConserved ==
  ASSUME FlowInv, Conserved, NEW p \in Procs, Forward(p), IsOrder(handling[p])
  PROVE  Conserved'
  <1>1. PICK S : /\ wire \in [Procs -> Seq(S)]
                 /\ handling \in [Procs -> Held(S)]
                 /\ \A m \in S : Sound(m)
    BY DEF FlowInv, Streams
  <1>2. PICK e : e = handling[p]
    OBVIOUS
  <1>3. /\ wire' = [wire EXCEPT ![Down(p)] = Append(@, e)]
        /\ handling' = [handling EXCEPT ![p] = None]
        /\ UNCHANGED <<saleCount, orders>>
        /\ \A k, q : Counted(k, q)' = Counted(k, q)
    BY <1>2, ForwardSends, CountedSame DEF Forward, Send
  <1>4. \A k : Amount(k, e) \in Nat
    <2>1. e # None
      BY <1>2 DEF IsOrder, None
    <2>2. Sound(e)
      BY <1>1, <1>2, <2>1 DEF Held
    <2> QED
      BY <2>2, SoundAmount
  <1>5. \A k : Amount(k, None) = 0 /\ ~ Carries(k, None)
    BY DEF Amount, Carries, IsOrder, None
  <1>6. PICK d \in Procs : d = Down(p) /\ d # p
    BY RingArithmetic
  <1>7. /\ wire'[d] = Append(wire[d], e)
        /\ \A q \in Procs \ {d} : wire'[q] = wire[q]
        /\ handling'[p] = None
        /\ \A q \in Procs \ {p} : handling'[q] = handling[q]
    BY <1>1, <1>3, <1>6
  <1>8. ASSUME NEW k
        PROVE  /\ OnWire(k, wire'[d]) = OnWire(k, wire[d]) + Amount(k, e)
               /\ InStream(k, wire[d]) \/ Carries(k, e) => InStream(k, wire'[d])
    <2>1. wire[d] \in Seq(S) /\ \A m \in S : Amount(k, m) \in Nat
      BY <1>1, SoundAmount
    <2> QED
      BY <1>4, <1>7, <2>1, WireAppend
  <1>9. ASSUME NEW k
        PROVE  \E x \in Int :
                 /\ Load(k, p)' = Load(k, p) - x
                 /\ Load(k, d)' = Load(k, d) + x
                 /\ \A q \in Procs \ {p, d} : Load(k, q)' = Load(k, q)
    <2>1. PICK x \in Nat : x = Amount(k, e)
      BY <1>4
    <2>2. Load(k, p)' = Load(k, p) - x
      <3>1. Amount(k, handling'[p]) = 0 /\ Amount(k, handling[p]) = x
        BY <1>2, <1>5, <1>7, <2>1
      <3>2. /\ Counted(k, p) \in Int
            /\ Owed(k, orders[p]) \in Int
            /\ OnWire(k, wire[p]) \in Int
            /\ Amount(k, handling[p]) \in Int
        BY LoadType
      <3>3. /\ Counted(k, p)' = Counted(k, p) /\ orders'[p] = orders[p]
            /\ wire'[p] = wire[p]
        BY <1>3, <1>6, <1>7
      <3> QED
        BY <3>1, <3>2, <3>3 DEF Load
    <2>3. Load(k, d)' = Load(k, d) + x
      <3>1. OnWire(k, wire'[d]) = OnWire(k, wire[d]) + x
        BY <1>8, <2>1
      <3>2. /\ Counted(k, d) \in Int
            /\ Owed(k, orders[d]) \in Int
            /\ OnWire(k, wire[d]) \in Int
            /\ Amount(k, handling[d]) \in Int
        BY LoadType
      <3>3. /\ Counted(k, d)' = Counted(k, d) /\ orders'[d] = orders[d]
            /\ handling'[d] = handling[d]
        BY <1>3, <1>6, <1>7
      <3> QED
        BY <3>1, <3>2, <3>3 DEF Load
    <2>4. \A q \in Procs \ {p, d} : Load(k, q)' = Load(k, q)
      BY <1>3, <1>7 DEF Load
    <2> QED
      BY <2>2, <2>3, <2>4
  <1>10. ASSUME NEW k, NEW q \in Procs, Found(k, q)
         PROVE  Found(k, q)' \/ Found(k, d)'
    <2>1. Carries(k, e) => Found(k, d)'
      BY <1>8 DEF Found
    <2>2. InStream(k, wire[q]) => InStream(k, wire'[q])
      BY <1>7, <1>8
    <2>3. Carries(k, handling[q]) => Carries(k, e) \/ Carries(k, handling'[q])
      BY <1>2, <1>7
    <2> QED
      BY <1>3, <1>10, <2>1, <2>2, <2>3 DEF Found
  <1> QED
    BY <1>6, <1>9, <1>10, Moved

\* No order comes, goes or is counted.
LEMMA NoOrderConserved ==
  ASSUME FlowInv, Conserved, UNCHANGED <<sumVars, orders>>,
         \A q \in Procs :
           \/ handling'[q] = handling[q]
           \/ ~ IsOrder(handling[q]) /\ ~ IsOrder(handling'[q]),
         \A q \in Procs :
           \/ wire'[q] = wire[q]
           \/ \E e : ~ IsOrder(e) /\ wire'[q] = Append(wire[q], e)
           \/ /\ wire[q] # << >> /\ ~ IsOrder(Head(wire[q]))
              /\ wire'[q] = Tail(wire[q])
  PROVE  Conserved'
  <1>1. ASSUME NEW k, NEW q \in Procs
        PROVE  Load(k, q)' = Load(k, q) /\ (Found(k, q) => Found(k, q)')
    BY LoadSame
  <1> QED
    BY <1>1, Unmoved

\* The main thread sends something else.
LEMMA SendConserved ==
  ASSUME FlowInv, Conserved, UNCHANGED <<sumVars, orders>>, NEW p \in Procs,
         handling' = handling
           \/ (~ IsOrder(handling[p]) /\ handling' = [handling EXCEPT ![p] = None]),
         NEW e, ~ IsOrder(e),
         UNCHANGED wire \/ wire' = [wire EXCEPT ![Down(p)] = Append(@, e)]
  PROVE  Conserved'
  <1>1. PICK S : wire \in [Procs -> Seq(S)] /\ handling \in [Procs -> Held(S)]
    BY DEF FlowInv, Streams
  <1>2. Down(p) \in Procs
    BY RingArithmetic
  <1>3. \A q \in Procs : wire'[q] = wire[q] \/ wire'[q] = Append(wire[q], e)
    BY <1>1, <1>2
  <1>4. \A q \in Procs :
          \/ handling'[q] = handling[q]
          \/ ~ IsOrder(handling[q]) /\ ~ IsOrder(handling'[q])
    BY <1>1 DEF IsOrder, None
  <1> QED
    BY <1>3, <1>4, NoOrderConserved

\* The server reads something else.
LEMMA ReadConserved ==
  ASSUME FlowInv, Conserved, UNCHANGED <<sumVars, orders>>, NEW p \in Procs,
         wire[p] # << >>, ~ IsOrder(Head(wire[p])), handling[p] = None,
         handling' = handling \/ GoOn(p), NEW e, ~ IsOrder(e),
         \/ wire' = [wire EXCEPT ![p] = Tail(@)]
         \/ wire' = [wire EXCEPT ![p] = Tail(@), ![Down(p)] = Append(@, e)]
  PROVE  Conserved'
  <1>1. PICK S : wire \in [Procs -> Seq(S)] /\ handling \in [Procs -> Held(S)]
    BY DEF FlowInv, Streams
  <1>2. Down(p) \in Procs /\ Down(p) # p
    BY RingArithmetic
  <1>3. \A q \in Procs :
          \/ wire'[q] = wire[q] \/ wire'[q] = Append(wire[q], e)
          \/ q = p /\ wire'[q] = Tail(wire[q])
    BY <1>1, <1>2
  <1>4. \A q \in Procs :
          \/ handling'[q] = handling[q]
          \/ ~ IsOrder(handling[q]) /\ ~ IsOrder(handling'[q])
    BY <1>1 DEF GoOn, IsOrder, None
  <1> QED
    BY <1>3, <1>4, NoOrderConserved

\* What the main thread calculates.
LEMMA CalculateConserved ==
  ASSUME FlowInv, Conserved, NEW p \in Procs, Calculate(p)
  PROVE  Conserved'
  <1>1. CASE SolveOrder(p)
    BY <1>1, SolveOrderConserved
  <1>2. CASE ~ SolveOrder(p)
    <2>1. UNCHANGED <<sumVars, orders, handling>>
      BY <1>2 DEF Calculate, AddLocalTotals, SendTotalData, ReadAverage,
                  SendUnderSale, Close, sumVars
    <2>2. \/ UNCHANGED wire
          \/ \E e : ~ IsOrder(e) /\ Send(p, e)
      <3>1. CASE SendTotalData(p)
        <4>1. PICK e : e = [head |-> "totalData", from |-> p,
                            sales |-> localSales[p],
                            parts |-> Cardinality(DOMAIN saleCount[p])]
          OBVIOUS
        <4>2. ~ IsOrder(e) /\ Send(p, e)
          BY <3>1, <4>1 DEF SendTotalData, IsOrder
        <4> QED
          BY <4>2
      <3>2. CASE SendUnderSale(p)
        <4>1. PICK k, e :
                /\ e = [head |-> "underSale",
                        part |-> [id |-> k, saleCount |-> saleCount[p][k]]]
                /\ Send(p, e)
          BY <3>2 DEF SendUnderSale
        <4>2. ~ IsOrder(e)
          BY <4>1 DEF IsOrder
        <4> QED
          BY <4>1, <4>2
      <3>3. CASE AddLocalTotals(p) \/ ReadAverage(p) \/ Close(p)
        BY <3>3 DEF AddLocalTotals, ReadAverage, Close
      <3> QED
        BY <1>2, <3>1, <3>2, <3>3 DEF Calculate
    <2>3. PICK e : ~ IsOrder(e) /\ (UNCHANGED wire \/ Send(p, e))
      <3>1. ~ IsOrder(None)
        BY DEF IsOrder, None
      <3> QED
        BY <2>2, <3>1
    <2>4. UNCHANGED wire \/ wire' = [wire EXCEPT ![Down(p)] = Append(@, e)]
      BY <2>3 DEF Send
    <2> QED
      BY <2>1, <2>3, <2>4, SendConserved
  <1> QED
    BY <1>1, <1>2

\* doAsync.
LEMMA SynchroniseConserved ==
  ASSUME FlowInv, Conserved, NEW p \in Procs, Synchronise(p)
  PROVE  Conserved'
  <1>1. UNCHANGED <<sumVars, orders, handling>>
    BY DEF Synchronise, EnterBarrier, LeaveBarrier, sumVars, routingVars
  <1>2. PICK e : e = Ring!Stamped(p, finish_index[p], Ring!NoDigits)
    OBVIOUS
  <1>3. ~ IsOrder(e)
    BY <1>2 DEF Ring!Stamped, IsOrder
  <1>4. UNCHANGED wire \/ wire' = [wire EXCEPT ![Down(p)] = Append(@, e)]
    BY <1>2 DEF Synchronise, EnterBarrier, LeaveBarrier, Ring!EnterBarrier,
                Ring!LeaveBarrier, Ring!Wait, Ring!SendFinish, Down
  <1> QED
    BY <1>1, <1>3, <1>4, SendConserved

\* The finish case, and notify_one.
LEMMA FinishConserved ==
  ASSUME FlowInv, Conserved, NEW p \in Procs,
         ReceiveFinish(p) \/ (Ring!Notify(p) /\ UNCHANGED routingVars)
  PROVE  Conserved'
  <1>1. UNCHANGED <<sumVars, orders, handling>>
    BY DEF ReceiveFinish, sumVars, routingVars
  <1>2. CASE ReceiveFinish(p)
    <2>1. PICK t, e : t = Head(wire[p]) /\ e = Ring!Stamped(p, t.idx, t.cnt)
      OBVIOUS
    <2>2. /\ ~ IsOrder(e) /\ ~ IsOrder(Head(wire[p])) /\ wire[p] # << >>
          /\ handling[p] = None
      BY <1>2, <2>1 DEF ReceiveFinish, Reads, Ring!Receives, Ring!Stamped,
                        IsOrder
    <2>3. \/ wire' = [wire EXCEPT ![p] = Tail(@)]
          \/ wire' = [wire EXCEPT ![p] = Tail(@), ![Down(p)] = Append(@, e)]
      BY <1>2, <2>1 DEF ReceiveFinish, Ring!HandleFinish, Ring!DropToken,
                        Ring!PassToken, Ring!CompleteToken, Ring!Forward, Down
    <2> QED
      BY <1>1, <2>2, <2>3, ReadConserved
  <1>3. CASE Ring!Notify(p)
    <2>1. UNCHANGED wire /\ ~ IsOrder(None)
      BY <1>3 DEF Ring!Notify, IsOrder, None
    <2> QED
      BY <1>1, <2>1, SendConserved
  <1> QED
    BY <1>2, <1>3

\* What the server thread reads.
LEMMA ReceiveConserved ==
  ASSUME FlowInv, Conserved, NEW p \in Procs, Receive(p)
  PROVE  Conserved'
  <1>1. CASE ReceiveOrder(p)
    BY <1>1, ReceiveOrderConserved
  <1>2. CASE ReceiveTotalData(p) \/ ReceiveUnderSale(p)
    <2>1. /\ UNCHANGED <<sumVars, orders>>
          /\ wire[p] # << >> /\ ~ IsOrder(Head(wire[p])) /\ handling[p] = None
          /\ handling' = handling \/ GoOn(p)
          /\ wire' = [wire EXCEPT ![p] = Tail(@)]
      BY <1>2 DEF ReceiveTotalData, ReceiveUnderSale, Reads, Ring!Receives,
                  IsOrder, Consume, sumVars
    <2>2. ~ IsOrder(None)
      BY DEF IsOrder, None
    <2> QED
      BY <2>1, <2>2, ReadConserved
  <1> QED
    BY <1>1, <1>2 DEF Receive

\* The rest of the handler.
LEMMA ForwardConserved ==
  ASSUME FlowInv, Conserved, NEW p \in Procs, Forward(p)
  PROVE  Conserved'
  <1>1. CASE IsOrder(handling[p])
    BY <1>1, ForwardOrderConserved
  <1>2. CASE ~ IsOrder(handling[p])
    <2>1. PICK e : e = handling[p]
      OBVIOUS
    <2>2. /\ UNCHANGED <<sumVars, orders>>
          /\ handling' = [handling EXCEPT ![p] = None]
          /\ UNCHANGED wire \/ wire' = [wire EXCEPT ![Down(p)] = Append(@, e)]
      BY <2>1 DEF Forward, Send, sumVars
    <2> QED
      BY <1>2, <2>1, <2>2, SendConserved
  <1> QED
    BY <1>1, <1>2

\* At the start all orders are in the loops.
LEMMA InitConserved == Init => Conserved
  <1> SUFFICES ASSUME Init, NEW k \in SoldParts \cup {All}
               PROVE  /\ Total([p \in 1..N |-> Load(k, p)])
                           = Total([p \in 1..N |-> Owed(k, Orders[p])])
                      /\ \E p \in Procs : Found(k, p)
    BY DEF Conserved
  <1>1. Procs = 1..N
    BY DEF Procs, Ring!Procs
  <1>2. ASSUME NEW p \in Procs
        PROVE  /\ saleCount[p] = << >> /\ DOMAIN saleCount[p] = {}
               /\ orders[p] = Orders[p] /\ wire[p] = << >>
               /\ handling[p] = None
    BY EmptySeq DEF Init, Ring!Init, Procs
  <1>3. ASSUME NEW p \in Procs
        PROVE  Load(k, p) = Owed(k, Orders[p])
    <2>1. Counted(k, p) = 0
      BY <1>2 DEF Counted, Init
    <2>2. OnWire(k, wire[p]) = 0
      <3>1. DOMAIN << >> = {} /\ Len(<< >>) = 0 /\ << >> \in Seq(Int)
        BY EmptySeq
      <3>2. [i \in DOMAIN << >> |-> Amount(k, << >>[i])] = << >>
        BY <3>1
      <3>3. OnWire(k, << >>) = 0
        BY <3>2, TotalEmpty DEF OnWire
      <3> QED
        BY <1>2, <3>3
    <2>3. Amount(k, handling[p]) = 0
      BY <1>2 DEF Amount, Carries, IsOrder, None
    <2>4. Owed(k, Orders[p]) \in Int
      BY OwnOrders, OwedType
    <2> QED
      BY <1>2, <2>1, <2>2, <2>3, <2>4 DEF Load
  <1>4. [p \in 1..N |-> Load(k, p)] = [p \in 1..N |-> Owed(k, Orders[p])]
    BY <1>1, <1>3
  <1>5. \E p \in Procs : Found(k, p)
    <2>1. CASE k = All
      BY <1>1, <2>1, NAssumption DEF Found
    <2>2. CASE k \in SoldParts
      BY <1>2, <2>2 DEF SoldParts, KeysOf, Found, Among, IsOf
    <2> QED
      BY <2>1, <2>2
  <1> QED
    BY <1>4, <1>5

\* No step breaks the law.
LEMMA NextConserved ==
  ASSUME FlowInv, Conserved, [Next]_vars
  PROVE  Conserved'
  <1>1. CASE UNCHANGED vars
    <2>1. /\ UNCHANGED <<sumVars, orders, wire, handling>>
          /\ ~ IsOrder(None)
      BY <1>1 DEF vars, Ring!vars, routingVars, sumVars, IsOrder, None
    <2>2. 1 \in Procs
      BY NAssumption DEF Procs, Ring!Procs
    <2> QED
      BY <2>1, <2>2, SendConserved
  <1>2. CASE Next
    <2>1. PICK p \in Procs : Calculate(p) \/ Synchronise(p) \/ Serve(p)
      BY <1>2 DEF Next
    <2>2. Serve(p) => \/ Receive(p) \/ Forward(p) \/ ReceiveFinish(p)
                      \/ Ring!Notify(p) /\ UNCHANGED routingVars
      BY DEF Serve, Receive
    <2> QED
      BY <2>1, <2>2, CalculateConserved, SynchroniseConserved,
         ReceiveConserved, ForwardConserved, FinishConserved
  <1> QED
    BY <1>1, <1>2

LEMMA AlwaysConserved == Spec => [](FlowInv /\ Conserved)
  <1>1. (FlowInv /\ Conserved) /\ [Next]_vars => (FlowInv /\ Conserved)'
    BY NextFlow, NextConserved
  <1> QED
    BY <1>1, InitFlow, InitConserved, PTL DEF Spec

-------------------------------------------------------------------------------
(***************************************************************************)
(* After the first barrier.                                                *)
(***************************************************************************)

\* All loops are done.
LEMMA LoopsDone ==
  ASSUME FlowInv, NEW p \in Procs, finish_index[p] > 0, NEW q \in Procs
  PROVE  orders[q] = << >> /\ Announced(p, 0)
  <1>1. ControlType /\ LeftAnnounced /\ AnnouncedByAll /\ FinishedIsPrefix
    BY DEF FlowInv, ControlInv
  <1>2. Announced(p, 0)
    BY <1>1 DEF ControlType, LeftAnnounced, Announced
  <1>3. 0 \in is_finished[q]
    BY <1>1, <1>2 DEF AnnouncedByAll
  <1>4. ~ (finish_index[q] = 0 /\ pc[q] = "run")
    BY <1>1, <1>3 DEF FinishedIsPrefix, Ring!Inside
  <1> QED
    BY <1>2, <1>4 DEF FlowInv, OrdersInv

\* Nothing of p's own parts is on the ring.
LEMMA NothingToCome ==
  ASSUME FlowInv, NEW p \in Procs, finish_index[p] > 0,
         NEW k \in Parts[p], NEW s \in Procs
  PROVE  /\ \A i \in DOMAIN wire[s] : ~ Carries(k, wire[s][i])
         /\ ~ Carries(k, handling[s])
  <1>1. Announced(p, 0)
    BY LoopsDone
  <1>6. k # All
    BY PartsAssumption DEF All
  <1>2. ASSUME NEW m, NEW q \in Procs, NEW i, Placed(m, q, s, i)
        PROVE  ~ Carries(k, m)
    <2>1. Hops(q, s) > Hops(q, p)
      BY <1>1, <1>2 DEF Placed, OnTrack
    <2>2. IsOf(k, m.order) => Hops(q, s) <= Hops(q, p)
      BY <1>2, <1>6 DEF Placed, Coming, IsOf
    <2>3. Hops(q, s) \in 1..N /\ Hops(q, p) \in 1..N
      BY RingArithmetic
    <2> QED
      BY <2>1, <2>2, <2>3, NAssumption DEF Carries
  <1>3. DOMAIN wire[s] = 1..Len(wire[s]) /\ Len(wire[s]) \in Nat
    BY LenProperties DEF FlowInv, Streams
  <1>4. \A i \in 0..Len(wire[s]) : ~ Carries(k, At(s, i))
    BY <1>2 DEF FlowInv, OrdersPlaced, Carries
  <1>5. /\ \A i \in 1..Len(wire[s]) : ~ Carries(k, wire[s][i])
        /\ ~ Carries(k, handling[s])
    <2>1. \A i \in 1..Len(wire[s]) : i \in 0..Len(wire[s]) /\ i # 0
      BY <1>3
    <2>2. 0 \in 0..Len(wire[s])
      BY <1>3
    <2> QED
      BY <1>4, <2>1, <2>2 DEF At
  <1> QED
    BY <1>3, <1>5

\* Where no order is left there is what has been counted.
LEMMA NothingLeft ==
  ASSUME FlowInv, NEW k \in SoldParts \cup {All}, NEW q \in Procs,
         orders[q] = << >>,
         \A i \in DOMAIN wire[q] : ~ Carries(k, wire[q][i]),
         ~ Carries(k, handling[q])
  PROVE  Load(k, q) = Counted(k, q)
  <1>1. Owed(k, orders[q]) = 0
    <2>1. << >> \in Seq(Int) /\ Len(<< >>) = 0 /\ DOMAIN << >> = {}
      BY EmptySeq
    <2>2. [i \in DOMAIN << >> |-> Share(k, << >>[i])] = << >>
      BY <2>1
    <2> QED
      BY <2>2, TotalEmpty DEF Owed
  <1>2. OnWire(k, wire[q]) = 0
    <2> DEFINE a == [i \in DOMAIN wire[q] |-> Amount(k, wire[q][i])]
    <2>1. DOMAIN wire[q] = 1..Len(wire[q]) /\ Len(wire[q]) \in Nat
      BY LenProperties DEF FlowInv, Streams
    <2>2. PICK n \in Nat : DOMAIN wire[q] = 1..n
      BY <2>1
    <2>3. \A i \in 1..n : a[i] = 0
      BY <2>2 DEF Amount
    <2>4. a = [i \in 1..n |-> 0]
      BY <2>2, <2>3
    <2>5. [i \in 1..n |-> 0] \in Seq(Int) /\ Len([i \in 1..n |-> 0]) = n
      BY <2>2
    <2> HIDE DEF a
    <2>6. Total(a) = 0
      BY <2>3, <2>4, <2>5, TotalZero
    <2> QED
      BY <2>6 DEF OnWire, a
  <1>3. Amount(k, handling[q]) = 0
    BY DEF Amount
  <1>4. Counted(k, q) \in Int
    BY LoadType
  <1> QED
    BY <1>1, <1>2, <1>3, <1>4 DEF Load

\* So everything of its parts has been counted, by p.
LEMMA AllCounted ==
  ASSUME FlowInv, Conserved, NEW p \in Procs, finish_index[p] > 0,
         NEW k \in Parts[p] \cap SoldParts
  PROVE  k \in DOMAIN saleCount[p] /\ saleCount[p][k] = SumOf[k]
  <1>1. Procs = 1..N /\ N \in Nat
    BY NAssumption DEF Procs, Ring!Procs
  <1>7. k # All /\ k \in SoldParts \cup {All}
    BY PartsAssumption DEF All
  <1>2. \A q \in Procs : k \in DOMAIN saleCount[q] => q = p
    <2>1. \A q \in Procs : DOMAIN saleCount[q] \subseteq Parts[q]
      BY DEF FlowInv, CountsInv, Counts
    <2> QED
      BY <2>1, PartsAssumption
  <1>3. ASSUME NEW q \in Procs
        PROVE  /\ Load(k, q) = Counted(k, q)
               /\ Found(k, q) => k \in DOMAIN saleCount[q]
    <2>1. /\ orders[q] = << >>
          /\ \A i \in DOMAIN wire[q] : ~ Carries(k, wire[q][i])
          /\ ~ Carries(k, handling[q])
      BY LoopsDone, NothingToCome
    <2>2. Load(k, q) = Counted(k, q)
      BY <2>1, NothingLeft
    <2>3. ~ Among(k, orders[q])
      <3>1. DOMAIN << >> = {}
        BY EmptySeq
      <3> QED
        BY <2>1, <3>1 DEF Among
    <2>4. Found(k, q) => k \in DOMAIN saleCount[q]
      BY <1>7, <2>1, <2>3 DEF Found, InStream
    <2> QED
      BY <2>2, <2>4
  <1>4. k \in DOMAIN saleCount[p]
    BY <1>2, <1>3 DEF Conserved
  <1>5. Total([q \in 1..N |-> Load(k, q)]) = saleCount[p][k]
    <2> DEFINE a == [q \in 1..N |-> Load(k, q)]
    <2>1. \A q \in 1..N : a[q] \in Int
      BY <1>1, LoadType
    <2>2. a \in Seq(Int) /\ Len(a) = N
      BY <1>1, <2>1
    <2>3. a[p] = saleCount[p][k]
      BY <1>1, <1>3, <1>4, <1>7 DEF Counted
    <2>4. \A q \in 1..N : q # p => a[q] = 0
      BY <1>1, <1>2, <1>3, <1>7 DEF Counted
    <2> HIDE DEF a
    <2>5. p \in 1..Len(a) /\ \A q \in 1..Len(a) : q # p => a[q] = 0
      BY <1>1, <2>2, <2>4
    <2>6. Total(a) = a[p]
      BY <2>2, <2>5, TotalSingle
    <2> QED
      BY <2>3, <2>6 DEF a
  <1>6. SumOf[k] = Total([q \in 1..N |-> Owed(k, Orders[q])])
    <2>1. \A q \in 1..N : QuantityOf(k, Orders[q]) = Owed(k, Orders[q])
      BY <1>7 DEF QuantityOf, Owed, Share, IsOf
    <2> QED
      BY <2>1 DEF SumOf
  <1> QED
    BY <1>4, <1>5, <1>6, <1>7 DEF Conserved

\* Every order is counted exactly once, by the instance that has its part,
\* before anybody adds up.
THEOREM OrdersAreRouted == Spec => []OrdersRouted
  <1>1. FlowInv /\ Conserved => OrdersRouted
    <2> SUFFICES ASSUME FlowInv, Conserved, NEW p \in Procs,
                        finish_index[p] > 0
                 PROVE  saleCount[p] = Restrict(SumOf, Parts[p] \cap DOMAIN SumOf)
      BY DEF OrdersRouted
    <2>1. DOMAIN SumOf = SoldParts
      BY DEF SumOf
    <2>2. /\ saleCount[p] \in [DOMAIN saleCount[p] -> Nat]
          /\ DOMAIN saleCount[p] \subseteq Parts[p] \cap SoldParts
      BY DEF FlowInv, CountsInv, Counts
    <2>3. \A k \in Parts[p] \cap SoldParts :
            k \in DOMAIN saleCount[p] /\ saleCount[p][k] = SumOf[k]
      BY AllCounted
    <2>4. DOMAIN saleCount[p] = Parts[p] \cap SoldParts
      BY <2>2, <2>3
    <2>5. saleCount[p] = [k \in Parts[p] \cap SoldParts |-> SumOf[k]]
      BY <2>2, <2>3, <2>4
    <2> QED
      BY <2>1, <2>5 DEF Restrict
  <1> QED
    BY <1>1, AlwaysConserved, PTL

-------------------------------------------------------------------------------
(***************************************************************************)
(* SameAverage and SameList, about the messages that make the round.       *)
(*                                                                         *)
(* A message with totals and a message with an undersold part are followed *)
(* round the ring, as the orders are above.  Of each there is one at most  *)
(* (Lone).  The totals of q have been added at p when q has sent them and  *)
(* they have not still to come to p (Heard); a part is on the lists of     *)
(* those its message has passed (Followed).  The barriers of the phases    *)
(* say that nothing has still to come to an instance that has left them.   *)
(***************************************************************************)

\* Where in the phases an instance can be.
PhaseAt(p) ==
  /\ finish_index[p] <= 3
  /\ finish_index[p] = 0 => step[p] = 0
  /\ finish_index[p] = 1 /\ pc[p] # "run" => step[p] = 2
  /\ finish_index[p] = 2 => step[p] <= 1
  /\ finish_index[p] = 2 /\ pc[p] # "run" => step[p] = 1 /\ announce[p] = {}
  /\ finish_index[p] = 3 => pc[p] = "run" /\ step[p] = 0
  /\ announce[p] # {} => finish_index[p] = 2 /\ step[p] = 1

PhaseInv == \A p \in Procs : PhaseAt(p)

\* What an instance has done.
HasAdded(p) == finish_index[p] > 1 \/ (finish_index[p] = 1 /\ step[p] > 0)
HasSent(p) == finish_index[p] > 1 \/ (finish_index[p] = 1 /\ step[p] = 2)
HasRead(p) == finish_index[p] > 2 \/ (finish_index[p] = 2 /\ step[p] > 0)

\* The messages that make the round, and what tells them apart.
IsNews(m) == m.head \in {"totalData", "underSale"}
Id(m) ==
  IF m.head = "totalData" THEN <<m.head, m.from>> ELSE <<m.head, m.part.id>>

TotalsOf(q) == <<"totalData", q>>
Entry(k) == <<"underSale", k>>

Is(x, s, i) == IsNews(At(s, i)) /\ Id(At(s, i)) = x
Present(x) == \E s \in Procs : \E i \in 0..Len(wire[s]) : Is(x, s, i)

\* There is one message x at most.
Lone(x) ==
  \A s, t \in Procs : \A i \in 0..Len(wire[s]) : \A j \in 0..Len(wire[t]) :
    Is(x, s, i) /\ Is(x, t, j) => s = t /\ i = j

-------------------------------------------------------------------------------

Sales(q) == localSales[q]
Kinds(q) == Cardinality(DOMAIN saleCount[q])

\* The totals of q, in place i at s.
TotalsPlaced(q, s, i) ==
  /\ At(s, i).sales = Sales(q) /\ At(s, i).parts = Kinds(q)
  /\ OnTrack(1, q, s, i)
  /\ i = 0 => s # q

\* They have still to come to p.
Awaited(q, p) ==
  \E s \in Procs : \E i \in 0..Len(wire[s]) :
    Is(TotalsOf(q), s, i) /\ Coming(q, p, s, i)

\* They are part of p's sums.
Heard(p, q) ==
  IF p = q THEN HasAdded(p) ELSE HasSent(q) /\ ~ Awaited(q, p)

TotalsInv ==
  /\ \A q \in Procs :
       /\ Present(TotalsOf(q)) => HasSent(q)
       /\ Lone(TotalsOf(q))
       /\ \A s \in Procs : \A i \in 0..Len(wire[s]) :
            Is(TotalsOf(q), s, i) => TotalsPlaced(q, s, i)
  /\ \A p \in Procs :
       /\ totalSales[p] =
            Total([q \in 1..N |-> IF Heard(p, q) THEN Sales(q) ELSE 0])
       /\ partCount[p] =
            Total([q \in 1..N |-> IF Heard(p, q) THEN Kinds(q) ELSE 0])

-------------------------------------------------------------------------------

\* The instance that has part k.
Owner(k) == CHOOSE q \in Procs : k \in Parts[q]

Lists(p, k) == \E x \in underSale[p] : x.id = k

\* The owner of k has told the others that it is undersold.
Told(k) ==
  /\ HasRead(Owner(k)) /\ SellsBadly(SumOf[k], Average)
  /\ k \notin announce[Owner(k)]

\* The entry of part k, in place i at s: it is on the lists it has passed, or on
\* all, and then it goes no further.
Followed(k, s, i) ==
  \/ /\ OnTrack(2, Owner(k), s, i)
     /\ \A r \in Procs : Lists(r, k) <=> ~ Coming(Owner(k), r, s, i)
  \/ i # 0 /\ \A r \in Procs : Lists(r, k)

\* What is known of the entry of k.
EntryOf(k) ==
  /\ ~ Told(k) => ~ Present(Entry(k)) /\ \A r \in Procs : ~ Lists(r, k)
  /\ Told(k) => Present(Entry(k)) \/ \A r \in Procs : Lists(r, k)
  /\ Lone(Entry(k))
  /\ \A s \in Procs : \A i \in 0..Len(wire[s]) :
       Is(Entry(k), s, i) => Followed(k, s, i)

ListInv ==
  /\ \A s \in Procs : \A i \in 0..Len(wire[s]) :
       At(s, i).head = "underSale" => At(s, i).part \in Undersold
  /\ \A p \in Procs :
       /\ underSale[p] \subseteq Undersold
       /\ \A k \in announce[p] : SellsBadly(SumOf[k], Average)
  /\ \A k \in SoldParts : EntryOf(k)

-------------------------------------------------------------------------------
(***************************************************************************)
(* The phases.                                                             *)
(***************************************************************************)

\* A step of an instance leaves the main threads of the others alone.
LEMMA OthersStay ==
  ASSUME FlowInv, NEW p \in Procs, Calculate(p) \/ Synchronise(p) \/ Serve(p),
         NEW q \in Procs, q # p
  PROVE  /\ pc'[q] = pc[q] /\ finish_index'[q] = finish_index[q]
         /\ step'[q] = step[q] /\ announce'[q] = announce[q]
  <1>1. ControlType /\ announce = [r \in Procs |-> announce[r]]
    BY DEF FlowInv, ControlInv, CountsInv
  <1>2. CASE Calculate(p)
    BY <1>1, <1>2 DEF Calculate, SolveOrder, AddLocalTotals, SendTotalData,
                      ReadAverage, SendUnderSale, Close, Advance, mainVars,
                      listVars, ControlType
  <1>3. CASE Synchronise(p)
    BY <1>1, <1>3
       DEF Synchronise, EnterBarrier, LeaveBarrier, Ring!EnterBarrier,
           Ring!LeaveBarrier, Ring!SendFinish, Ring!Wait, routingVars, listVars,
           ControlType
  <1>4. CASE Serve(p)
    BY <1>1, <1>4
       DEF Serve, ReceiveFinish, ReceiveOrder, ReceiveTotalData,
           ReceiveUnderSale, Forward, Ring!HandleFinish, Ring!DropToken,
           Ring!PassToken, Ring!CompleteToken, Ring!Notify, Ring!mainVars,
           mainVars, routingVars, listVars, ControlType
  <1> QED
    BY <1>2, <1>3, <1>4

\* What an instance has done stays done, and is done by one action.
Progress(p) ==
  /\ HasAdded(p)' <=> HasAdded(p) \/ AddLocalTotals(p)
  /\ HasSent(p)' <=> HasSent(p) \/ SendTotalData(p)
  /\ HasRead(p)' <=> HasRead(p) \/ ReadAverage(p)
  /\ AddLocalTotals(p) => ~ HasAdded(p)
  /\ SendTotalData(p) => ~ HasSent(p)
  /\ ReadAverage(p) => ~ HasRead(p)

LEMMA ActionsProgress ==
  ASSUME FlowInv, NEW p \in Procs
  PROVE  /\ AddLocalTotals(p) => HasAdded(p)' /\ ~ HasAdded(p)
         /\ SendTotalData(p) => HasSent(p)' /\ ~ HasSent(p)
         /\ ReadAverage(p) => HasRead(p)' /\ ~ HasRead(p)
  BY DEF FlowInv, ControlInv, ControlType, AddLocalTotals, SendTotalData,
         ReadAverage, InPhase, Advance, mainVars, HasAdded, HasSent, HasRead

\* The instance that moves.
LEMMA OwnPhase ==
  ASSUME FlowInv, NEW p \in Procs, Calculate(p) \/ Synchronise(p) \/ Serve(p),
         PhaseAt(p)
  PROVE  PhaseAt(p)' /\ Progress(p)
  <1>1. ControlType /\ announce = [r \in Procs |-> announce[r]]
    BY DEF FlowInv, ControlInv, CountsInv
  <1>2. finish_index[p] \in Nat /\ step[p] \in 0..2
    BY <1>1 DEF ControlType
  <1> SUFFICES /\ PhaseAt(p)'
               /\ HasAdded(p)' <=> HasAdded(p) \/ AddLocalTotals(p)
               /\ HasSent(p)' <=> HasSent(p) \/ SendTotalData(p)
               /\ HasRead(p)' <=> HasRead(p) \/ ReadAverage(p)
    BY ActionsProgress DEF Progress
  <1> USE DEF PhaseAt, HasAdded, HasSent, HasRead
  <1>3. ASSUME UNCHANGED <<finish_index, step>>
        PROVE  ~ (AddLocalTotals(p) \/ SendTotalData(p) \/ ReadAverage(p))
    BY <1>1, <1>2, <1>3 DEF AddLocalTotals, SendTotalData, ReadAverage, Advance,
                            ControlType
  <1>4. CASE SolveOrder(p) \/ Close(p) \/ SendUnderSale(p)
    <2>1. /\ UNCHANGED <<pc, finish_index, step>>
          /\ announce'[p] \subseteq announce[p]
      BY <1>1, <1>4 DEF SolveOrder, Close, SendUnderSale, mainVars, listVars
    <2> QED
      BY <1>2, <1>3, <2>1
  <1>5. CASE AddLocalTotals(p)
    <2>1. /\ pc[p] = "run" /\ finish_index[p] = 1 /\ step[p] = 0
          /\ UNCHANGED <<pc, finish_index, announce>> /\ step'[p] = 1
      BY <1>1, <1>5 DEF AddLocalTotals, InPhase, Advance, mainVars, listVars,
                        ControlType
    <2> QED
      BY <1>5, <2>1 DEF SendTotalData, ReadAverage, InPhase
  <1>6. CASE SendTotalData(p)
    <2>1. /\ pc[p] = "run" /\ finish_index[p] = 1 /\ step[p] = 1
          /\ UNCHANGED <<pc, finish_index, announce>> /\ step'[p] = 2
      BY <1>1, <1>6 DEF SendTotalData, InPhase, Advance, mainVars, listVars,
                        ControlType
    <2> QED
      BY <1>6, <2>1 DEF AddLocalTotals, ReadAverage, InPhase
  <1>7. CASE ReadAverage(p)
    <2>1. /\ pc[p] = "run" /\ finish_index[p] = 2 /\ step[p] = 0
          /\ UNCHANGED <<pc, finish_index>> /\ step'[p] = 1
      BY <1>1, <1>7 DEF ReadAverage, InPhase, Advance, mainVars, ControlType
    <2> QED
      BY <1>7, <2>1 DEF AddLocalTotals, SendTotalData, InPhase
  <1>8. CASE EnterBarrier(p)
    <2>1. /\ pc[p] = "run" /\ finish_index[p] < 3 /\ pc'[p] # "run"
          /\ UNCHANGED <<finish_index, step, announce>> /\ PhaseDone(p)
      BY <1>1, <1>8 DEF EnterBarrier, Ring!EnterBarrier, routingVars, listVars,
                        ControlType
    <2>2. /\ finish_index[p] = 1 => step[p] = 2
          /\ finish_index[p] = 2 => step[p] = 1 /\ announce[p] = {}
      BY <2>1 DEF PhaseDone
    <2> QED
      BY <1>2, <1>3, <2>1, <2>2
  <1>9. CASE LeaveBarrier(p)
    <2>1. /\ pc[p] = "woken" /\ pc'[p] = "run"
          /\ finish_index'[p] = finish_index[p] + 1
          /\ step'[p] = 0 /\ UNCHANGED announce
      BY <1>1, <1>9 DEF LeaveBarrier, Ring!LeaveBarrier, listVars, ControlType
    <2>2. ~ (AddLocalTotals(p) \/ SendTotalData(p) \/ ReadAverage(p))
      BY <2>1 DEF AddLocalTotals, SendTotalData, ReadAverage, InPhase
    <2> QED
      BY <1>2, <2>1, <2>2
  <1>10. CASE \/ (Ring!SendFinish(p) \/ Ring!Wait(p)) /\ UNCHANGED routingVars
              \/ Serve(p)
    <2>1. /\ UNCHANGED <<finish_index, step, announce>>
          /\ pc'[p] = pc[p] \/ (pc[p] # "run" /\ pc'[p] # "run")
      <3>1. CASE (Ring!SendFinish(p) \/ Ring!Wait(p)) /\ UNCHANGED routingVars
        BY <1>1, <3>1 DEF Ring!SendFinish, Ring!Wait, routingVars, listVars,
                          ControlType
      <3>2. CASE Serve(p)
        BY <1>1, <3>2
           DEF Serve, ReceiveFinish, ReceiveOrder, ReceiveTotalData,
               ReceiveUnderSale, Forward, Ring!HandleFinish, Ring!DropToken,
               Ring!PassToken, Ring!CompleteToken, Ring!Notify, Ring!mainVars,
               mainVars, routingVars, listVars, ControlType
      <3> QED
        BY <1>10, <3>1, <3>2
    <2> QED
      BY <1>2, <1>3, <2>1
  <1> QED
    BY <1>4, <1>5, <1>6, <1>7, <1>8, <1>9, <1>10 DEF Calculate, Synchronise

LEMMA NextPhase ==
  ASSUME FlowInv, PhaseInv, [Next]_vars
  PROVE  PhaseInv' /\ \A p \in Procs : Progress(p)
  <1>1. ControlType
    BY DEF FlowInv, ControlInv
  <1>2. ASSUME NEW q \in Procs, pc'[q] = pc[q],
               finish_index'[q] = finish_index[q], step'[q] = step[q],
               announce'[q] = announce[q]
        PROVE  PhaseAt(q)' /\ Progress(q)
    <2>1. ~ (AddLocalTotals(q) \/ SendTotalData(q) \/ ReadAverage(q))
      BY <1>1, <1>2 DEF AddLocalTotals, SendTotalData, ReadAverage, Advance,
                        ControlType
    <2>2. PhaseAt(q)'
      BY <1>2 DEF PhaseInv, PhaseAt
    <2> QED
      BY <1>2, <2>1, <2>2 DEF Progress, HasAdded, HasSent, HasRead
  <1>3. CASE UNCHANGED vars
    <2>1. UNCHANGED <<pc, finish_index, step, announce>>
      BY <1>3 DEF vars, Ring!vars, routingVars, listVars
    <2> QED
      BY <1>2, <2>1 DEF PhaseInv
  <1>4. ASSUME NEW p \in Procs, Calculate(p) \/ Synchronise(p) \/ Serve(p)
        PROVE  PhaseInv' /\ \A q \in Procs : Progress(q)
    <2>1. PhaseAt(p)' /\ Progress(p)
      BY <1>4, OwnPhase DEF PhaseInv
    <2>2. \A q \in Procs : q # p => PhaseAt(q)' /\ Progress(q)
      BY <1>2, <1>4, OthersStay
    <2> QED
      BY <2>1, <2>2 DEF PhaseInv
  <1> QED
    BY <1>3, <1>4 DEF Next

-------------------------------------------------------------------------------
(***************************************************************************)
(* Messages that make the round.                                           *)
(***************************************************************************)

LEMMA NewsIsData ==
  ASSUME NEW m, IsNews(m)
  PROVE  IsData(m)
  BY DEF IsNews, IsData

\* Once an instance has left the first barrier it counts no more.
LEMMA SumsFixed ==
  ASSUME FlowInv, [Next]_vars, NEW q \in Procs, finish_index[q] > 0
  PROVE  saleCount'[q] = saleCount[q] /\ localSales'[q] = localSales[q]
  <1>1. CountsInv
    BY DEF FlowInv
  <1>2. CASE UNCHANGED sumVars
    BY <1>2 DEF sumVars
  <1>3. ASSUME NEW p \in Procs, SolveOrder(p)
        PROVE  FALSE
    BY <1>3, LoopsDone DEF SolveOrder
  <1>4. ASSUME NEW p \in Procs, ReceiveOrder(p), ~ UNCHANGED sumVars
        PROVE  saleCount'[q] = saleCount[q] /\ localSales'[q] = localSales[q]
    <2>1. PICK m : m = Head(wire[p])
      OBVIOUS
    <2>2. /\ m.head = "order" /\ m.order.lPartkey \in Parts[p]
          /\ Count(p, m.order) /\ wire[p] # << >>
      BY <1>4, <2>1 DEF ReceiveOrder, Reads, Ring!Receives
    <2>3. p # q
      <3> SUFFICES ASSUME p = q PROVE FALSE
        OBVIOUS
      <3>1. 1 \in DOMAIN wire[p] /\ wire[p][1] = m
        BY <2>1, <2>2, TailElements, LenProperties DEF FlowInv, Streams
      <3>2. ~ Carries(m.order.lPartkey, m)
        BY <2>2, <3>1, NothingToCome
      <3> QED
        BY <2>2, <3>2 DEF Carries, IsOrder, IsOf
    <2> QED
      BY <1>1, <2>2, <2>3 DEF Count, CountsInv
  <1>5. \/ UNCHANGED sumVars
        \/ \E p \in Procs : SolveOrder(p) \/ ReceiveOrder(p)
    <2>1. CASE UNCHANGED vars
      BY <2>1 DEF vars, routingVars
    <2>2. ASSUME NEW p \in Procs, Calculate(p)
          PROVE  UNCHANGED sumVars \/ SolveOrder(p)
      BY <2>2 DEF Calculate, AddLocalTotals, SendTotalData, ReadAverage,
                  SendUnderSale, Close
    <2>3. ASSUME NEW p \in Procs, Synchronise(p)
          PROVE  UNCHANGED sumVars
      BY <2>3 DEF Synchronise, EnterBarrier, LeaveBarrier, routingVars
    <2>4. ASSUME NEW p \in Procs, Serve(p)
          PROVE  UNCHANGED sumVars \/ ReceiveOrder(p)
      BY <2>4 DEF Serve, ReceiveFinish, ReceiveTotalData, ReceiveUnderSale,
                  Forward, routingVars
    <2> QED
      BY <2>1, <2>2, <2>3, <2>4 DEF Next
  <1> QED
    BY <1>2, <1>3, <1>4, <1>5

\* A message of the second or third phase that has just been sent.
LEMMA FreshNews ==
  ASSUME FlowInv, NEW t, NEW i, Fresh(t, i), IsNews(At(t, i)')
  PROVE  \E p \in Procs :
           /\ t = Down(p) /\ i = Len(wire[t]) + 1
           /\ \/ /\ SendTotalData(p)
                 /\ Id(At(t, i)') = TotalsOf(p)
                 /\ At(t, i)'.sales = localSales[p]
                 /\ At(t, i)'.parts = Cardinality(DOMAIN saleCount[p])
                 /\ OnTrack(1, p, t, i)'
              \/ /\ SendUnderSale(p)
                 /\ \E k \in announce[p] \ announce'[p] :
                      /\ Id(At(t, i)') = Entry(k)
                      /\ At(t, i)'.part = [id |-> k, saleCount |-> saleCount[p][k]]
                 /\ OnTrack(2, p, t, i)'
  <1>1. PICK m : m = At(t, i)'
    OBVIOUS
  <1>2. PICK p \in Procs :
          /\ t = Down(p) /\ i = Len(wire[t]) + 1
          /\ SendsOwn(p, m) /\ OnTrack(Phase(At(t, i)), p, t, i)'
    BY <1>1 DEF Fresh
  <1>3. m.head # "order"
    BY <1>1 DEF IsNews
  <1>4. CASE /\ SendTotalData(p)
             /\ m = [head |-> "totalData", from |-> p, sales |-> localSales[p],
                     parts |-> Cardinality(DOMAIN saleCount[p])]
    <2>1. /\ m.head = "totalData" /\ m.from = p /\ m.sales = localSales[p]
          /\ m.parts = Cardinality(DOMAIN saleCount[p])
      BY <1>4
    <2>2. OnTrack(1, p, t, i)'
      BY <1>1, <1>2, <2>1 DEF Phase
    <2>3. Id(m) = TotalsOf(p)
      BY <2>1 DEF Id, TotalsOf
    <2> QED
      BY <1>1, <1>2, <1>4, <2>1, <2>2, <2>3
  <1>5. CASE /\ SendUnderSale(p)
             /\ \E k \in announce[p] \ announce'[p] :
                  m = [head |-> "underSale",
                       part |-> [id |-> k, saleCount |-> saleCount[p][k]]]
    <2>1. PICK k \in announce[p] \ announce'[p] :
            m = [head |-> "underSale",
                 part |-> [id |-> k, saleCount |-> saleCount[p][k]]]
      BY <1>5
    <2>2. /\ m.head = "underSale"
          /\ m.part = [id |-> k, saleCount |-> saleCount[p][k]]
          /\ m.part.id = k
      BY <2>1
    <2>3. OnTrack(2, p, t, i)'
      BY <1>1, <1>2, <2>2 DEF Phase
    <2>4. Id(m) = Entry(k)
      BY <2>2 DEF Id, Entry
    <2> QED
      BY <1>1, <1>2, <1>5, <2>2, <2>3, <2>4
  <1>6. CASE m = Order(Head(orders[p]))
    BY <1>3, <1>6 DEF Order
  <1> QED
    BY <1>2, <1>4, <1>5, <1>6 DEF SendsOwn

\* Where a message is that an instance has just sent: it has still to come to
\* everybody.
LEMMA SentPlace ==
  ASSUME FlowInv, NEW p \in Procs, p \notin closed, NEW e, Send(p, e)
  PROVE  \E i \in 0..Len(wire'[Down(p)]) :
           /\ At(Down(p), i)' = e
           /\ \A u \in Procs : Coming(p, u, Down(p), i)
  <1>1. PICK S : wire \in [Procs -> Seq(S)]
    BY DEF FlowInv, Streams
  <1>2. PICK d \in Procs : d = Down(p)
    BY RingArithmetic
  <1>3. wire'[d] = Append(wire[d], e)
    BY <1>1, <1>2 DEF Send
  <1>4. PICK i : i = Len(wire[d]) + 1
    OBVIOUS
  <1>5. PICK a, b : a = wire[d] /\ b = Append(a, e)
    OBVIOUS
  <1>6. Len(a) \in Nat /\ Len(b) = Len(a) + 1 /\ b[Len(a) + 1] = e
    BY <1>1, <1>5, AppendElements
  <1>7. i \in 0..Len(b) /\ i # 0 /\ b[i] = e
    BY <1>4, <1>5, <1>6
  <1>8. \A u \in Procs : Coming(p, u, d, i)
    BY <1>2, <1>7, RingArithmetic DEF Coming
  <1> QED
    BY <1>2, <1>3, <1>5, <1>7, <1>8 DEF At

\* The message that is read is in the first place, and all move up.
LEMMA ReadPlace ==
  ASSUME FlowInv, NEW p \in Procs, wire[p] # << >>
  PROVE  /\ 1 \in 0..Len(wire[p]) /\ At(p, 1) = Head(wire[p])
         /\ wire' = [wire EXCEPT ![p] = Tail(@)] => Shifted(p)
  <1>1. PICK S : wire \in [Procs -> Seq(S)]
    BY DEF FlowInv, Streams
  <1>2. PICK a, b : a = wire[p] /\ b = Tail(a)
    OBVIOUS
  <1>3. /\ Len(a) \in Nat /\ Len(a) >= 1 /\ Len(b) = Len(a) - 1
        /\ Head(a) = a[1]
    BY <1>1, <1>2, TailElements
  <1>4. ASSUME wire' = [wire EXCEPT ![p] = Tail(@)]
        PROVE  Shifted(p)
    BY <1>1, <1>2, <1>3, <1>4 DEF Shifted
  <1> QED
    BY <1>2, <1>3, <1>4 DEF At

\* A step does not make a second message x when it makes none beside the first.
LEMMA LoneKept ==
  ASSUME FlowInv, [Next]_vars, NEW x, Lone(x), NEW p,
         \A t \in Procs : \A i \in 0..Len(wire'[t]) :
           Fresh(t, i) /\ Is(x, t, i)' =>
             ~ Present(x) /\ t = Down(p) /\ i = Len(wire[t]) + 1
  PROVE  Lone(x)'
  <1> SUFFICES ASSUME NEW t \in Procs, NEW r \in Procs,
                      NEW i \in 0..Len(wire'[t]), NEW j \in 0..Len(wire'[r]),
                      Is(x, t, i)', Is(x, r, j)'
               PROVE  t = r /\ i = j
    BY DEF Lone
  <1>1. /\ IsData(At(t, i)') /\ IsData(At(r, j)')
        /\ \A s \in Procs : Len(wire[s]) \in Nat /\ Len(wire'[s]) \in Nat
    BY NewsIsData, NextStreams, LenProperties DEF Is, FlowInv, Streams
  <1>2. /\ \/ Fresh(t, i)
           \/ \E s \in Procs : \E l \in 0..Len(wire[s]) : Goes(s, l, t, i)
        /\ \/ Fresh(r, j)
           \/ \E s \in Procs : \E l \in 0..Len(wire[s]) : Goes(s, l, r, j)
    BY <1>1, NextPlaces DEF Backwards
  <1>3. ASSUME NEW s \in Procs, NEW l \in 0..Len(wire[s]),
               Goes(s, l, t, i) \/ Goes(s, l, r, j)
        PROVE  Is(x, s, l)
    BY <1>3 DEF Goes, Is
  <1>4. CASE Fresh(t, i) \/ Fresh(r, j)
    BY <1>2, <1>3, <1>4 DEF Present
  <1>5. ASSUME NEW s \in Procs, NEW l \in 0..Len(wire[s]), Goes(s, l, t, i),
               NEW s2 \in Procs, NEW l2 \in 0..Len(wire[s2]), Goes(s2, l2, r, j)
        PROVE  t = r /\ i = j
    <2>1. s2 = s /\ l2 = l
      BY <1>3, <1>5 DEF Lone
    <2>2. IsData(At(s, l))
      BY <1>1, <1>5 DEF Goes
    <2>3. i \in Nat /\ j \in Nat /\ l \in Nat
      BY <1>1
    <2> QED
      BY <1>5, <2>1, <2>2, <2>3, GoesOnce
  <1> QED
    BY <1>2, <1>4, <1>5

\* A message that is picked up has been read by the case of its header.
LEMMA NewsPickedUp ==
  ASSUME FlowInv, NEW t \in Procs, Goes(t, 1, t, 0), IsNews(At(t, 0)')
  PROVE  /\ At(t, 1) = Head(wire[t]) /\ At(t, 0)' = At(t, 1)
         /\ At(t, 1).head = "totalData" =>
              ReceiveTotalData(t) /\ At(t, 1).from # t
         /\ At(t, 1).head = "underSale" =>
              /\ ReceiveUnderSale(t) /\ ~ Lists(t, At(t, 1).part.id)
              /\ underSale' = [underSale EXCEPT ![t] = @ \cup {At(t, 1).part}]
  <1>1. /\ Receive(t) /\ GoOn(t) /\ handling[t] = None /\ wire[t] # << >>
        /\ At(t, 0)' = At(t, 1)
    BY NewsIsData, PickedUp
  <1>2. At(t, 1) = Head(wire[t])
    BY <1>1, ReadPlace
  <1>3. handling'[t] # handling[t]
    BY <1>1, NewsIsData, NoneIsNoData DEF At
  <1>4. CASE At(t, 1).head = "totalData"
    BY <1>1, <1>2, <1>3, <1>4
       DEF Receive, ReceiveOrder, ReceiveTotalData, ReceiveUnderSale, Reads
  <1>5. CASE At(t, 1).head = "underSale"
    BY <1>1, <1>2, <1>3, <1>5
       DEF Receive, ReceiveOrder, ReceiveTotalData, ReceiveUnderSale, Reads,
           Lists
  <1> QED
    BY <1>1, <1>2, <1>4, <1>5

-------------------------------------------------------------------------------
(***************************************************************************)
(* The totals on their round.                                              *)
(***************************************************************************)

\* Only q sends totals of its own.
LEMMA FreshTotals ==
  ASSUME FlowInv, NEW q \in Procs, NEW t \in Procs, NEW i, Fresh(t, i),
         Is(TotalsOf(q), t, i)'
  PROVE  /\ SendTotalData(q) /\ t = Down(q) /\ i = Len(wire[t]) + 1
         /\ At(t, i)'.sales = Sales(q) /\ At(t, i)'.parts = Kinds(q)
         /\ OnTrack(1, q, t, i)'
  <1>1. IsNews(At(t, i)') /\ Id(At(t, i)') = TotalsOf(q)
    BY DEF Is
  <1>2. \A p : TotalsOf(p) = TotalsOf(q) => p = q
    BY DEF TotalsOf
  <1>3. \A k : Entry(k) # TotalsOf(q)
    BY DEF TotalsOf, Entry
  <1> QED
    BY <1>1, <1>2, <1>3, FreshNews DEF Sales, Kinds

LEMMA TotalsHead ==
  ASSUME NEW q, NEW s, NEW i
  PROVE  Is(TotalsOf(q), s, i) <=>
           At(s, i).head = "totalData" /\ At(s, i).from = q
  BY DEF Is, IsNews, Id, TotalsOf

\* q sends its totals once, and they stay as they are and on their track.
LEMMA TotalsTravel ==
  ASSUME FlowInv, PhaseInv, TotalsInv, [Next]_vars, NEW q \in Procs
  PROVE  /\ Present(TotalsOf(q))' => HasSent(q)'
         /\ Lone(TotalsOf(q))'
         /\ \A t \in Procs : \A i \in 0..Len(wire'[t]) :
              Is(TotalsOf(q), t, i)' => TotalsPlaced(q, t, i)'
  <1>1. Progress(q)
    BY NextPhase
  <1>2. /\ Present(TotalsOf(q)) => HasSent(q)
        /\ Lone(TotalsOf(q))
        /\ \A s \in Procs : \A i \in 0..Len(wire[s]) :
             Is(TotalsOf(q), s, i) => TotalsPlaced(q, s, i)
    BY DEF TotalsInv
  <1>3. Lone(TotalsOf(q))'
    <2>1. \A t \in Procs : \A i \in 0..Len(wire'[t]) :
            Fresh(t, i) /\ Is(TotalsOf(q), t, i)' =>
              /\ ~ Present(TotalsOf(q)) /\ t = Down(q) /\ i = Len(wire[t]) + 1
      BY <1>1, <1>2, FreshTotals DEF Progress
    <2> QED
      BY <1>2, <2>1, LoneKept
  <1>4. ASSUME NEW t \in Procs, NEW i \in 0..Len(wire'[t]),
               Is(TotalsOf(q), t, i)'
        PROVE  TotalsPlaced(q, t, i)' /\ HasSent(q)'
    <2>1. Fresh(t, i) \/ \E s \in Procs : \E j \in 0..Len(wire[s]) : Goes(s, j, t, i)
      BY <1>4, NextPlaces, NewsIsData DEF Backwards, Is
    <2>2. \A s \in Procs : Len(wire[s]) \in Nat
      BY LenProperties DEF FlowInv, Streams
    <2>3. CASE Fresh(t, i)
      <3>1. /\ SendTotalData(q) /\ t = Down(q) /\ t # q
            /\ At(t, i)'.sales = Sales(q) /\ At(t, i)'.parts = Kinds(q)
            /\ OnTrack(1, q, t, i)'
        BY <1>4, <2>3, FreshTotals, RingArithmetic
      <3>2. Sales(q)' = Sales(q) /\ Kinds(q)' = Kinds(q)
        BY <3>1 DEF SendTotalData, sumVars, Sales, Kinds
      <3>3. HasSent(q)'
        BY <1>1, <3>1 DEF Progress
      <3> QED
        BY <3>1, <3>2, <3>3 DEF TotalsPlaced
    <2>4. ASSUME NEW s \in Procs, NEW j \in 0..Len(wire[s]), Goes(s, j, t, i)
          PROVE  TotalsPlaced(q, t, i)' /\ HasSent(q)'
      <3>1. At(t, i)' = At(s, j) /\ Is(TotalsOf(q), s, j)
        BY <1>4, <2>4 DEF Goes, Is
      <3>2. TotalsPlaced(q, s, j) /\ HasSent(q)
        BY <1>2, <3>1 DEF Present
      <3>3. HasSent(q)' /\ finish_index[q] > 0
        BY <1>1, <3>2 DEF Progress, HasSent, FlowInv, ControlInv, ControlType
      <3>4. Sales(q)' = Sales(q) /\ Kinds(q)' = Kinds(q)
        BY <3>3, SumsFixed DEF Sales, Kinds
      <3>5. t # s => s # q
        BY <2>4, <3>2 DEF Goes, TotalsPlaced
      <3>6. OnTrack(1, q, t, i)'
        BY <2>4, <3>2, <3>5 DEF Goes, Kept, TotalsPlaced
      <3>7. i = 0 => t # q
        <4>1. CASE t = s /\ i = j
          BY <3>2, <4>1 DEF TotalsPlaced
        <4>2. CASE t = s /\ j = i + 1
          <5> SUFFICES ASSUME i = 0 PROVE t # q
            OBVIOUS
          <5>1. Goes(t, 1, t, 0) /\ IsNews(At(t, 0)')
            BY <1>4, <2>4, <4>2 DEF Is
          <5>2. At(t, 1).head = "totalData" /\ At(t, 1).from = q
            BY <3>1, <4>2, TotalsHead
          <5> QED
            BY <5>1, <5>2, NewsPickedUp
        <4>3. CASE i = Len(wire[t]) + 1
          BY <2>2, <4>3
        <4> QED
          BY <2>4, <4>1, <4>2, <4>3 DEF Goes
      <3> QED
        BY <3>1, <3>2, <3>3, <3>4, <3>6, <3>7 DEF TotalsPlaced
    <2> QED
      BY <2>1, <2>3, <2>4
  <1>5. Present(TotalsOf(q))' => HasSent(q)'
    BY <1>4 DEF Present
  <1> QED
    BY <1>3, <1>4, <1>5

\* The totals of q are read at p: they had to come, and have come.
LEMMA TotalsRead ==
  ASSUME FlowInv, PhaseInv, TotalsInv, [Next]_vars, NEW p \in Procs,
         ReceiveTotalData(p)
  PROVE  \E q \in Procs :
           /\ Head(wire[p]).from = q /\ HasSent(q)
           /\ Head(wire[p]).sales = Sales(q) /\ Head(wire[p]).parts = Kinds(q)
           /\ q # p => Awaited(q, p) /\ ~ Awaited(q, p)'
  <1>1. wire[p] # << >> /\ Head(wire[p]).head = "totalData"
        /\ wire' = [wire EXCEPT ![p] = Tail(@)]
    BY DEF ReceiveTotalData, Reads, Ring!Receives, Consume
  <1>2. 1 \in 0..Len(wire[p]) /\ At(p, 1) = Head(wire[p]) /\ Shifted(p)
    BY <1>1, ReadPlace
  <1>3. PICK q \in Procs : q = Head(wire[p]).from
    BY <1>1, HeadSound DEF FlowInv, Sound, Message
  <1>4. Is(TotalsOf(q), p, 1)
    BY <1>1, <1>2, <1>3, TotalsHead
  <1>5. /\ HasSent(q) /\ Lone(TotalsOf(q)) /\ TotalsPlaced(q, p, 1)
        /\ \A s \in Procs : \A j \in 0..Len(wire[s]) :
             Is(TotalsOf(q), s, j) => TotalsPlaced(q, s, j)
    BY <1>2, <1>4 DEF TotalsInv, Present
  <1>6. Awaited(q, p)
    <2>1. Coming(q, p, p, 1)
      BY RingArithmetic, NAssumption DEF Coming
    <2> QED
      BY <1>2, <1>4, <2>1 DEF Awaited
  <1>7. ASSUME NEW t \in Procs, NEW i \in 0..Len(wire'[t]),
               Is(TotalsOf(q), t, i)', Coming(q, p, t, i)
        PROVE  FALSE
    <2>1. ~ Fresh(t, i)
      BY <1>5, <1>7, FreshTotals, NextPhase DEF Progress
    <2>2. PICK s \in Procs : \E j \in 0..Len(wire[s]) : Goes(s, j, t, i)
      BY <1>7, <2>1, NextPlaces, NewsIsData DEF Backwards, Is
    <2>3. PICK j \in 0..Len(wire[s]) : Goes(s, j, t, i)
      BY <2>2
    <2>4. s = p /\ j = 1
      BY <1>2, <1>4, <1>5, <1>7, <2>3 DEF Goes, Is, Lone
    <2>5. t = s /\ i = 0
      <3>1. i \in Nat
        BY NextStreams, LenProperties DEF Streams
      <3> QED
        BY <1>2, <2>3, <2>4, <3>1 DEF Goes
    <2>6. Streams
      BY DEF FlowInv
    <2>7. Coming(q, p, t, i) => ~ (t = s /\ i = 0 /\ j = 1 /\ p = s)
      BY <2>3, <2>4, <2>5, <2>6, GoesComing
    <2> QED
      BY <1>7, <2>4, <2>5, <2>7
  <1> QED
    BY <1>2, <1>3, <1>5, <1>6, <1>7 DEF Awaited, TotalsPlaced

\* What has been sent and is not read at p has still to come to p, or not, as
\* before.
LEMMA TotalsStay ==
  ASSUME FlowInv, PhaseInv, TotalsInv, [Next]_vars, NEW p \in Procs,
         NEW q \in Procs, p # q, HasSent(q),
         ~ (ReceiveTotalData(p) /\ Head(wire[p]).from = q)
  PROVE  Awaited(q, p)' <=> Awaited(q, p)
  <1>1. /\ \A s \in Procs : \A j \in 0..Len(wire[s]) :
             Is(TotalsOf(q), s, j) => TotalsPlaced(q, s, j)
        /\ Streams
    BY DEF TotalsInv, FlowInv
  <1>2. \A s \in Procs : Len(wire[s]) \in Nat /\ Len(wire'[s]) \in Nat
    BY <1>1, NextStreams, LenProperties DEF Streams
  <1>3. ASSUME NEW s \in Procs, NEW j \in 0..Len(wire[s]),
               NEW t \in Procs, NEW i \in 0..Len(wire'[t]),
               Goes(s, j, t, i), Is(TotalsOf(q), s, j)
        PROVE  Is(TotalsOf(q), t, i)' /\ (Coming(q, p, t, i) <=> Coming(q, p, s, j))
    <2>1. Is(TotalsOf(q), t, i)'
      BY <1>3 DEF Goes, Is
    <2>2. t # s => s # q
      BY <1>1, <1>3 DEF Goes, TotalsPlaced
    <2>3. ~ (t = s /\ i = 0 /\ j = 1 /\ p = s)
      <3> SUFFICES ASSUME t = s, i = 0, j = 1, p = s PROVE FALSE
        OBVIOUS
      <3>1. Goes(t, 1, t, 0) /\ IsNews(At(t, 0)')
        BY <1>3, <2>1 DEF Is
      <3>2. At(t, 1).head = "totalData" /\ At(t, 1).from = q
        BY <1>3, TotalsHead
      <3> QED
        BY <3>1, <3>2, NewsPickedUp
    <2>4. i \in Nat /\ j \in Nat
      BY <1>2
    <2> QED
      BY <1>1, <1>3, <2>1, <2>2, <2>3, <2>4, GoesComing
  <1>4. ASSUME NEW t \in Procs, NEW i \in 0..Len(wire'[t]),
               Is(TotalsOf(q), t, i)', Coming(q, p, t, i)
        PROVE  Awaited(q, p)
    <2>1. ~ Fresh(t, i)
      BY <1>4, FreshTotals, NextPhase DEF Progress
    <2>2. PICK s \in Procs : \E j \in 0..Len(wire[s]) : Goes(s, j, t, i)
      BY <1>4, <2>1, NextPlaces, NewsIsData DEF Backwards, Is
    <2>3. PICK j \in 0..Len(wire[s]) : Goes(s, j, t, i)
      BY <2>2
    <2>4. Is(TotalsOf(q), s, j)
      BY <1>4, <2>3 DEF Goes, Is
    <2> QED
      BY <1>3, <1>4, <2>3, <2>4 DEF Awaited
  <1>5. ASSUME NEW s \in Procs, NEW j \in 0..Len(wire[s]),
               Is(TotalsOf(q), s, j), Coming(q, p, s, j)
        PROVE  Awaited(q, p)'
    <2>1. At(s, j).head = "totalData" /\ At(s, j).from = q
      BY <1>5, TotalsHead
    <2>2. /\ Hops(q, s) \in 1..N /\ Hops(q, p) \in 1..N
          /\ Hops(q, p) = N => p = q
          /\ Hops(q, q) = N
      BY RingArithmetic
    <2>3. ~ (Receive(s) /\ j = 1 /\ UNCHANGED handling)
      <3> SUFFICES ASSUME Receive(s), j = 1, UNCHANGED handling PROVE FALSE
        OBVIOUS
      <3>1. wire[s] # << >> /\ handling[s] = None
        BY DEF Receive, ReceiveOrder, ReceiveTotalData, ReceiveUnderSale, Reads,
               Ring!Receives
      <3>2. At(s, 1) = Head(wire[s])
        BY <3>1, ReadPlace
      <3>3. ReceiveTotalData(s)
        BY <2>1, <3>2 DEF Receive, ReceiveOrder, ReceiveUnderSale, Reads
      <3>4. ~ GoOn(s)
        <4>1. Head(wire[s]) # None
          BY <2>1, <3>2 DEF None
        <4>2. PICK S : handling \in [Procs -> Held(S)]
          BY <1>1 DEF Streams
        <4> QED
          BY <3>1, <4>1, <4>2 DEF GoOn
      <3>5. s = q
        BY <2>1, <3>2, <3>3, <3>4 DEF ReceiveTotalData
      <3> QED
        BY <1>5, <2>2, <3>5, NAssumption DEF Coming
    <2>4. ~ (Forward(s) /\ j = 0 /\ s \in closed)
      <3> SUFFICES ASSUME j = 0, s \in closed PROVE FALSE
        OBVIOUS
      <3>1. Announced(s, 1)
        BY DEF FlowInv, ControlInv, ClosedLast, LeftAnnounced, Announced
      <3>2. OnTrack(1, q, s, 0)
        BY <1>1, <1>5 DEF TotalsPlaced
      <3> QED
        BY <2>2, <3>1, <3>2 DEF OnTrack
    <2>5. PICK t \in Procs : \E i \in 0..Len(wire'[t]) : Goes(s, j, t, i)
      BY <1>5, <2>3, <2>4, NextPlaces, NewsIsData DEF Onwards, Gone, Is
    <2>6. PICK i \in 0..Len(wire'[t]) : Goes(s, j, t, i)
      BY <2>5
    <2>7. Is(TotalsOf(q), t, i)' /\ Coming(q, p, t, i)
      BY <1>3, <1>5, <2>6
    <2>8. Coming(q, p, t, i)'
      BY <2>7 DEF Coming
    <2> QED
      BY <2>7, <2>8 DEF Awaited
  <1>6. Awaited(q, p)' => Awaited(q, p)
    <2>1. \A t \in Procs : \A i : Coming(q, p, t, i)' <=> Coming(q, p, t, i)
      BY DEF Coming
    <2> QED
      BY <1>4, <2>1 DEF Awaited
  <1> QED
    BY <1>5, <1>6 DEF Awaited

\* What q has just sent has still to come to everybody else.
LEMMA TotalsSent ==
  ASSUME FlowInv, NEW q \in Procs, SendTotalData(q), NEW p \in Procs
  PROVE  Awaited(q, p)'
  <1>1. PICK e : e = [head |-> "totalData", from |-> q, sales |-> localSales[q],
                      parts |-> Cardinality(DOMAIN saleCount[q])]
    OBVIOUS
  <1>2. Send(q, e) /\ q \notin closed
    BY <1>1 DEF SendTotalData, InPhase, FlowInv, ControlInv, ClosedLast
  <1>3. PICK i \in 0..Len(wire'[Down(q)]) :
          At(Down(q), i)' = e /\ \A u \in Procs : Coming(q, u, Down(q), i)
    BY <1>2, SentPlace
  <1>4. At(Down(q), i)'.head = "totalData" /\ At(Down(q), i)'.from = q
    BY <1>1, <1>3
  <1>5. Is(TotalsOf(q), Down(q), i)'
    BY <1>4 DEF Is, IsNews, Id, TotalsOf
  <1>6. Coming(q, p, Down(q), i)'
    BY <1>3 DEF Coming
  <1> QED
    BY <1>5, <1>6, RingArithmetic DEF Awaited

\* The step adds the totals of q to p's sums.
Hears(p, q) ==
  IF p = q THEN AddLocalTotals(p)
           ELSE ReceiveTotalData(p) /\ Head(wire[p]).from = q

\* They become part of them then, and only then.
LEMMA HeardStep ==
  ASSUME FlowInv, PhaseInv, TotalsInv, [Next]_vars,
         NEW p \in Procs, NEW q \in Procs
  PROVE  /\ Heard(p, q)' <=> Heard(p, q) \/ Hears(p, q)
         /\ Hears(p, q) => ~ Heard(p, q)
  <1>1. Progress(q)
    BY NextPhase
  <1>2. CASE p = q
    BY <1>1, <1>2 DEF Progress, Heard, Hears
  <1>3. CASE p # q
    <2>1. Hears(p, q) => HasSent(q) /\ Awaited(q, p) /\ ~ Awaited(q, p)'
      BY <1>3, TotalsRead DEF Hears
    <2>2. SendTotalData(q) => ~ HasSent(q) /\ Awaited(q, p)'
      BY <1>1, TotalsSent DEF Progress
    <2>3. HasSent(q) /\ ~ Hears(p, q) => (Awaited(q, p)' <=> Awaited(q, p))
      BY <1>3, TotalsStay DEF Hears
    <2>4. HasSent(q)' <=> HasSent(q) \/ SendTotalData(q)
      BY <1>1 DEF Progress
    <2> QED
      BY <1>3, <2>1, <2>2, <2>3, <2>4 DEF Heard
  <1> QED
    BY <1>2, <1>3

\* What a step adds to the sums of an instance.
LEMMA SumsHear ==
  ASSUME FlowInv, PhaseInv, TotalsInv, [Next]_vars, NEW p \in Procs
  PROVE  \/ /\ totalSales'[p] = totalSales[p] /\ partCount'[p] = partCount[p]
            /\ \A q \in Procs : ~ Hears(p, q)
         \/ \E r \in Procs :
              /\ \A q \in Procs : Hears(p, q) <=> q = r
              /\ totalSales'[p] = totalSales[p] + Sales(r)
              /\ partCount'[p] = partCount[p] + Kinds(r)
  <1>1. /\ partCount \in [Procs -> Nat] /\ totalSales \in [Procs -> Nat]
        /\ ControlType
    BY DEF FlowInv, CountsInv, ControlInv
  <1>2. AddLocalTotals(p) => ~ ReceiveTotalData(p)
    BY <1>1 DEF AddLocalTotals, ReceiveTotalData, Advance, ControlType
  <1>3. CASE AddLocalTotals(p)
    <2>1. /\ totalSales'[p] = totalSales[p] + Sales(p)
          /\ partCount'[p] = partCount[p] + Kinds(p)
      BY <1>1, <1>3 DEF AddLocalTotals, Sales, Kinds
    <2>2. \A q \in Procs : Hears(p, q) <=> q = p
      BY <1>2, <1>3 DEF Hears
    <2> QED
      BY <2>1, <2>2
  <1>4. CASE ReceiveTotalData(p)
    <2>1. PICK r \in Procs :
            /\ Head(wire[p]).from = r
            /\ Head(wire[p]).sales = Sales(r) /\ Head(wire[p]).parts = Kinds(r)
      BY <1>4, TotalsRead
    <2>2. \A q \in Procs : Hears(p, q) <=> q = r /\ q # p
      BY <1>2, <1>4, <2>1 DEF Hears
    <2>3. CASE r = p
      <3>1. UNCHANGED totalVars
        BY <1>4, <2>1, <2>3 DEF ReceiveTotalData
      <3> QED
        BY <2>2, <2>3, <3>1 DEF totalVars
    <2>4. CASE r # p
      <3>1. /\ totalSales'[p] = totalSales[p] + Sales(r)
            /\ partCount'[p] = partCount[p] + Kinds(r)
        BY <1>1, <1>4, <2>1, <2>4 DEF ReceiveTotalData
      <3> QED
        BY <2>2, <2>4, <3>1
    <2> QED
      BY <2>3, <2>4
  <1>5. CASE ~ (AddLocalTotals(p) \/ ReceiveTotalData(p))
    <2>1. \A q \in Procs : ~ Hears(p, q)
      BY <1>5 DEF Hears
    <2>2. totalSales'[p] = totalSales[p] /\ partCount'[p] = partCount[p]
      <3>1. ASSUME NEW r \in Procs, AddLocalTotals(r) \/ ReceiveTotalData(r)
            PROVE  totalSales'[p] = totalSales[p] /\ partCount'[p] = partCount[p]
        BY <1>1, <1>5, <3>1 DEF AddLocalTotals, ReceiveTotalData, totalVars
      <3>2. \/ UNCHANGED totalVars
            \/ \E r \in Procs : AddLocalTotals(r) \/ ReceiveTotalData(r)
        <4>1. CASE UNCHANGED vars
          BY <4>1 DEF vars, routingVars
        <4>2. ASSUME NEW r \in Procs, Calculate(r)
              PROVE  UNCHANGED totalVars \/ AddLocalTotals(r)
          BY <4>2 DEF Calculate, SolveOrder, SendTotalData, ReadAverage,
                      SendUnderSale, Close
        <4>3. ASSUME NEW r \in Procs, Synchronise(r)
              PROVE  UNCHANGED totalVars
          BY <4>3 DEF Synchronise, EnterBarrier, LeaveBarrier, routingVars
        <4>4. ASSUME NEW r \in Procs, Serve(r)
              PROVE  UNCHANGED totalVars \/ ReceiveTotalData(r)
          BY <4>4 DEF Serve, ReceiveFinish, ReceiveOrder, ReceiveUnderSale,
                      Forward, routingVars
        <4> QED
          BY <4>1, <4>2, <4>3, <4>4 DEF Next
      <3> QED
        BY <3>1, <3>2 DEF totalVars
    <2> QED
      BY <2>1, <2>2
  <1> QED
    BY <1>3, <1>4, <1>5

\* A number that was 0 takes part in a sum.
LEMMA TotalJoined ==
  ASSUME NEW s \in [1..N -> Int], NEW t \in [1..N -> Int], NEW r \in 1..N,
         s[r] = 0, \A q \in 1..N : q # r => t[q] = s[q]
  PROVE  Total(t) = Total(s) + t[r]
  <1>1. s \in Seq(Int) /\ Len(s) = N /\ t \in Seq(Int) /\ Len(t) = N
    BY NAssumption
  <1>2. r \in 1..Len(s) /\ \A q \in 1..Len(s) : q # r => t[q] = s[q]
    BY <1>1
  <1>3. Total(t) = Total(s) - s[r] + t[r]
    BY <1>1, <1>2, TotalReplaced
  <1>4. Total(s) \in Int /\ t[r] \in Int
    BY <1>1, TotalType
  <1> QED
    BY <1>3, <1>4

\* The sums of an instance are those of the instances it has heard.
LEMMA NextSums ==
  ASSUME FlowInv, PhaseInv, TotalsInv, [Next]_vars, NEW p \in Procs
  PROVE  /\ totalSales'[p] =
              Total([q \in 1..N |-> IF Heard(p, q)' THEN Sales(q)' ELSE 0])
         /\ partCount'[p] =
              Total([q \in 1..N |-> IF Heard(p, q)' THEN Kinds(q)' ELSE 0])
  <1>1. Procs = 1..N
    BY DEF Procs, Ring!Procs
  <1>2. \A q \in Procs : Sales(q) \in Int /\ Kinds(q) \in Int
    <2>1. \A q \in Procs : Kinds(q) \in Nat
      BY CountsFinite DEF FlowInv, Kinds
    <2> QED
      BY <2>1 DEF FlowInv, CountsInv, Sales
  <1>3. \A q \in Procs : /\ Heard(p, q)' <=> Heard(p, q) \/ Hears(p, q)
                         /\ Hears(p, q) => ~ Heard(p, q)
    BY HeardStep
  <1>4. ASSUME NEW q \in Procs, Heard(p, q) \/ Hears(p, q)
        PROVE  Sales(q)' = Sales(q) /\ Kinds(q)' = Kinds(q)
    <2>1. finish_index[q] > 0
      <3>1. HasAdded(q) \/ HasSent(q) \/ AddLocalTotals(q)
        BY <1>4, TotalsRead DEF Heard, Hears
      <3> QED
        BY <3>1 DEF HasAdded, HasSent, AddLocalTotals, InPhase, FlowInv,
                    ControlInv, ControlType
    <2> QED
      BY <2>1, SumsFixed DEF Sales, Kinds
  <1>5. PICK s, t, u, v :
          /\ s = [q \in 1..N |-> IF Heard(p, q) THEN Sales(q) ELSE 0]
          /\ t = [q \in 1..N |-> IF Heard(p, q)' THEN Sales(q)' ELSE 0]
          /\ u = [q \in 1..N |-> IF Heard(p, q) THEN Kinds(q) ELSE 0]
          /\ v = [q \in 1..N |-> IF Heard(p, q)' THEN Kinds(q)' ELSE 0]
    OBVIOUS
  <1>6. totalSales[p] = Total(s) /\ partCount[p] = Total(u)
    BY <1>5 DEF TotalsInv
  <1>7. \A q \in 1..N :
          /\ ~ Hears(p, q) => t[q] = s[q] /\ v[q] = u[q]
          /\ Hears(p, q) => /\ s[q] = 0 /\ t[q] = Sales(q)
                            /\ u[q] = 0 /\ v[q] = Kinds(q)
    BY <1>1, <1>3, <1>4, <1>5
  <1>8. /\ s \in [1..N -> Int] /\ t \in [1..N -> Int]
        /\ u \in [1..N -> Int] /\ v \in [1..N -> Int]
    BY <1>1, <1>2, <1>3, <1>4, <1>5
  <1>9. ASSUME totalSales'[p] = totalSales[p], partCount'[p] = partCount[p],
               \A q \in Procs : ~ Hears(p, q)
        PROVE  totalSales'[p] = Total(t) /\ partCount'[p] = Total(v)
    <2>1. /\ s \in [Procs -> Int] /\ t \in [Procs -> Int]
          /\ u \in [Procs -> Int] /\ v \in [Procs -> Int]
          /\ \A q \in Procs : t[q] = s[q] /\ v[q] = u[q]
      BY <1>1, <1>7, <1>8, <1>9
    <2>2. t = s /\ v = u
      BY <2>1
    <2> QED
      BY <1>6, <1>9, <2>2
  <1>10. ASSUME NEW r \in Procs, \A q \in Procs : Hears(p, q) <=> q = r,
                totalSales'[p] = totalSales[p] + Sales(r),
                partCount'[p] = partCount[p] + Kinds(r)
         PROVE  totalSales'[p] = Total(t) /\ partCount'[p] = Total(v)
    <2>1. /\ r \in 1..N /\ s[r] = 0 /\ t[r] = Sales(r)
          /\ u[r] = 0 /\ v[r] = Kinds(r)
          /\ \A q \in 1..N : q # r => t[q] = s[q]
          /\ \A q \in 1..N : q # r => v[q] = u[q]
      BY <1>1, <1>7, <1>10
    <2>2. Total(t) = Total(s) + t[r]
      BY <1>8, <2>1, TotalJoined
    <2>3. Total(v) = Total(u) + v[r]
      BY <1>8, <2>1, TotalJoined
    <2> QED
      BY <1>6, <1>10, <2>1, <2>2, <2>3
  <1>11. totalSales'[p] = Total(t) /\ partCount'[p] = Total(v)
    <2>1. CASE /\ totalSales'[p] = totalSales[p] /\ partCount'[p] = partCount[p]
               /\ \A q \in Procs : ~ Hears(p, q)
      BY <1>9, <2>1
    <2> QED
      BY <1>10, <2>1, SumsHear
  <1> QED
    BY <1>5, <1>11

LEMMA NextTotals ==
  ASSUME FlowInv, PhaseInv, TotalsInv, [Next]_vars
  PROVE  TotalsInv'
  <1>1. ASSUME NEW q \in Procs
        PROVE  /\ Present(TotalsOf(q))' => HasSent(q)'
               /\ Lone(TotalsOf(q))'
               /\ \A t \in Procs : \A i \in 0..Len(wire'[t]) :
                    Is(TotalsOf(q), t, i)' => TotalsPlaced(q, t, i)'
    BY TotalsTravel
  <1>2. \A q \in Procs : TotalsOf(q)' = TotalsOf(q)
    BY DEF TotalsOf
  <1> QED
    BY <1>1, <1>2, NextSums DEF TotalsInv

\* At the beginning nobody has done or heard anything.
LEMMA InitTotals == Init => PhaseInv /\ TotalsInv
  <1> SUFFICES ASSUME Init PROVE PhaseInv /\ TotalsInv
    OBVIOUS
  <1>1. /\ finish_index = [p \in Procs |-> 0] /\ pc = [p \in Procs |-> "run"]
        /\ step = [p \in Procs |-> 0] /\ announce = [p \in Procs |-> {}]
        /\ wire = [p \in Procs |-> << >>] /\ handling = [p \in Procs |-> None]
        /\ totalSales = [p \in Procs |-> 0] /\ partCount = [p \in Procs |-> 0]
    BY DEF Init, Ring!Init, Procs
  <1>2. PhaseInv
    BY <1>1 DEF PhaseInv, PhaseAt
  <1>3. \A x : \A s \in Procs : \A i \in 0..Len(wire[s]) : ~ Is(x, s, i)
    <2>1. Len(<< >>) = 0
      BY EmptySeq
    <2>2. ~ IsNews(None)
      BY DEF IsNews, None
    <2> QED
      BY <1>1, <2>1, <2>2 DEF Is, At
  <1>4. \A p, q \in Procs : ~ Heard(p, q)
    BY <1>1 DEF Heard, HasAdded, HasSent
  <1>5. ASSUME NEW p \in Procs
        PROVE  /\ totalSales[p] =
                    Total([q \in 1..N |-> IF Heard(p, q) THEN Sales(q) ELSE 0])
               /\ partCount[p] =
                    Total([q \in 1..N |-> IF Heard(p, q) THEN Kinds(q) ELSE 0])
    <2>1. PICK z : z = [q \in 1..N |-> 0]
      OBVIOUS
    <2>2. /\ [q \in 1..N |-> IF Heard(p, q) THEN Sales(q) ELSE 0] = z
          /\ [q \in 1..N |-> IF Heard(p, q) THEN Kinds(q) ELSE 0] = z
      BY <1>4, <2>1 DEF Procs, Ring!Procs
    <2>3. z \in Seq(Int) /\ \A i \in 1..Len(z) : z[i] = 0
      BY <2>1, NAssumption
    <2> QED
      BY <1>1, <2>2, <2>3, TotalZero
  <1> QED
    BY <1>2, <1>3, <1>5 DEF TotalsInv, Present, Lone

-------------------------------------------------------------------------------
(***************************************************************************)
(* The average.                                                            *)
(***************************************************************************)

\* An instance that is in the third phase has heard everybody.
LEMMA EverybodyHeard ==
  ASSUME FlowInv, PhaseInv, TotalsInv, NEW p \in Procs, finish_index[p] > 1,
         NEW q \in Procs
  PROVE  Heard(p, q) /\ finish_index[q] > 0
  <1>1. ControlType /\ LeftAnnounced /\ AnnouncedByAll /\ FinishedIsPrefix
    BY DEF FlowInv, ControlInv
  <1>2. Announced(p, 1)
    BY <1>1 DEF ControlType, LeftAnnounced, Announced
  <1>3. 1 \in is_finished[q]
    BY <1>1, <1>2 DEF AnnouncedByAll
  <1>4. finish_index[q] > 1 \/ (finish_index[q] = 1 /\ pc[q] # "run")
    BY <1>1, <1>3 DEF ControlType, FinishedIsPrefix, Ring!Inside
  <1>5. HasSent(q)
    BY <1>4 DEF HasSent, PhaseInv, PhaseAt
  <1>6. ~ Awaited(q, p)
    <2> SUFFICES ASSUME NEW s \in Procs, NEW i \in 0..Len(wire[s]),
                        Is(TotalsOf(q), s, i), Coming(q, p, s, i)
                 PROVE  FALSE
      BY DEF Awaited
    <2>1. OnTrack(1, q, s, i)
      BY DEF TotalsInv, TotalsPlaced
    <2>2. Hops(q, s) > Hops(q, p)
      BY <1>2, <2>1 DEF OnTrack
    <2>3. Hops(q, s) <= Hops(q, p)
      BY DEF Coming
    <2>4. Hops(q, s) \in 1..N /\ Hops(q, p) \in 1..N
      BY RingArithmetic
    <2> QED
      BY <2>2, <2>3, <2>4, NAssumption
  <1>7. HasAdded(p)
    BY DEF HasAdded
  <1>8. finish_index[q] > 0
    BY <1>1, <1>4 DEF ControlType
  <1> QED
    BY <1>5, <1>6, <1>7, <1>8 DEF Heard

\* The parts of disjoint sets are counted one set after the other.
LEMMA TotalUnion ==
  ASSUME NEW n \in Nat, NEW A,
         \A i \in 1..n : IsFiniteSet(A[i]),
         \A i, j \in 1..n : i # j => A[i] \cap A[j] = {}
  PROVE  Total([i \in 1..n |-> Cardinality(A[i])])
           = Cardinality(UNION {A[i] : i \in 1..n})
  <1> DEFINE U(m) == UNION {A[i] : i \in 1..m}
             T(m) == [i \in 1..m |-> Cardinality(A[i])]
             Holds == {m \in Nat : m <= n =>
                         IsFiniteSet(U(m)) /\ Total(T(m)) = Cardinality(U(m))}
  <1>1. \A i \in 1..n : Cardinality(A[i]) \in Nat
    BY FS_CardinalityType
  <1>2. 0 \in Holds
    <2>1. U(0) = {} /\ T(0) = << >>
      OBVIOUS
    <2> QED
      BY <2>1, FS_EmptySet, TotalEmpty
  <1>3. ASSUME NEW m \in Nat, m \in Holds, m + 1 <= n
        PROVE  IsFiniteSet(U(m + 1)) /\ Total(T(m + 1)) = Cardinality(U(m + 1))
    <2>1. m + 1 \in 1..n /\ 1..m \subseteq 1..n
      BY <1>3
    <2>2. U(m + 1) = U(m) \cup A[m + 1]
      OBVIOUS
    <2>3. U(m) \cap A[m + 1] = {}
      BY <2>1
    <2>4. IsFiniteSet(U(m)) /\ Total(T(m)) = Cardinality(U(m))
      BY <1>3
    <2>5. IsFiniteSet(A[m + 1])
      BY <2>1
    <2>6. /\ IsFiniteSet(U(m + 1))
          /\ Cardinality(U(m + 1)) = Cardinality(U(m)) + Cardinality(A[m + 1])
      <3> HIDE DEF U, Holds
      <3>1. /\ IsFiniteSet(U(m) \cup A[m + 1])
            /\ Cardinality(U(m) \cup A[m + 1]) =
                 Cardinality(U(m)) + Cardinality(A[m + 1])
                 - Cardinality(U(m) \cap A[m + 1])
        BY <2>4, <2>5, FS_Union
      <3>2. Cardinality({}) = 0
        BY FS_EmptySet
      <3>3. Cardinality(U(m)) \in Nat /\ Cardinality(A[m + 1]) \in Nat
        BY <2>4, <2>5, FS_CardinalityType
      <3>4. PICK a, b : a = Cardinality(U(m)) /\ b = Cardinality(A[m + 1])
        OBVIOUS
      <3>5. Cardinality(U(m) \cup A[m + 1]) = a + b - 0
        BY <2>3, <3>1, <3>2, <3>4
      <3>6. a + b - 0 = a + b
        BY <3>3, <3>4
      <3> QED
        BY <2>2, <3>1, <3>4, <3>5, <3>6
    <2>7. Total(T(m + 1)) = Total(T(m)) + Cardinality(A[m + 1])
      <3>1. T(m) \in Seq(Int) /\ Cardinality(A[m + 1]) \in Int
        BY <1>1, <2>1
      <3>2. T(m + 1) = Append(T(m), Cardinality(A[m + 1]))
        BY <1>1, <2>1
      <3> HIDE DEF T
      <3> QED
        BY <3>1, <3>2, TotalAppend
    <2> QED
      BY <2>4, <2>6, <2>7
  <1>4. \A m \in Nat : m \in Holds => m + 1 \in Holds
    <2> SUFFICES ASSUME NEW m \in Nat, m \in Holds PROVE m + 1 \in Holds
      OBVIOUS
    <2>1. m + 1 <= n => IsFiniteSet(U(m + 1)) /\ Total(T(m + 1)) = Cardinality(U(m + 1))
      BY <1>3
    <2>2. m + 1 \in Nat
      OBVIOUS
    <2> HIDE DEF U, T
    <2> QED
      BY <2>1, <2>2
  <1>5. n \in Holds
    <2> HIDE DEF Holds
    <2> QED
      BY <1>2, <1>4, InductiveSet
  <1> QED
    BY <1>5

\* No order is left anywhere when everybody is past the first barrier.
LEMMA NoOrderLeft ==
  ASSUME FlowInv, \A p \in Procs : finish_index[p] > 0, NEW q \in Procs
  PROVE  Load(All, q) = localSales[q]
  <1>1. ASSUME NEW m, Sound(m), Carries(All, m)
        PROVE  \E p \in Procs : \E k \in Parts[p] : Carries(k, m)
    <2>1. IsOrder(m) /\ m.order.lPartkey \in SoldParts
      BY <1>1 DEF Carries, Sound, RealOrder
    <2> QED
      BY <2>1, SoldSomewhere DEF Carries, IsOf
  <1>2. PICK S : /\ wire \in [Procs -> Seq(S)] /\ handling \in [Procs -> Held(S)]
                 /\ \A m \in S : Sound(m)
    BY DEF FlowInv, Streams
  <1>3. /\ \A i \in DOMAIN wire[q] : wire[q][i] \in S
        /\ handling[q] = None \/ handling[q] \in S
    BY <1>2, ElementOfSeq, LenProperties DEF Held
  <1>4. ~ Carries(All, None)
    BY DEF Carries, IsOrder, None
  <1>5. /\ \A i \in DOMAIN wire[q] : ~ Carries(All, wire[q][i])
        /\ ~ Carries(All, handling[q])
    BY <1>1, <1>2, <1>3, <1>4, NothingToCome
  <1>6. orders[q] = << >>
    BY LoopsDone
  <1>7. Load(All, q) = Counted(All, q)
    BY <1>5, <1>6, NothingLeft
  <1> QED
    BY <1>7 DEF Counted

\* The sums of an instance in the third phase are those of all orders.
LEMMA RightSums ==
  ASSUME FlowInv, PhaseInv, TotalsInv, Conserved, NEW p \in Procs,
         finish_index[p] > 1
  PROVE  <<totalSales[p], partCount[p]>> = Average
  <1>1. Procs = 1..N /\ N \in Nat
    BY NAssumption DEF Procs, Ring!Procs
  <1>2. \A q \in Procs : Heard(p, q) /\ finish_index[q] > 0
    BY EverybodyHeard
  <1>3. totalSales[p] = Total([q \in 1..N |-> Quantity(Orders[q])])
    <2>1. [q \in 1..N |-> IF Heard(p, q) THEN Sales(q) ELSE 0]
            = [q \in 1..N |-> Load(All, q)]
      BY <1>1, <1>2, NoOrderLeft DEF Sales
    <2>2. Total([q \in 1..N |-> Load(All, q)])
            = Total([q \in 1..N |-> Owed(All, Orders[q])])
      BY DEF Conserved
    <2>3. \A os : Owed(All, os) = Quantity(os)
      BY DEF Owed, Share, IsOf, Quantity
    <2> QED
      BY <2>1, <2>2, <2>3 DEF TotalsInv
  <1>4. partCount[p] = Cardinality(SoldParts)
    <2> DEFINE A == [q \in 1..N |-> Parts[q] \cap SoldParts]
    <2>1. \A q \in Procs : DOMAIN saleCount[q] = Parts[q] \cap SoldParts
      BY <1>2, AllCounted DEF FlowInv, CountsInv, Counts
    <2>2. [q \in 1..N |-> IF Heard(p, q) THEN Kinds(q) ELSE 0]
            = [q \in 1..N |-> Cardinality(A[q])]
      BY <1>1, <1>2, <2>1 DEF Kinds
    <2>3. \A q \in 1..N : IsFiniteSet(A[q])
      BY SoldFinite, FS_Subset
    <2>4. \A q, r \in 1..N : q # r => A[q] \cap A[r] = {}
      BY <1>1, PartsAssumption
    <2>5. UNION {A[q] : q \in 1..N} = SoldParts
      BY <1>1, SoldSomewhere
    <2> HIDE DEF A
    <2>6. Total([q \in 1..N |-> Cardinality(A[q])])
            = Cardinality(UNION {A[q] : q \in 1..N})
      BY <1>1, <2>3, <2>4, TotalUnion
    <2> QED
      BY <2>2, <2>5, <2>6 DEF TotalsInv
  <1> QED
    BY <1>3, <1>4 DEF Average

\* An average is read once.
LEMMA AverageStays ==
  ASSUME FlowInv, [Next]_vars, NEW p \in Procs, ~ ReadAverage(p)
  PROVE  avg'[p] = avg[p]
  <1>1. avg \in [Procs -> Nat \X Nat]
    BY DEF FlowInv, CountsInv
  <1>2. ASSUME NEW r \in Procs, ReadAverage(r)
        PROVE  avg'[p] = avg[p]
    <2>1. \E x : avg' = [avg EXCEPT ![r] = x]
      BY <1>2 DEF ReadAverage
    <2> QED
      BY <1>1, <1>2, <2>1
  <1>3. UNCHANGED avg \/ \E r \in Procs : ReadAverage(r)
    <2>1. CASE UNCHANGED vars
      BY <2>1 DEF vars, routingVars
    <2>2. ASSUME NEW r \in Procs, Calculate(r)
          PROVE  UNCHANGED avg \/ ReadAverage(r)
      BY <2>2 DEF Calculate, SolveOrder, AddLocalTotals, SendTotalData,
                  SendUnderSale, Close
    <2>3. ASSUME NEW r \in Procs, Synchronise(r)
          PROVE  UNCHANGED avg
      BY <2>3 DEF Synchronise, EnterBarrier, LeaveBarrier, routingVars
    <2>4. ASSUME NEW r \in Procs, Serve(r)
          PROVE  UNCHANGED avg
      BY <2>4 DEF Serve, ReceiveFinish, ReceiveOrder, ReceiveTotalData,
                  ReceiveUnderSale, Forward, routingVars
    <2> QED
      BY <2>1, <2>2, <2>3, <2>4 DEF Next
  <1> QED
    BY <1>2, <1>3

LEMMA NextAverage ==
  ASSUME FlowInv, PhaseInv, TotalsInv, Conserved, SameAverage, [Next]_vars
  PROVE  SameAverage'
  <1>1. Average' = Average
    BY DEF Average, Quantity, SoldParts, KeysOf
  <1>2. SameAverage <=> \A p \in Procs : HasRead(p) => avg[p] = Average
    BY DEF SameAverage, HasRead
  <1>3. SameAverage' <=> \A p \in Procs : HasRead(p)' => avg'[p] = Average
    BY <1>1 DEF SameAverage, HasRead
  <1>4. ASSUME NEW p \in Procs, HasRead(p)'
        PROVE  avg'[p] = Average
    <2>1. CASE ReadAverage(p)
      <3>1. finish_index[p] > 1 /\ avg'[p] = <<totalSales[p], partCount[p]>>
        BY <2>1 DEF ReadAverage, InPhase, FlowInv, CountsInv
      <3> QED
        BY <3>1, RightSums
    <2>2. CASE ~ ReadAverage(p)
      <3>1. HasRead(p)
        BY <1>4, <2>2, NextPhase DEF Progress
      <3> QED
        BY <1>2, <2>2, <3>1, AverageStays
    <2> QED
      BY <2>1, <2>2
  <1> QED
    BY <1>3, <1>4

\* What is known of the first three phases.
AverageInv ==
  FlowInv /\ Conserved /\ PhaseInv /\ TotalsInv /\ SameAverage

LEMMA AlwaysAverage == Spec => []AverageInv
  <1>1. Init => AverageInv
    <2>1. Init => SameAverage
      BY DEF Init, Ring!Init, Procs, SameAverage
    <2> QED
      BY <2>1, InitFlow, InitConserved, InitTotals DEF AverageInv
  <1>2. AverageInv /\ [Next]_vars => AverageInv'
    BY NextFlow, NextConserved, NextPhase, NextTotals, NextAverage
       DEF AverageInv
  <1> QED
    BY <1>1, <1>2, PTL DEF Spec

\* The averages all instances compare with are the same, that of all orders.
THEOREM AveragesAgree == Spec => []SameAverage
  BY AlwaysAverage, PTL DEF AverageInv

-------------------------------------------------------------------------------
(***************************************************************************)
(* The undersold parts.                                                    *)
(***************************************************************************)

\* Each part has one owner.
LEMMA OwnerOf ==
  ASSUME NEW k \in SoldParts
  PROVE  /\ Owner(k) \in Procs /\ k \in Parts[Owner(k)]
         /\ \A q \in Procs : k \in Parts[q] => q = Owner(k)
  <1>1. \E q \in Procs : k \in Parts[q]
    BY SoldSomewhere
  <1>2. Owner(k) \in Procs /\ k \in Parts[Owner(k)]
    BY <1>1 DEF Owner
  <1> QED
    BY <1>2, PartsAssumption

LEMMA UndersoldEntries ==
  ASSUME NEW x
  PROVE  x \in Undersold <=>
           \E k \in SoldParts :
             /\ SellsBadly(SumOf[k], Average)
             /\ x = [id |-> k, saleCount |-> SumOf[k]]
  BY DEF Undersold, SumOf

LEMMA EntryHead ==
  ASSUME NEW k, NEW s, NEW i
  PROVE  Is(Entry(k), s, i) <=>
           At(s, i).head = "underSale" /\ At(s, i).part.id = k
  BY DEF Is, IsNews, Id, Entry

\* The parts an instance has still to send: it finds them when it reads the
\* average, and sends one after the other.
LEMMA AnnounceStep ==
  ASSUME FlowInv, Conserved, PhaseInv, TotalsInv, [Next]_vars, NEW q \in Procs
  PROVE  \/ announce'[q] = announce[q] /\ ~ ReadAverage(q)
         \/ /\ ReadAverage(q)
            /\ announce'[q] = {k \in Parts[q] \cap SoldParts :
                                 SellsBadly(SumOf[k], Average)}
         \/ /\ SendUnderSale(q) /\ ~ ReadAverage(q)
            /\ announce'[q] \subseteq announce[q]
  <1>1. /\ announce = [p \in Procs |-> announce[p]]
        /\ avg \in [Procs -> Nat \X Nat] /\ ControlType
    BY DEF FlowInv, CountsInv, ControlInv
  <1>2. CASE ReadAverage(q)
    <2>1. finish_index[q] > 1 /\ avg'[q] = <<totalSales[q], partCount[q]>>
      BY <1>1, <1>2 DEF ReadAverage, InPhase
    <2>2. avg'[q] = Average
      BY <2>1, RightSums
    <2>3. DOMAIN saleCount[q] \subseteq Parts[q] \cap SoldParts
      BY DEF FlowInv, CountsInv, Counts
    <2>4. \A k \in Parts[q] \cap SoldParts :
            k \in DOMAIN saleCount[q] /\ saleCount[q][k] = SumOf[k]
      <3>1. finish_index[q] > 0
        BY <1>1, <2>1 DEF ControlType
      <3> QED
        BY <3>1, AllCounted
    <2>5. announce'[q] = {k \in DOMAIN saleCount[q] :
                            SellsBadly(saleCount[q][k], avg'[q])}
      BY <1>1, <1>2 DEF ReadAverage
    <2>6. announce'[q] = {k \in Parts[q] \cap SoldParts :
                            SellsBadly(SumOf[k], Average)}
      BY <2>2, <2>3, <2>4, <2>5
    <2> QED
      BY <1>2, <2>6
  <1>3. CASE SendUnderSale(q)
    <2>1. ~ ReadAverage(q)
      BY <1>1, <1>3 DEF SendUnderSale, ReadAverage, Advance, ControlType
    <2>2. announce'[q] \subseteq announce[q]
      BY <1>1, <1>3 DEF SendUnderSale
    <2> QED
      BY <1>3, <2>1, <2>2
  <1>4. CASE ~ ReadAverage(q) /\ ~ SendUnderSale(q)
    <2>1. ASSUME NEW r \in Procs, ReadAverage(r) \/ SendUnderSale(r)
          PROVE  announce'[q] = announce[q]
      BY <1>1, <1>4, <2>1 DEF ReadAverage, SendUnderSale
    <2>2. UNCHANGED announce \/ \E r \in Procs : ReadAverage(r) \/ SendUnderSale(r)
      <3>1. CASE UNCHANGED vars
        BY <3>1 DEF vars, routingVars, listVars
      <3>2. ASSUME NEW r \in Procs, Calculate(r)
            PROVE  UNCHANGED announce \/ ReadAverage(r) \/ SendUnderSale(r)
        BY <3>2 DEF Calculate, SolveOrder, AddLocalTotals, SendTotalData,
                    Close, listVars
      <3>3. ASSUME NEW r \in Procs, Synchronise(r)
            PROVE  UNCHANGED announce
        BY <3>3 DEF Synchronise, EnterBarrier, LeaveBarrier, routingVars,
                    listVars
      <3>4. ASSUME NEW r \in Procs, Serve(r)
            PROVE  UNCHANGED announce
        BY <3>4 DEF Serve, ReceiveFinish, ReceiveOrder, ReceiveTotalData,
                    ReceiveUnderSale, Forward, routingVars, listVars
      <3> QED
        BY <3>1, <3>2, <3>3, <3>4 DEF Next
    <2> QED
      BY <1>4, <2>1, <2>2
  <1> QED
    BY <1>2, <1>3, <1>4

\* The owner of k sends the entry.
Tells(k) ==
  SendUnderSale(Owner(k)) /\ k \in announce[Owner(k)] \ announce'[Owner(k)]

LEMMA ToldStep ==
  ASSUME AverageInv, ListInv, [Next]_vars, NEW k \in SoldParts
  PROVE  /\ Told(k)' <=> Told(k) \/ Tells(k)
         /\ Tells(k) => ~ Told(k)
  <1>1. /\ FlowInv /\ Conserved /\ PhaseInv /\ TotalsInv
        /\ Owner(k) \in Procs /\ k \in Parts[Owner(k)]
    BY OwnerOf DEF AverageInv
  <1>2. PICK q \in Procs : q = Owner(k) /\ k \in Parts[q]
    BY <1>1
  <1>3. Progress(q)
    BY <1>1, NextPhase
  <1>4. k \in announce[q] => HasRead(q) /\ SellsBadly(SumOf[k], Average)
    BY <1>1 DEF ListInv, PhaseInv, PhaseAt, HasRead
  <1>5. \/ announce'[q] = announce[q] /\ ~ ReadAverage(q)
        \/ /\ ReadAverage(q)
           /\ announce'[q] = {j \in Parts[q] \cap SoldParts :
                                SellsBadly(SumOf[j], Average)}
        \/ /\ SendUnderSale(q) /\ ~ ReadAverage(q)
           /\ announce'[q] \subseteq announce[q]
    BY <1>1, AnnounceStep
  <1>6. Told(k) <=> /\ HasRead(q) /\ SellsBadly(SumOf[k], Average)
                    /\ k \notin announce[q]
    BY <1>2 DEF Told
  <1>7. Told(k)' <=> /\ HasRead(q)' /\ SellsBadly(SumOf[k], Average)
                     /\ k \notin announce'[q]
    BY <1>2 DEF Told, HasRead, Owner, SellsBadly, SumOf, Average, SoldParts
  <1>8. Tells(k) <=> SendUnderSale(q) /\ k \in announce[q] /\ k \notin announce'[q]
    BY <1>2 DEF Tells
  <1> QED
    BY <1>2, <1>3, <1>4, <1>5, <1>6, <1>7, <1>8 DEF Progress

\* Only the owner of k sends an entry of its own, with what was sold of k.
LEMMA FreshEntry ==
  ASSUME AverageInv, NEW t \in Procs, NEW i, Fresh(t, i),
         At(t, i)'.head = "underSale"
  PROVE  \E k \in SoldParts :
           /\ Tells(k) /\ At(t, i)'.part.id = k
           /\ At(t, i)'.part = [id |-> k, saleCount |-> SumOf[k]]
           /\ t = Down(Owner(k)) /\ i = Len(wire[t]) + 1
           /\ OnTrack(2, Owner(k), t, i)'
  <1>1. FlowInv /\ Conserved
    BY DEF AverageInv
  <1>2. IsNews(At(t, i)') /\ \A p : Id(At(t, i)') # TotalsOf(p)
    BY DEF IsNews, Id, TotalsOf
  <1>3. PICK p \in Procs : \E k \in announce[p] \ announce'[p] :
          /\ t = Down(p) /\ i = Len(wire[t]) + 1
          /\ SendUnderSale(p) /\ OnTrack(2, p, t, i)'
          /\ Id(At(t, i)') = Entry(k)
          /\ At(t, i)'.part = [id |-> k, saleCount |-> saleCount[p][k]]
    BY <1>1, <1>2, FreshNews
  <1>4. PICK k \in announce[p] \ announce'[p] :
          /\ t = Down(p) /\ i = Len(wire[t]) + 1
          /\ SendUnderSale(p) /\ OnTrack(2, p, t, i)'
          /\ At(t, i)'.part = [id |-> k, saleCount |-> saleCount[p][k]]
    BY <1>3
  <1>5. k \in Parts[p] \cap SoldParts
    BY <1>1, <1>4 DEF FlowInv, CountsInv, Counts
  <1>6. p = Owner(k)
    BY <1>5, OwnerOf
  <1>7. finish_index[p] > 0
    BY <1>4 DEF SendUnderSale, InPhase
  <1>8. saleCount[p][k] = SumOf[k]
    BY <1>1, <1>5, <1>7, AllCounted
  <1>9. At(t, i)'.part.id = k
    BY <1>4
  <1> QED
    BY <1>4, <1>5, <1>6, <1>8, <1>9 DEF Tells

\* The entries there are stay as they are.
LEMMA NextEntries ==
  ASSUME AverageInv, ListInv, [Next]_vars
  PROVE  \A t \in Procs : \A i \in 0..Len(wire'[t]) :
           At(t, i)'.head = "underSale" => At(t, i)'.part \in Undersold
  <1> SUFFICES ASSUME NEW t \in Procs, NEW i \in 0..Len(wire'[t]),
                      At(t, i)'.head = "underSale"
               PROVE  At(t, i)'.part \in Undersold
    OBVIOUS
  <1>1. FlowInv /\ IsData(At(t, i)')
    BY DEF AverageInv, IsData
  <1>2. CASE Fresh(t, i)
    <2>1. PICK k \in SoldParts :
            /\ Tells(k) /\ At(t, i)'.part = [id |-> k, saleCount |-> SumOf[k]]
      BY <1>2, FreshEntry
    <2>2. SellsBadly(SumOf[k], Average)
      BY <2>1, OwnerOf DEF Tells, ListInv
    <2> QED
      BY <2>1, <2>2, UndersoldEntries
  <1>3. ASSUME NEW s \in Procs, NEW j \in 0..Len(wire[s]), Goes(s, j, t, i)
        PROVE  At(t, i)'.part \in Undersold
    BY <1>3 DEF Goes, ListInv
  <1> QED
    BY <1>1, <1>2, <1>3, NextPlaces DEF Backwards

\* The server of p puts k on its list.
PicksUp(p, k) ==
  ReceiveUnderSale(p) /\ ~ Lists(p, k) /\ Head(wire[p]).part.id = k

\* So the entry of k goes into its hands.
LEMMA PickedUpEntry ==
  ASSUME FlowInv, [Next]_vars, NEW p \in Procs, NEW k
  PROVE  /\ PicksUp(p, k) => /\ Is(Entry(k), p, 1) /\ 1 \in 0..Len(wire[p])
                             /\ Goes(p, 1, p, 0) /\ Shifted(p)
         /\ Goes(p, 1, p, 0) /\ Is(Entry(k), p, 0)' => PicksUp(p, k)
  <1>1. ASSUME PicksUp(p, k)
        PROVE  /\ Is(Entry(k), p, 1) /\ 1 \in 0..Len(wire[p])
               /\ Goes(p, 1, p, 0) /\ Shifted(p)
    <2>1. /\ wire[p] # << >> /\ Head(wire[p]).head = "underSale"
          /\ handling[p] = None /\ GoOn(p) /\ Consume(p)
      BY <1>1 DEF PicksUp, ReceiveUnderSale, Reads, Ring!Receives, Lists
    <2>2. 1 \in 0..Len(wire[p]) /\ At(p, 1) = Head(wire[p]) /\ Shifted(p)
      BY <2>1, ReadPlace DEF Consume
    <2>3. Is(Entry(k), p, 1)
      BY <1>1, <2>1, <2>2, EntryHead DEF PicksUp
    <2>4. ~ (UNCHANGED handling)
      <3>1. Head(wire[p]) # None
        BY <2>1 DEF None
      <3>2. PICK S : handling \in [Procs -> Held(S)]
        BY DEF FlowInv, Streams
      <3> QED
        BY <2>1, <3>1, <3>2 DEF GoOn
    <2>5. PICK t \in Procs : \E i \in 0..Len(wire'[t]) : Goes(p, 1, t, i)
      BY <2>2, <2>3, <2>4, NextPlaces, NewsIsData DEF Onwards, Gone, Is
    <2>6. PICK i \in 0..Len(wire'[t]) : Goes(p, 1, t, i)
      BY <2>5
    <2>7. i \in Nat
      BY NextStreams, LenProperties DEF Streams
    <2>8. t = p /\ i = 0
      BY <2>2, <2>6, <2>7 DEF Goes
    <2> QED
      BY <2>2, <2>3, <2>6, <2>8
  <1>2. ASSUME Goes(p, 1, p, 0), Is(Entry(k), p, 0)'
        PROVE  PicksUp(p, k)
    <2>1. IsNews(At(p, 0)') /\ At(p, 0)'.head = "underSale" /\ At(p, 0)'.part.id = k
      BY <1>2 DEF Is, IsNews, Id, Entry
    <2> QED
      BY <1>2, <2>1, NewsPickedUp DEF PicksUp
  <1> QED
    BY <1>1, <1>2

\* The lists change only so.
LEMMA ListStep ==
  ASSUME AverageInv, ListInv, [Next]_vars, NEW p \in Procs
  PROVE  /\ underSale'[p] \subseteq Undersold
         /\ \A k : Lists(p, k)' <=> Lists(p, k) \/ PicksUp(p, k)
  <1>1. /\ underSale \in [Procs -> SUBSET PartType] /\ FlowInv
        /\ underSale[p] \subseteq Undersold
    BY DEF AverageInv, FlowInv, CountsInv, ListInv
  <1>2. CASE ReceiveUnderSale(p)
    <2>1. PICK x : x = Head(wire[p]).part
      OBVIOUS
    <2>2. CASE Lists(p, x.id)
      <3>1. underSale' = underSale
        BY <1>2, <2>1, <2>2 DEF ReceiveUnderSale, Lists
      <3> QED
        BY <1>1, <2>1, <2>2, <3>1 DEF Lists, PicksUp
    <2>3. CASE ~ Lists(p, x.id)
      <3>1. underSale'[p] = underSale[p] \cup {x}
        BY <1>1, <1>2, <2>1, <2>3 DEF ReceiveUnderSale, Lists
      <3>2. x \in Undersold
        <4>1. wire[p] # << >> /\ Head(wire[p]).head = "underSale"
          BY <1>2 DEF ReceiveUnderSale, Reads, Ring!Receives
        <4>2. 1 \in 0..Len(wire[p]) /\ At(p, 1) = Head(wire[p])
          BY <1>1, <4>1, ReadPlace
        <4> QED
          BY <2>1, <4>1, <4>2 DEF ListInv
      <3> QED
        BY <1>1, <1>2, <2>1, <2>3, <3>1, <3>2 DEF Lists, PicksUp
    <2> QED
      BY <2>2, <2>3
  <1>3. CASE ~ ReceiveUnderSale(p)
    <2>1. ASSUME NEW r \in Procs, ReceiveUnderSale(r)
          PROVE  underSale'[p] = underSale[p]
      BY <1>1, <1>3, <2>1 DEF ReceiveUnderSale
    <2>2. UNCHANGED underSale \/ \E r \in Procs : ReceiveUnderSale(r)
      <3>1. CASE UNCHANGED vars
        BY <3>1 DEF vars, routingVars, listVars
      <3>2. ASSUME NEW r \in Procs, Calculate(r)
            PROVE  UNCHANGED underSale
        BY <3>2 DEF Calculate, SolveOrder, AddLocalTotals, SendTotalData,
                    ReadAverage, SendUnderSale, Close, listVars
      <3>3. ASSUME NEW r \in Procs, Synchronise(r)
            PROVE  UNCHANGED underSale
        BY <3>3 DEF Synchronise, EnterBarrier, LeaveBarrier, routingVars,
                    listVars
      <3>4. ASSUME NEW r \in Procs, Serve(r)
            PROVE  UNCHANGED underSale \/ ReceiveUnderSale(r)
        BY <3>4 DEF Serve, ReceiveFinish, ReceiveOrder, ReceiveTotalData,
                    Forward, routingVars, listVars
      <3> QED
        BY <3>1, <3>2, <3>3, <3>4 DEF Next
    <2>3. underSale'[p] = underSale[p]
      BY <2>1, <2>2
    <2> QED
      BY <1>1, <1>3, <2>3 DEF Lists, PicksUp
  <1> QED
    BY <1>2, <1>3

\* An entry that was there is there after the step, in some place, or it has
\* just been sent.
LEMMA EntryComesFrom ==
  ASSUME AverageInv, ListInv, [Next]_vars, NEW k \in SoldParts,
         NEW t \in Procs, NEW i \in 0..Len(wire'[t]), Is(Entry(k), t, i)'
  PROVE  \/ /\ Tells(k) /\ t = Down(Owner(k)) /\ i = Len(wire[t]) + 1
            /\ OnTrack(2, Owner(k), t, i)'
         \/ \E s \in Procs : \E j \in 0..Len(wire[s]) :
              Goes(s, j, t, i) /\ Is(Entry(k), s, j)
  <1>1. At(t, i)'.head = "underSale" /\ At(t, i)'.part.id = k
    BY DEF Is, IsNews, Id, Entry
  <1>2. FlowInv /\ IsData(At(t, i)')
    BY <1>1 DEF AverageInv, IsData
  <1>3. ASSUME NEW s \in Procs, NEW j \in 0..Len(wire[s]), Goes(s, j, t, i)
        PROVE  Is(Entry(k), s, j)
    BY <1>3 DEF Goes, Is
  <1>4. CASE Fresh(t, i)
    BY <1>1, <1>4, FreshEntry
  <1> QED
    BY <1>2, <1>3, <1>4, NextPlaces DEF Backwards

\* An entry that goes on.
LEMMA EntryGoes ==
  ASSUME AverageInv, ListInv, [Next]_vars, NEW k \in SoldParts,
         NEW s \in Procs, NEW j \in 0..Len(wire[s]), Is(Entry(k), s, j),
         NEW t \in Procs, NEW i \in 0..Len(wire'[t]), Goes(s, j, t, i)
  PROVE  Followed(k, t, i)'
  <1>1. /\ FlowInv /\ Streams
        /\ Owner(k) \in Procs
    BY OwnerOf DEF AverageInv, FlowInv
  <1>2. \A r \in Procs : Lists(r, k)' <=> Lists(r, k) \/ PicksUp(r, k)
    BY ListStep
  <1>3. i \in Nat /\ j \in Nat /\ Len(wire[t]) \in Nat
    BY <1>1, NextStreams, LenProperties DEF Streams
  <1>4. Is(Entry(k), t, i)'
    BY DEF Goes, Is
  <1>5. t = s /\ j = 1 /\ i = 0 => PicksUp(s, k) /\ ~ Lists(s, k)
    <2>1. ASSUME t = s, j = 1, i = 0
          PROVE  PicksUp(s, k)
      <3>1. Goes(s, 1, s, 0) /\ Is(Entry(k), s, 0)'
        BY <1>4, <2>1
      <3> QED
        BY <1>1, <3>1, PickedUpEntry
    <2> QED
      BY <2>1 DEF PicksUp
  <1>6. PICK q \in Procs : q = Owner(k)
    BY <1>1
  <1>7. ASSUME \A r \in Procs : Lists(r, k), j # 0 \/ t # s
        PROVE  Followed(k, t, i)'
    <2>1. i # 0
      BY <1>3, <1>5, <1>7 DEF Goes
    <2>2. \A r \in Procs : Lists(r, k)'
      BY <1>2, <1>7
    <2> QED
      BY <2>1, <2>2 DEF Followed
  <1>8. ASSUME OnTrack(2, q, s, j), t # s => s # q,
               \A r \in Procs : Lists(r, k) <=> ~ Coming(q, r, s, j)
        PROVE  Followed(k, t, i)'
    <2>1. OnTrack(2, q, t, i)'
      BY <1>8 DEF Goes, Kept
    <2>2. ASSUME NEW r \in Procs
          PROVE  Lists(r, k)' <=> ~ Coming(q, r, t, i)
      <3>1. PicksUp(r, k) => t = s /\ i = 0 /\ j = 1 /\ r = s
        <4> SUFFICES ASSUME PicksUp(r, k)
                     PROVE  t = s /\ i = 0 /\ j = 1 /\ r = s
          OBVIOUS
        <4>1. Is(Entry(k), r, 1) /\ 1 \in 0..Len(wire[r]) /\ Shifted(r)
          BY <1>1, PickedUpEntry
        <4>2. r = s /\ j = 1
          BY <4>1 DEF ListInv, EntryOf, Lone
        <4> QED
          BY <1>3, <4>1, <4>2 DEF Goes
      <3>2. Coming(q, r, t, i) <=>
              Coming(q, r, s, j) /\ ~ (t = s /\ i = 0 /\ j = 1 /\ r = s)
        BY <1>1, <1>3, <1>8, GoesComing
      <3> QED
        BY <1>2, <1>5, <1>8, <3>1, <3>2
    <2>3. \A r \in Procs : Coming(q, r, t, i)' <=> Coming(q, r, t, i)
      BY DEF Coming
    <2>4. Owner(k)' = q
      BY <1>6 DEF Owner
    <2> QED
      BY <2>1, <2>2, <2>3, <2>4 DEF Followed
  <1>9. \/ OnTrack(2, q, s, j)
           /\ \A r \in Procs : Lists(r, k) <=> ~ Coming(q, r, s, j)
        \/ j # 0 /\ \A r \in Procs : Lists(r, k)
    BY <1>6 DEF ListInv, EntryOf, Followed
  <1>10. CASE /\ OnTrack(2, q, s, j) /\ t # s /\ s = q
              /\ \A r \in Procs : Lists(r, k) <=> ~ Coming(q, r, s, j)
    <2>1. j = 0
      BY <1>10 DEF Goes
    <2>2. \A r \in Procs : Hops(q, r) \in 1..N /\ Hops(q, q) = N
      BY RingArithmetic
    <2>3. \A r \in Procs : ~ Coming(q, r, s, j)
      BY <1>10, <2>1, <2>2, NAssumption DEF Coming
    <2> QED
      BY <1>7, <1>10, <2>3
  <1> QED
    BY <1>7, <1>8, <1>9, <1>10

\* An entry that goes no further is on all lists.
LEMMA EntryEnds ==
  ASSUME AverageInv, ListInv, [Next]_vars, NEW k \in SoldParts,
         NEW s \in Procs, NEW j \in 0..Len(wire[s]), Is(Entry(k), s, j),
         Gone(s, j)
  PROVE  \A r \in Procs : Lists(r, k)
  <1>1. FlowInv /\ Owner(k) \in Procs
    BY OwnerOf DEF AverageInv
  <1>2. PICK q \in Procs : q = Owner(k)
    BY <1>1
  <1>3. At(s, j).head = "underSale" /\ At(s, j).part.id = k
    BY EntryHead
  <1> SUFFICES ASSUME OnTrack(2, q, s, j),
                      \A r \in Procs : Lists(r, k) <=> ~ Coming(q, r, s, j)
               PROVE  FALSE
    BY <1>2 DEF ListInv, EntryOf, Followed
  <1>4. Hops(q, s) \in 1..N
    BY RingArithmetic
  <1>5. CASE Receive(s) /\ j = 1 /\ UNCHANGED handling
    <2>1. wire[s] # << >> /\ handling[s] = None
      BY <1>5 DEF Receive, ReceiveOrder, ReceiveTotalData, ReceiveUnderSale,
                  Reads, Ring!Receives
    <2>2. At(s, 1) = Head(wire[s])
      BY <1>1, <2>1, ReadPlace
    <2>3. ReceiveUnderSale(s)
      BY <1>3, <1>5, <2>2 DEF Receive, ReceiveOrder, ReceiveTotalData, Reads
    <2>4. ~ GoOn(s)
      <3>1. Head(wire[s]) # None
        BY <1>3, <1>5, <2>2 DEF None
      <3>2. PICK S : handling \in [Procs -> Held(S)]
        BY <1>1 DEF FlowInv, Streams
      <3> QED
        BY <1>5, <2>1, <3>1, <3>2 DEF GoOn
    <2>5. Lists(s, k)
      BY <1>3, <1>5, <2>2, <2>3, <2>4 DEF ReceiveUnderSale, Lists
    <2>6. Coming(q, s, s, j)
      BY <1>4, <1>5, NAssumption DEF Coming
    <2> QED
      BY <2>5, <2>6
  <1>6. CASE Forward(s) /\ j = 0 /\ s \in closed
    <2>1. Announced(s, 2)
      BY <1>1, <1>6 DEF FlowInv, ControlInv, ClosedLast, LeftAnnounced, Announced
    <2> QED
      BY <1>4, <2>1, NAssumption DEF OnTrack
  <1> QED
    BY <1>5, <1>6 DEF Gone

\* The entry of k after a step.
LEMMA NextEntry ==
  ASSUME AverageInv, ListInv, [Next]_vars, NEW k \in SoldParts
  PROVE  EntryOf(k)'
  <1>1. FlowInv /\ Owner(k) \in Procs
    BY OwnerOf DEF AverageInv
  <1>2. EntryOf(k)
    BY DEF ListInv
  <1>3. /\ Told(k)' <=> Told(k) \/ Tells(k)
        /\ Tells(k) => ~ Told(k)
    BY ToldStep
  <1>4. \A r \in Procs : Lists(r, k)' <=> Lists(r, k) \/ PicksUp(r, k)
    BY ListStep
  <1>5. Entry(k)' = Entry(k)
    BY DEF Entry
  <1>6. ASSUME ~ Told(k)'
        PROVE  ~ Present(Entry(k))' /\ \A r \in Procs : ~ Lists(r, k)'
    <2>1. /\ ~ Tells(k) /\ ~ Present(Entry(k))
          /\ \A r \in Procs : ~ Lists(r, k)
      BY <1>2, <1>3, <1>6 DEF EntryOf
    <2>2. ~ Present(Entry(k))'
      BY <2>1, EntryComesFrom DEF Present
    <2>3. ASSUME NEW r \in Procs PROVE ~ PicksUp(r, k)
      BY <1>1, <2>1, PickedUpEntry DEF Present
    <2> QED
      BY <1>4, <2>1, <2>2, <2>3
  <1>7. ASSUME Told(k)'
        PROVE  Present(Entry(k))' \/ \A r \in Procs : Lists(r, k)'
    <2>1. CASE Tells(k)
      <3>1. PICK q \in Procs : q = Owner(k)
        BY <1>1
      <3>2. PICK e : e = [head |-> "underSale",
                          part |-> [id |-> k, saleCount |-> saleCount[q][k]]]
        OBVIOUS
      <3>3. Send(q, e) /\ q \notin closed
        <4>1. SendUnderSale(q) /\ k \in announce[q] \ announce'[q]
          BY <2>1, <3>1 DEF Tells
        <4>2. PICK j \in announce[q] :
                /\ Send(q, [head |-> "underSale",
                            part |-> [id |-> j, saleCount |-> saleCount[q][j]]])
                /\ announce' = [announce EXCEPT ![q] = @ \ {j}]
          BY <4>1 DEF SendUnderSale
        <4>3. j = k
          BY <1>1, <4>1, <4>2 DEF FlowInv, CountsInv
        <4> QED
          BY <1>1, <3>2, <4>1, <4>2, <4>3
             DEF SendUnderSale, InPhase, FlowInv, ControlInv, ClosedLast
      <3>4. PICK i \in 0..Len(wire'[Down(q)]) : At(Down(q), i)' = e
        BY <1>1, <3>3, SentPlace
      <3>5. At(Down(q), i)'.head = "underSale" /\ At(Down(q), i)'.part.id = k
        BY <3>2, <3>4
      <3>6. Is(Entry(k), Down(q), i)'
        BY <3>5 DEF Is, IsNews, Id, Entry
      <3> QED
        BY <3>6, RingArithmetic DEF Present
    <2>2. CASE Told(k) /\ \A r \in Procs : Lists(r, k)
      BY <1>4, <2>2
    <2>3. ASSUME NEW s \in Procs, NEW j \in 0..Len(wire[s]), Is(Entry(k), s, j)
          PROVE  Present(Entry(k))' \/ \A r \in Procs : Lists(r, k)'
      <3>1. CASE Gone(s, j)
        BY <1>4, <2>3, <3>1, EntryEnds
      <3>2. ASSUME NEW t \in Procs, NEW i \in 0..Len(wire'[t]), Goes(s, j, t, i)
            PROVE  Present(Entry(k))'
        <4>1. Is(Entry(k), t, i)'
          BY <2>3, <3>2 DEF Goes, Is
        <4> QED
          BY <4>1 DEF Present
      <3> QED
        BY <1>1, <2>3, <3>1, <3>2, NextPlaces, NewsIsData DEF Onwards, Is
    <2> QED
      BY <1>2, <1>3, <1>7, <2>1, <2>2, <2>3 DEF EntryOf, Present
  <1>8. Lone(Entry(k))'
    <2>1. \A t \in Procs : \A i \in 0..Len(wire'[t]) :
            Fresh(t, i) /\ Is(Entry(k), t, i)' =>
              /\ ~ Present(Entry(k)) /\ t = Down(Owner(k)) /\ i = Len(wire[t]) + 1
      <3> SUFFICES ASSUME NEW t \in Procs, NEW i \in 0..Len(wire'[t]),
                          Fresh(t, i), Is(Entry(k), t, i)'
                   PROVE  /\ ~ Present(Entry(k)) /\ t = Down(Owner(k))
                          /\ i = Len(wire[t]) + 1
        OBVIOUS
      <3>1. At(t, i)'.head = "underSale" /\ At(t, i)'.part.id = k
        BY DEF Is, IsNews, Id, Entry
      <3>2. Tells(k) /\ t = Down(Owner(k)) /\ i = Len(wire[t]) + 1
        BY <3>1, FreshEntry
      <3> QED
        BY <1>2, <1>3, <3>2 DEF EntryOf
    <2> QED
      BY <1>1, <1>2, <2>1, LoneKept DEF EntryOf
  <1>9. ASSUME NEW t \in Procs, NEW i \in 0..Len(wire'[t]), Is(Entry(k), t, i)'
        PROVE  Followed(k, t, i)'
    <2>1. CASE /\ Tells(k) /\ t = Down(Owner(k)) /\ i = Len(wire[t]) + 1
               /\ OnTrack(2, Owner(k), t, i)'
      <3>1. \A r \in Procs : ~ Lists(r, k)
        BY <1>2, <1>3, <2>1 DEF EntryOf
      <3>2. \A r \in Procs : ~ Lists(r, k)'
        BY <2>1, <3>1 DEF Tells, SendUnderSale, Lists
      <3>3. PICK q \in Procs : q = Owner(k) /\ t = Down(q)
        BY <1>1, <2>1
      <3>4. i # 0
        BY <1>1, <2>1, LenProperties DEF FlowInv, Streams
      <3>5. Hops(q, t) = 1 /\ \A r \in Procs : Hops(q, r) \in 1..N
        BY <3>3, RingArithmetic
      <3>6. \A r \in Procs : Coming(q, r, t, i)'
        BY <3>4, <3>5, NAssumption DEF Coming
      <3>7. Owner(k)' = q
        BY <3>3 DEF Owner
      <3> QED
        BY <2>1, <3>2, <3>3, <3>6, <3>7 DEF Followed
    <2>2. ASSUME NEW s \in Procs, NEW j \in 0..Len(wire[s]),
                 Goes(s, j, t, i), Is(Entry(k), s, j)
          PROVE  Followed(k, t, i)'
      BY <2>2, EntryGoes
    <2> QED
      BY <1>9, <2>1, <2>2, EntryComesFrom
  <1> QED
    BY <1>5, <1>6, <1>7, <1>8, <1>9 DEF EntryOf

LEMMA NextList ==
  ASSUME AverageInv, ListInv, [Next]_vars
  PROVE  ListInv'
  <1>1. /\ Undersold' = Undersold /\ SoldParts' = SoldParts
        /\ \A k : (SumOf[k])' = SumOf[k]
        /\ \A k : SellsBadly(SumOf[k], Average)' = SellsBadly(SumOf[k], Average)
    BY DEF Undersold, SumOf, Average, SellsBadly, SoldParts, Quantity,
           QuantityOf, KeysOf
  <1>2. \A s \in Procs : \A i \in 0..Len(wire'[s]) :
          At(s, i)'.head = "underSale" => At(s, i)'.part \in Undersold
    BY NextEntries
  <1>3. \A p \in Procs : underSale'[p] \subseteq Undersold
    BY ListStep
  <1>4. ASSUME NEW p \in Procs, NEW k \in announce'[p]
        PROVE  SellsBadly(SumOf[k], Average)
    <2>1. \A j \in announce[p] : SellsBadly(SumOf[j], Average)
      BY DEF ListInv
    <2>2. \/ announce'[p] \subseteq announce[p]
          \/ announce'[p] = {j \in Parts[p] \cap SoldParts :
                               SellsBadly(SumOf[j], Average)}
      BY AnnounceStep DEF AverageInv
    <2> QED
      BY <1>4, <2>1, <2>2
  <1>5. \A k \in SoldParts : EntryOf(k)'
    BY NextEntry
  <1> QED
    BY <1>1, <1>2, <1>3, <1>4, <1>5 DEF ListInv

LEMMA InitList == Init => ListInv
  <1> SUFFICES ASSUME Init PROVE ListInv
    OBVIOUS
  <1>1. /\ finish_index = [p \in Procs |-> 0] /\ announce = [p \in Procs |-> {}]
        /\ underSale = [p \in Procs |-> {}]
        /\ wire = [p \in Procs |-> << >>] /\ handling = [p \in Procs |-> None]
    BY DEF Init, Ring!Init, Procs
  <1>2. \A s \in Procs : \A i \in 0..Len(wire[s]) : At(s, i) = None
    <2>1. Len(<< >>) = 0
      BY EmptySeq
    <2> QED
      BY <1>1, <2>1 DEF At
  <1>3. \A x : \A s \in Procs : \A i \in 0..Len(wire[s]) : ~ Is(x, s, i)
    BY <1>2 DEF Is, IsNews, None
  <1>4. ASSUME NEW k \in SoldParts PROVE EntryOf(k)
    <2>1. ~ Told(k)
      BY <1>1, OwnerOf DEF Told, HasRead
    <2>2. \A r \in Procs : ~ Lists(r, k)
      BY <1>1 DEF Lists
    <2> QED
      BY <1>3, <2>1, <2>2 DEF EntryOf, Present, Lone
  <1>5. None.head # "underSale"
    BY DEF None
  <1> QED
    BY <1>1, <1>2, <1>4, <1>5 DEF ListInv

\* Who comes out of the last barrier lists the undersold parts, and his server
\* has nothing in its hands.
LEMMA ListIsComplete ==
  ASSUME AverageInv, ListInv, NEW p \in Procs, finish_index[p] = 3
  PROVE  underSale[p] = Undersold /\ handling[p] = None
  <1>1. /\ FlowInv /\ PhaseInv /\ TotalsInv
        /\ ControlType /\ LeftAnnounced /\ AnnouncedByAll /\ FinishedIsPrefix
    BY DEF AverageInv, FlowInv, ControlInv
  <1>2. Announced(p, 1) /\ Announced(p, 2)
    BY <1>1 DEF LeftAnnounced, Announced
  <1>3. \A q, r \in Procs : Hops(q, r) \in 1..N
    BY RingArithmetic
  <1>4. ASSUME NEW k \in SoldParts, SellsBadly(SumOf[k], Average)
        PROVE  Lists(p, k)
    <2>1. PICK q \in Procs : q = Owner(k)
      BY OwnerOf
    <2>2. 2 \in is_finished[q]
      BY <1>1, <1>2 DEF AnnouncedByAll
    <2>3. finish_index[q] > 2 \/ (finish_index[q] = 2 /\ pc[q] # "run")
      BY <1>1, <2>2 DEF ControlType, FinishedIsPrefix, Ring!Inside
    <2>4. HasRead(q) /\ announce[q] = {}
      BY <1>1, <2>3 DEF HasRead, PhaseInv, PhaseAt
    <2>5. Told(k)
      BY <1>4, <2>1, <2>4 DEF Told
    <2>6. CASE \A r \in Procs : Lists(r, k)
      BY <2>6
    <2>7. ASSUME NEW s \in Procs, NEW i \in 0..Len(wire[s]), Is(Entry(k), s, i)
          PROVE  Lists(p, k)
      <3>1. Followed(k, s, i)
        BY <2>7 DEF ListInv, EntryOf
      <3>2. ASSUME OnTrack(2, q, s, i) PROVE ~ Coming(q, p, s, i)
        BY <1>2, <1>3, <3>2, NAssumption DEF OnTrack, Coming
      <3> QED
        BY <2>1, <3>1, <3>2 DEF Followed
    <2> QED
      BY <2>5, <2>6, <2>7 DEF ListInv, EntryOf, Present
  <1>5. underSale[p] = Undersold
    <2>1. underSale[p] \subseteq Undersold
      BY DEF ListInv
    <2>2. ASSUME NEW x \in Undersold PROVE x \in underSale[p]
      <3>1. PICK k \in SoldParts :
              /\ SellsBadly(SumOf[k], Average)
              /\ x = [id |-> k, saleCount |-> SumOf[k]]
        BY <2>2, UndersoldEntries
      <3>2. PICK y \in underSale[p] : y.id = k
        BY <1>4, <3>1 DEF Lists
      <3>3. PICK j \in SoldParts : y = [id |-> j, saleCount |-> SumOf[j]]
        BY <2>1, <3>2, UndersoldEntries
      <3>4. j = k
        BY <3>2, <3>3
      <3> QED
        BY <3>1, <3>2, <3>3, <3>4
    <2> QED
      BY <2>1, <2>2
  <1>6. handling[p] = None
    <2> SUFFICES ASSUME handling[p] # None PROVE FALSE
      OBVIOUS
    <2>1. 0 \in 0..Len(wire[p]) /\ At(p, 0) = handling[p]
      BY <1>1, LenProperties DEF FlowInv, Streams, At
    <2>2. Sound(handling[p]) /\ handling[p].head # "finish"
      BY <1>1, HandType DEF FlowInv
    <2>3. CASE handling[p].head = "order"
      <3>1. finish_index[p] = 0
        BY <1>1, <2>3, ForwardSends DEF IsOrder
      <3> QED
        BY <3>1
    <2>4. CASE handling[p].head = "totalData"
      <3>1. PICK q \in Procs : q = handling[p].from
        BY <2>2, <2>4 DEF Sound, Message
      <3>2. Is(TotalsOf(q), p, 0)
        BY <2>1, <2>4, <3>1, TotalsHead
      <3>3. OnTrack(1, q, p, 0)
        BY <1>1, <2>1, <3>2 DEF TotalsInv, TotalsPlaced
      <3> QED
        BY <1>2, <1>3, <3>3, NAssumption DEF OnTrack
    <2>5. CASE handling[p].head = "underSale"
      <3>1. PICK k \in SoldParts : k = handling[p].part.id
        <4>1. handling[p].part \in Undersold
          BY <2>1, <2>5 DEF ListInv
        <4>2. PICK j \in SoldParts :
                handling[p].part = [id |-> j, saleCount |-> SumOf[j]]
          BY <4>1, UndersoldEntries
        <4> QED
          BY <4>2
      <3>2. Is(Entry(k), p, 0)
        BY <2>1, <2>5, <3>1, EntryHead
      <3>3. PICK q \in Procs : q = Owner(k)
        BY OwnerOf
      <3>4. OnTrack(2, q, p, 0)
        BY <2>1, <3>2, <3>3 DEF ListInv, EntryOf, Followed
      <3> QED
        BY <1>2, <1>3, <3>4, NAssumption DEF OnTrack
    <2> QED
      BY <2>2, <2>3, <2>4, <2>5 DEF Sound, Message
  <1> QED
    BY <1>5, <1>6

\* An instance that comes out of the last barrier lists the undersold parts all
\* others list, the right ones, and its server has nothing left to forward.
THEOREM ListsAgree == Spec => []SameList
  <1>1. Init => ListInv
    BY InitList
  <1>2. AverageInv /\ ListInv /\ [Next]_vars => ListInv'
    BY NextList
  <1>3. AverageInv /\ ListInv => SameList
    BY ListIsComplete DEF SameList
  <1> QED
    BY <1>1, <1>2, <1>3, AlwaysAverage, PTL DEF Spec

===============================================================================
