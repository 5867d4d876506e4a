--------------------------- MODULE PartTableProofs ---------------------------
(***************************************************************************)
(* Proofs about PartTable, for any number of instances, any division of    *)
(* the part table and any orders: TablesComplete (the whole table is       *)
(* everywhere when the orders are counted), TypeOK, ChainComplete (what an *)
(* instance passes on in its turn is the sum over it and everybody before  *)
(* it) and AnswerIsRight.                                                  *)
(*                                                                         *)
(* A part goes round the ring from every instance that sends it: its owner *)
(* and also whoever received it before he read the size of his vector.     *)
(* The argument is that of FinalQueryProofs: a message is followed from    *)
(* the instance whose main thread sent it (Placed), and whoever lists a    *)
(* part has still to send it, or it is on its way to the next instance,    *)
(* unless that one lists it too (PartsGoOn).  Here the two depend on each  *)
(* other: counting an order leaves the table alone because its part is     *)
(* there, and a server that has closed its connection has nothing to       *)
(* forward that would be lost.                                             *)
(***************************************************************************)
EXTENDS PartTable, TotalsProofs

\* Hops of a message of origin q that is at instance s, N at q itself.
Hops(q, s) == IF s < q THEN q - s ELSE q - s + N

\* The server of p has notified its main thread of barrier k, or is about to.
Announced(p, k) == k \in has_notify[p] \/ notifying[p] = k

IsToken(m) == m.head = "finish"

\* The parts p lists.
Known(p) == DOMAIN partIdHash[p]

\* The barriers an instance has reached, read off finish_index.
FinishedIsPrefix ==
  \A p \in Procs : \A k \in Nat :
    k \in is_finished[p] <=> \/ k < finish_index[p]
                             \/ k = finish_index[p] /\ Ring!Inside(p)

AnnouncedByAll ==
  \A p, q \in Procs : \A k \in Nat : Announced(p, k) => k \in is_finished[q]

WakeIsCurrent ==
  \A p \in Procs : notifying[p] # Ring!None =>
    /\ notifying[p] = finish_index[p]
    /\ notifying[p] \notin has_notify[p]
    /\ pc[p] # "woken"

\* Nobody leaves a barrier that its own server has not announced.
LeftAnnounced ==
  \A p \in Procs :
    /\ \A k \in Nat : k < finish_index[p] => k \in has_notify[p]
    /\ pc[p] = "woken" => finish_index[p] \in has_notify[p]

\* A connection is closed after the last barrier.
ClosedLast ==
  \A p \in closed : p \in Procs /\ pc[p] = "run" /\ finish_index[p] = N + 2

ControlType ==
  /\ pc \in [Procs -> {"run", "entered", "sent", "wait", "woken"}]
  /\ finish_index \in [Procs -> Nat]
  /\ is_finished \in [Procs -> SUBSET Nat]
  /\ has_notify \in [Procs -> SUBSET Nat]
  /\ notifying \in [Procs -> Nat \cup {Ring!None}]
  /\ step \in [Procs -> Nat]

ControlInv ==
  ControlType /\ FinishedIsPrefix /\ AnnouncedByAll /\ WakeIsCurrent
  /\ LeftAnnounced /\ ClosedLast

\* The vector and its hash.
Table(p) ==
  /\ parts[p] \in Seq(AllParts) /\ IsInjective(parts[p])
  /\ partIdHash[p] \in [Range(parts[p]) -> 1..Len(parts[p])]
  /\ \A i \in 1..Len(parts[p]) : partIdHash[p][parts[p][i]] = i
  /\ Range(Parts[p]) \subseteq Known(p)
  /\ sz[p] \in 0..Len(parts[p])

TablesInv ==
  /\ parts = [p \in Procs |-> parts[p]]
  /\ partIdHash = [p \in Procs |-> partIdHash[p]]
  /\ sz = [p \in Procs |-> sz[p]]
  /\ \A p \in Procs : Table(p)

\* The counts, and what is made of them.
CountsInv ==
  /\ saleCount = [p \in Procs |-> saleCount[p]]
  /\ sent = [p \in Procs |-> sent[p]]
  /\ \A p \in Procs :
       /\ DOMAIN saleCount[p] \subseteq Key
       /\ \A k \in DOMAIN saleCount[p] : saleCount[p][k] \in Nat
       /\ sent[p] \subseteq DOMAIN saleCount[p]
  /\ partCount \in [Procs -> Nat]
  /\ underSale \in [Procs -> SUBSET [key : Key, count : Nat]]

\* What may be in a stream.  A digit that is set names an instance that has
\* reached the barrier.
Sound(m) ==
  /\ m \in Message
  /\ IsToken(m) => \A q \in Procs : m.cnt[q] # 0 => m.idx \in is_finished[q]

\* What the server thread may have in its hands.
Held(S) == {None} \cup {m \in S : m.head = "part"}

Streams ==
  \E S : /\ wire \in [Procs -> Seq(S)]
         /\ handling \in [Procs -> Held(S)]
         /\ \A m \in S : Sound(m)

\* The i-th place of the stream of s is ahead of the j-th of that of r, for what
\* comes from q; place 0 are the hands of the server thread.
Ahead(q, s, i, r, j) == Hops(q, s) > Hops(q, r) \/ (s = r /\ i < j)

\* What q sent in phase k, in place i at s, is not overtaken by the token t, in
\* place j at r.
NotOvertaken(t, k, q, s, i, r, j) ==
  IsToken(t) /\ t.idx = k /\ t.cnt[q] # 0 =>
    t.cnt[q] = 1 /\ Ahead(q, s, i, r, j)

Clear(w, k, q, s, i) ==
  \A r \in Procs : \A j \in 1..Len(w[r]) :
    NotOvertaken(w[r][j], k, q, s, i, r, j)

Passed(q, s) == \A p \in Procs : Announced(p, 0) => Hops(q, s) > Hops(q, p)

\* The message m, in place i at s, was sent by q, which lists its part.
Placed(m, q, s, i) ==
  /\ m.part \in Known(q)
  /\ i = 0 => s # q
  /\ Clear(wire, 0, q, s, i)
  /\ Passed(q, s)

PartsPlaced ==
  \A s \in Procs :
    /\ \A i \in 1..Len(wire[s]) : wire[s][i].head = "part" =>
         \E q \in Procs : Placed(wire[s][i], q, s, i)
    /\ handling[s] # None => \E q \in Procs : Placed(handling[s], q, s, 0)

\* The main thread has this part still to send; before it has read the size of
\* the vector, all.
Pending(p, k) ==
  /\ finish_index[p] = 0 /\ pc[p] = "run"
  /\ step[p] = 0 \/ \E i \in step[p]..sz[p] : parts[p][i] = k

IsPart(m, k) == m.head = "part" /\ m.part = k

Comes(p, k) == \E i \in 1..Len(wire[p]) : IsPart(wire[p][i], k)

GoesOn(p, k) ==
  \/ Pending(p, k) \/ IsPart(handling[p], k)
  \/ Comes(Down(p), k) \/ k \in Known(Down(p))

PartsGoOn == \A p \in Procs : \A k \in Known(p) : GoesOn(p, k)

Inv ==
  ControlInv /\ TablesInv /\ CountsInv /\ Streams /\ PartsPlaced /\ PartsGoOn

-------------------------------------------------------------------------------
(***************************************************************************)
(* The ring and the places on it.                                          *)
(***************************************************************************)

\* Positions on the ring.
LEMMA RingArithmetic ==
  ASSUME NEW q \in Procs, NEW s \in Procs
  PROVE  /\ Down(s) \in Procs /\ Down(s) # s
         /\ Hops(q, s) \in 1..N
         /\ Hops(q, s) = N <=> s = q
         /\ s # q => Hops(q, Down(s)) = Hops(q, s) + 1
         /\ Hops(s, Down(s)) = 1
         /\ \A r \in Procs : Hops(q, r) = Hops(q, s) => r = s
         /\ \A r \in Procs : Hops(q, r) \in 1..N
  BY NAssumption DEF Procs, Ring!Procs, Hops, Down, Ring!Down

LEMMA StampedType ==
  ASSUME NEW p \in Procs, NEW idx \in Nat, NEW cnt \in [Procs -> Nat]
  PROVE  Ring!Stamped(p, idx, cnt) \in Ring!Token
  BY DEF Ring!Stamped, Ring!Token, Procs

LEMMA NoDigitsType == Ring!NoDigits \in [Procs -> Nat]
  BY DEF Ring!NoDigits, Procs

\* The elements of a sequence when one is appended.
LEMMA AppendElements ==
  ASSUME NEW S, NEW s \in Seq(S), NEW e
  PROVE  /\ Append(s, e) \in Seq(S \cup {e})
         /\ Len(s) \in Nat /\ Len(Append(s, e)) = Len(s) + 1
         /\ \A i \in 1..Len(s) : Append(s, e)[i] = s[i]
         /\ Append(s, e)[Len(s) + 1] = e
  <1>1. s \in Seq(S \cup {e})
    BY SeqMonotonic
  <1> QED
    BY <1>1, AppendProperties, LenProperties

\* The elements of a sequence without its head.
LEMMA TailElements ==
  ASSUME NEW S, NEW s \in Seq(S), s # << >>
  PROVE  /\ Tail(s) \in Seq(S) /\ Head(s) \in S /\ Head(s) = s[1]
         /\ Len(s) \in Nat \ {0} /\ Len(Tail(s)) = Len(s) - 1
         /\ \A i \in 1..Len(Tail(s)) : Tail(s)[i] = s[i + 1]
  BY HeadTailProperties, LenProperties, EmptySeq

\* The first message is read: what is behind it moves up by one place.
LEMMA ClearTail ==
  ASSUME NEW S, NEW w \in [Procs -> Seq(S)], NEW p \in Procs, w[p] # << >>,
         NEW k, NEW q \in Procs, NEW s \in Procs, NEW i \in Nat,
         Clear(w, k, q, s, i), s = p => i >= 1
  PROVE  Clear([w EXCEPT ![p] = Tail(@)], k, q, s, IF s = p THEN i - 1 ELSE i)
  <1> DEFINE w2 == [w EXCEPT ![p] = Tail(@)]
             i2 == IF s = p THEN i - 1 ELSE i
  <1> SUFFICES ASSUME NEW r \in Procs, NEW j \in 1..Len(w2[r])
               PROVE  NotOvertaken(w2[r][j], k, q, s, i2, r, j)
    BY DEF Clear
  <1>1. CASE r = p
    <2>1. j + 1 \in 1..Len(w[r]) /\ w2[r][j] = w[r][j + 1]
      BY <1>1, TailElements
    <2>2. NotOvertaken(w[r][j + 1], k, q, s, i, r, j + 1)
      BY <2>1 DEF Clear
    <2>3. Ahead(q, s, i, r, j + 1) => Ahead(q, s, i2, r, j)
      BY <1>1 DEF Ahead
    <2> QED
      BY <2>1, <2>2, <2>3 DEF NotOvertaken
  <1>2. CASE r # p
    <2>1. w2[r] = w[r]
      BY <1>2
    <2>2. NotOvertaken(w[r][j], k, q, s, i, r, j)
      BY <2>1 DEF Clear
    <2>3. Ahead(q, s, i, r, j) => Ahead(q, s, i2, r, j)
      BY <1>2 DEF Ahead
    <2> QED
      BY <2>1, <2>2, <2>3 DEF NotOvertaken
  <1> QED
    BY <1>1, <1>2

\* A message is sent that does not overtake.
LEMMA ClearSend ==
  ASSUME NEW S, NEW w \in [Procs -> Seq(S)], NEW d \in Procs, NEW e,
         NEW k, NEW q \in Procs, NEW s \in Procs, NEW i \in Nat,
         Clear(w, k, q, s, i),
         NotOvertaken(e, k, q, s, i, d, Len(w[d]) + 1)
  PROVE  Clear([w EXCEPT ![d] = Append(@, e)], k, q, s, i)
  <1> DEFINE w2 == [w EXCEPT ![d] = Append(@, e)]
  <1> SUFFICES ASSUME NEW r \in Procs, NEW j \in 1..Len(w2[r])
               PROVE  NotOvertaken(w2[r][j], k, q, s, i, r, j)
    BY DEF Clear
  <1>1. CASE r = d
    <2>1. /\ j \in 1..Len(w[r]) => w2[r][j] = w[r][j]
          /\ j \notin 1..Len(w[r]) => j = Len(w[r]) + 1 /\ w2[r][j] = e
      BY <1>1, AppendElements
    <2> QED
      BY <1>1, <2>1 DEF Clear
  <1>2. CASE r # d
    BY <1>2 DEF Clear
  <1> QED
    BY <1>1, <1>2

\* What a server has in its hands is ahead when it is sent on.
LEMMA ClearAdvance ==
  ASSUME NEW w, NEW k, NEW q \in Procs, NEW p \in Procs, NEW i \in Nat,
         Clear(w, k, q, p, 0), p # q
  PROVE  Clear(w, k, q, Down(p), i)
  <1> SUFFICES ASSUME NEW r \in Procs, NEW j \in 1..Len(w[r])
               PROVE  NotOvertaken(w[r][j], k, q, Down(p), i, r, j)
    BY DEF Clear
  <1>1. NotOvertaken(w[r][j], k, q, p, 0, r, j)
    BY DEF Clear
  <1>2. /\ Hops(q, Down(p)) = Hops(q, p) + 1
        /\ Hops(q, p) \in 1..N /\ Hops(q, r) \in 1..N
    BY RingArithmetic
  <1>3. Ahead(q, p, 0, r, j) => Ahead(q, Down(p), i, r, j)
    BY <1>2, NAssumption DEF Ahead
  <1> QED
    BY <1>1, <1>3 DEF NotOvertaken

\* A token that an instance starts is behind all its own messages.
LEMMA FreshBehind ==
  ASSUME NEW p \in Procs, NEW idx \in Nat, NEW k,
         NEW q \in Procs, NEW s \in Procs, NEW i \in Nat, NEW last \in Nat,
         s = Down(p) => i < last
  PROVE  NotOvertaken(Ring!Stamped(p, idx, Ring!NoDigits), k, q, s, i,
                      Down(p), last)
  <1> DEFINE u == Ring!Stamped(p, idx, Ring!NoDigits)
  <1>1. \A r \in Procs : u.cnt[r] = IF r = p THEN 1 ELSE 0
    BY DEF Ring!Stamped, Ring!NoDigits, Procs
  <1> HIDE DEF u
  <1>2. q = p => Ahead(q, s, i, Down(p), last)
    BY RingArithmetic, NAssumption DEF Ahead
  <1> QED
    BY <1>1, <1>2 DEF NotOvertaken, u

\* A token that is read and passed on overtakes nothing: what comes from its
\* origins was ahead of it, and nothing was left in the hands of the server.
LEMMA StampBehind ==
  ASSUME NEW p \in Procs, NEW t \in Ring!Token, NEW k,
         NEW q \in Procs, NEW s \in Procs, NEW i \in Nat, NEW i2 \in Nat,
         NEW last \in Nat,
         NotOvertaken(t, k, q, s, i, p, 1),
         s = p => i >= 1, s = Down(p) => i2 < last
  PROVE  NotOvertaken(Ring!Stamped(p, t.idx, t.cnt), k, q, s, i2, Down(p), last)
  <1> DEFINE u == Ring!Stamped(p, t.idx, t.cnt)
  <1>1. /\ t.cnt \in [Procs -> Nat] /\ t.head = "finish"
        /\ u.idx = t.idx
        /\ u.cnt[q] = IF q = p THEN t.cnt[p] + 1 ELSE t.cnt[q]
    BY DEF Ring!Stamped, Ring!Token, Procs
  <1> HIDE DEF u
  <1> SUFFICES ASSUME u.idx = k, u.cnt[q] # 0
               PROVE  u.cnt[q] = 1 /\ Ahead(q, s, i2, Down(p), last)
    BY DEF NotOvertaken, u
  <1>2. t.cnt[q] # 0 => t.cnt[q] = 1 /\ Hops(q, s) > Hops(q, p)
    BY <1>1, NAssumption DEF NotOvertaken, IsToken, Ahead
  <1>3. CASE q = p
    <2>1. t.cnt[q] = 0
      BY <1>2, <1>3, RingArithmetic, NAssumption
    <2>2. Ahead(q, s, i2, Down(p), last)
      BY <1>3, RingArithmetic, NAssumption DEF Ahead
    <2> QED
      BY <1>1, <1>3, <2>1, <2>2
  <1>4. CASE q # p
    <2>1. t.cnt[q] = 1 /\ Hops(q, s) > Hops(q, p)
      BY <1>1, <1>2, <1>4
    <2>2. Ahead(q, s, i2, Down(p), last)
      BY <1>4, <2>1, RingArithmetic, NAssumption DEF Ahead
    <2> QED
      BY <1>1, <1>4, <2>1, <2>2
  <1> QED
    BY <1>3, <1>4

-------------------------------------------------------------------------------
(***************************************************************************)
(* The barrier.                                                            *)
(***************************************************************************)

\* The first message of a stream is sound.
LEMMA HeadSound ==
  ASSUME Streams, NEW p \in Procs, wire[p] # << >>
  PROVE  Sound(Head(wire[p]))
  <1>1. PICK S : /\ wire \in [Procs -> Seq(S)]
                 /\ handling \in [Procs -> Held(S)]
                 /\ \A m \in S : Sound(m)
    BY DEF Streams
  <1>2. Head(wire[p]) \in S
    BY <1>1, TailElements
  <1> QED
    BY <1>1, <1>2

\* A sound message with the header of a token is one, and an honest one.
LEMMA TokenSound ==
  ASSUME NEW m, Sound(m), m.head = "finish"
  PROVE  /\ m \in Ring!Token
         /\ m.idx \in Nat /\ m.cnt \in [Procs -> Nat]
         /\ \A q \in Procs : m.cnt[q] # 0 => m.idx \in is_finished[q]
  BY DEF Sound, Message, IsToken, Ring!Token, Procs

LEMMA TokenIsMessage ==
  ASSUME NEW m \in Ring!Token
  PROVE  m \in Message /\ m.head = "finish"
  BY DEF Message, Ring!Token, Procs

\* The shared variables of the barrier are left alone.
LEMMA ControlQuiet ==
  ASSUME ControlInv, UNCHANGED <<mainVars, serverVars, closed>>,
         step' \in [Procs -> Nat]
  PROVE  ControlInv'
  <1> USE DEF ControlInv, mainVars, serverVars
  <1>1. ControlType'
    BY DEF ControlType
  <1>2. FinishedIsPrefix' /\ WakeIsCurrent' /\ LeftAnnounced' /\ ClosedLast'
    BY DEF FinishedIsPrefix, Ring!Inside, WakeIsCurrent, LeftAnnounced,
           ClosedLast
  <1>3. AnnouncedByAll'
    BY DEF AnnouncedByAll, Announced
  <1> QED
    BY <1>1, <1>2, <1>3

\* What the main thread calculates.
LEMMA CalculateControl ==
  ASSUME ControlInv, NEW p \in Procs, Calculate(p)
  PROVE  ControlInv'
  <1>1. ControlType
    BY DEF ControlInv
  <1>2. UNCHANGED <<mainVars, serverVars>>
    BY DEF Calculate, ReadSize, SendPart, SetPartCount, SolveOrder,
           SendPartData, CalculateUnderSale, Close
  <1>3. step' \in [Procs -> Nat]
    <2>1. UNCHANGED step \/ Advance(p)
      BY DEF Calculate, ReadSize, SendPart, SetPartCount, SolveOrder,
             SendPartData, CalculateUnderSale, Close
    <2> QED
      BY <1>1, <2>1 DEF Advance, ControlType
  <1>4. CASE Close(p)
    <2>1. pc[p] = "run" /\ finish_index[p] = N + 2 /\ closed' = closed \cup {p}
      BY <1>4 DEF Close, InPhase
    <2>2. ClosedLast'
      BY <1>2, <2>1 DEF ControlInv, ClosedLast, mainVars
    <2>3. /\ ControlType' /\ FinishedIsPrefix' /\ WakeIsCurrent'
          /\ LeftAnnounced' /\ AnnouncedByAll'
      BY <1>2, <1>3
         DEF ControlInv, ControlType, FinishedIsPrefix, Ring!Inside,
             WakeIsCurrent, LeftAnnounced, AnnouncedByAll, Announced,
             mainVars, serverVars
    <2> QED
      BY <2>2, <2>3 DEF ControlInv
  <1>5. CASE ~ Close(p)
    <2>1. UNCHANGED closed
      BY <1>5 DEF Calculate, ReadSize, SendPart, SetPartCount, SolveOrder,
                  SendPartData, CalculateUnderSale
    <2> QED
      BY <1>2, <1>3, <2>1, ControlQuiet
  <1> QED
    BY <1>4, <1>5

\* doAsync.
LEMMA SynchroniseControl ==
  ASSUME ControlInv, NEW p \in Procs, Synchronise(p)
  PROVE  ControlInv'
  <1> USE DEF ControlInv, ControlType, advancedVars, Ring!mainVars,
              Ring!serverVars, Procs
  <1>1. CASE EnterBarrier(p)
    <2>1. Ring!EnterBarrier(p) /\ UNCHANGED <<step, closed>>
      BY <1>1 DEF EnterBarrier
    <2>2. ControlType'
      BY <2>1 DEF Ring!EnterBarrier
    <2>3. FinishedIsPrefix'
      BY <2>1 DEF Ring!EnterBarrier, FinishedIsPrefix, Ring!Inside
    <2>4. AnnouncedByAll'
      BY <2>1 DEF Ring!EnterBarrier, AnnouncedByAll, Announced
    <2>5. WakeIsCurrent' /\ LeftAnnounced'
      BY <2>1 DEF Ring!EnterBarrier, WakeIsCurrent, LeftAnnounced
    <2>6. ClosedLast'
      BY <2>1, NAssumption DEF Ring!EnterBarrier, ClosedLast
    <2> QED
      BY <2>2, <2>3, <2>4, <2>5, <2>6
  <1>2. CASE LeaveBarrier(p)
    <2>1. /\ Ring!LeaveBarrier(p)
          /\ step' = [step EXCEPT ![p] = 0]
          /\ UNCHANGED closed
      BY <1>2 DEF LeaveBarrier
    <2>2. ControlType'
      BY <2>1 DEF Ring!LeaveBarrier
    <2>3. FinishedIsPrefix'
      BY <2>1 DEF Ring!LeaveBarrier, FinishedIsPrefix, Ring!Inside
    <2>4. AnnouncedByAll'
      BY <2>1 DEF Ring!LeaveBarrier, AnnouncedByAll, Announced
    <2>5. WakeIsCurrent' /\ ClosedLast'
      BY <2>1 DEF Ring!LeaveBarrier, WakeIsCurrent, ClosedLast
    <2>6. LeftAnnounced'
      <3>1. /\ UNCHANGED has_notify
            /\ finish_index' = [finish_index EXCEPT ![p] = @ + 1]
            /\ pc' = [pc EXCEPT ![p] = "run"] /\ pc[p] = "woken"
        BY <2>1 DEF Ring!LeaveBarrier
      <3>2. \A q \in Procs \ {p} : finish_index'[q] = finish_index[q]
                                 /\ pc'[q] = pc[q]
        BY <3>1
      <3>3. \A k \in Nat : k < finish_index'[p] => k \in has_notify[p]
        BY <3>1 DEF LeftAnnounced
      <3>4. pc'[p] # "woken"
        BY <3>1
      <3> QED
        BY <3>1, <3>2, <3>3, <3>4 DEF LeftAnnounced
    <2> QED
      BY <2>2, <2>3, <2>4, <2>5, <2>6
  <1>3. CASE (Ring!SendFinish(p) \/ Ring!Wait(p)) /\ UNCHANGED advancedVars
    <2> USE <1>3 DEF Ring!SendFinish, Ring!Wait
    <2>1. ControlType'
      OBVIOUS
    <2>2. FinishedIsPrefix'
      BY DEF FinishedIsPrefix, Ring!Inside
    <2>3. AnnouncedByAll'
      BY DEF AnnouncedByAll, Announced
    <2>4. WakeIsCurrent' /\ LeftAnnounced' /\ ClosedLast'
      BY DEF WakeIsCurrent, LeftAnnounced, ClosedLast
    <2> QED
      BY <2>1, <2>2, <2>3, <2>4
  <1> QED
    BY <1>1, <1>2, <1>3 DEF Synchronise

\* The server thread, but for the announcement of a barrier.
LEMMA ServeControl ==
  ASSUME ControlInv, NEW p \in Procs,
         \/ ReceivePart(p) \/ ReceivePartData(p) \/ Forward(p)
         \/ (Ring!DropToken(p) \/ Ring!PassToken(p)) /\ UNCHANGED advancedVars
  PROVE  ControlInv'
  <1>1. UNCHANGED <<mainVars, serverVars, step, closed>>
    BY DEF ReceivePart, ReceivePartData, Forward, Ring!DropToken,
           Ring!PassToken, Ring!mainVars, Ring!serverVars, mainVars, serverVars,
           advancedVars
  <1>2. step' \in [Procs -> Nat]
    BY <1>1 DEF ControlInv, ControlType
  <1> QED
    BY <1>1, <1>2, ControlQuiet

\* A server sees a complete token: everybody has reached the barrier.
LEMMA CompleteControl ==
  ASSUME ControlInv, Streams, NEW p \in Procs, Reads(p, "finish"),
         Ring!CompleteToken(p), UNCHANGED advancedVars
  PROVE  ControlInv'
  <1> DEFINE t == Head(wire[p])
  <1>1. /\ UNCHANGED <<mainVars, has_notify, step, closed>>
        /\ notifying' = [notifying EXCEPT ![p] = t.idx]
        /\ notifying[p] = Ring!None
        /\ t.idx \notin has_notify[p]
        /\ Ring!Current(p, t) /\ Ring!CheckFinish(t)
    BY DEF Ring!CompleteToken, Ring!mainVars, mainVars, Ring!Receives,
           advancedVars
  <1>2. Sound(t) /\ t.head = "finish"
    BY HeadSound DEF Reads, Ring!Receives
  <1> HIDE DEF t
  <1>3. /\ t.idx \in Nat /\ t.cnt \in [Procs -> Nat]
        /\ \A q \in Procs : t.cnt[q] # 0 => t.idx \in is_finished[q]
    BY <1>2, TokenSound
  <1>4. t.idx = finish_index[p]
    BY <1>1 DEF Ring!Current
  <1>5. \A q \in Procs : t.idx \in is_finished[q]
    BY <1>1, <1>3 DEF Ring!CheckFinish, Procs
  <1> USE DEF ControlInv, mainVars
  <1>6. ControlType'
    BY <1>1, <1>3 DEF ControlType
  <1>7. FinishedIsPrefix' /\ LeftAnnounced' /\ ClosedLast'
    BY <1>1 DEF FinishedIsPrefix, Ring!Inside, LeftAnnounced, ClosedLast
  <1>8. AnnouncedByAll'
    BY <1>1, <1>5 DEF AnnouncedByAll, Announced, ControlType
  <1>9. WakeIsCurrent'
    BY <1>1, <1>4 DEF WakeIsCurrent, LeftAnnounced, ControlType
  <1> QED
    BY <1>6, <1>7, <1>8, <1>9

\* The server calls notify_one.
LEMMA NotifyControl ==
  ASSUME ControlInv, NEW p \in Procs, Ring!Notify(p), UNCHANGED advancedVars
  PROVE  ControlInv'
  <1> USE DEF ControlInv, ControlType, advancedVars
  <1>1. /\ UNCHANGED <<finish_index, is_finished>>
        /\ notifying[p] # Ring!None /\ notifying[p] \in Nat
        /\ has_notify' = [has_notify EXCEPT ![p] = @ \cup {notifying[p]}]
        /\ notifying' = [notifying EXCEPT ![p] = Ring!None]
    BY DEF Ring!Notify
  <1>2. /\ \A q \in Procs \ {p} : pc'[q] = pc[q]
        /\ \/ pc'[p] = pc[p]
           \/ pc[p] = "wait" /\ pc'[p] = "woken"
        /\ pc' \in [Procs -> {"run", "entered", "sent", "wait", "woken"}]
    BY DEF Ring!Notify
  <1>3. ControlType'
    BY <1>1, <1>2
  <1>4. FinishedIsPrefix'
    BY <1>1, <1>2 DEF FinishedIsPrefix, Ring!Inside
  <1>5. \A q \in Procs : \A k \in Nat : Announced(q, k)' => Announced(q, k)
    BY <1>1 DEF Announced, Ring!None
  <1>6. AnnouncedByAll'
    BY <1>1, <1>5 DEF AnnouncedByAll
  <1>7. WakeIsCurrent' /\ ClosedLast'
    BY <1>1, <1>2 DEF WakeIsCurrent, ClosedLast
  <1>8. LeftAnnounced'
    BY <1>1, <1>2 DEF LeftAnnounced, WakeIsCurrent
  <1> QED
    BY <1>3, <1>4, <1>6, <1>7, <1>8

LEMMA NextControl ==
  ASSUME ControlInv, Streams, [Next]_vars
  PROVE  ControlInv'
  <1>1. CASE UNCHANGED vars
    <2>1. UNCHANGED <<mainVars, serverVars, step, closed>>
      BY <1>1 DEF vars, advancedVars, Ring!vars, mainVars, serverVars
    <2> QED
      BY <2>1, ControlQuiet DEF ControlInv, ControlType
  <1>2. CASE Next
    <2>1. PICK p \in Procs : Calculate(p) \/ Synchronise(p) \/ Serve(p)
      BY <1>2 DEF Next
    <2>2. CASE Serve(p)
      <3>1. \/ \/ ReceivePart(p) \/ ReceivePartData(p) \/ Forward(p)
               \/ /\ Ring!DropToken(p) \/ Ring!PassToken(p)
                  /\ UNCHANGED advancedVars
            \/ /\ Reads(p, "finish") /\ Ring!CompleteToken(p)
               /\ UNCHANGED advancedVars
            \/ Ring!Notify(p) /\ UNCHANGED advancedVars
        BY <2>2 DEF Serve, ReceiveFinish, Ring!HandleFinish
      <3> QED
        BY <3>1, ServeControl, CompleteControl, NotifyControl
    <2> QED
      BY <2>1, <2>2, CalculateControl, SynchroniseControl
  <1> QED
    BY <1>1, <1>2

-------------------------------------------------------------------------------
(***************************************************************************)
(* What is in the streams.                                                 *)
(***************************************************************************)

\* Instances only ever reach more barriers.
LEMMA FinishedGrows ==
  ASSUME ControlType, [Next]_vars
  PROVE  \A q \in Procs : is_finished[q] \subseteq is_finished'[q]
  <1> USE DEF mainVars, serverVars, advancedVars, Ring!mainVars, Ring!serverVars
  <1>1. ASSUME NEW p \in Procs, EnterBarrier(p)
        PROVE  \A q \in Procs : is_finished[q] \subseteq is_finished'[q]
    BY <1>1 DEF EnterBarrier, Ring!EnterBarrier, ControlType
  <1>2. \/ UNCHANGED is_finished
        \/ \E p \in Procs : EnterBarrier(p)
    <2>1. CASE UNCHANGED vars
      BY <2>1 DEF vars, Ring!vars
    <2>2. ASSUME NEW p \in Procs, Calculate(p) PROVE UNCHANGED is_finished
      BY <2>2 DEF Calculate, ReadSize, SendPart, SetPartCount, SolveOrder,
                  SendPartData, CalculateUnderSale, Close
    <2>3. ASSUME NEW p \in Procs, Synchronise(p)
          PROVE  UNCHANGED is_finished \/ EnterBarrier(p)
      BY <2>3 DEF Synchronise, LeaveBarrier, Ring!LeaveBarrier,
                  Ring!SendFinish, Ring!Wait
    <2>4. ASSUME NEW p \in Procs, Serve(p) PROVE UNCHANGED is_finished
      BY <2>4 DEF Serve, ReceiveFinish, Ring!HandleFinish, Ring!DropToken,
                  Ring!PassToken, Ring!CompleteToken, Ring!Notify,
                  ReceivePart, ReceivePartData, Forward
    <2> QED
      BY <2>1, <2>2, <2>3, <2>4 DEF Next
  <1> QED
    BY <1>1, <1>2

\* A message stays sound when more instances reach more barriers.
LEMMA SoundGrows ==
  ASSUME NEW m, Sound(m),
         \A q \in Procs : is_finished[q] \subseteq is_finished'[q]
  PROVE  Sound(m)'
  BY DEF Sound

\* At most one new message, a sound one.
LEMMA StreamsWith ==
  ASSUME NEW S, \A m \in S : Sound(m), NEW u, Sound(u)',
         \A q \in Procs : is_finished[q] \subseteq is_finished'[q],
         wire' \in [Procs -> Seq(S \cup {u})],
         handling' \in [Procs -> Held(S \cup {u})]
  PROVE  Streams'
  <1>1. \A m \in S \cup {u} : Sound(m)'
    BY SoundGrows
  <1> QED
    BY <1>1 DEF Streams

\* What may be in the streams may be in larger ones.
LEMMA TypesGrow ==
  ASSUME NEW S, NEW u, wire \in [Procs -> Seq(S)],
         handling \in [Procs -> Held(S)]
  PROVE  /\ wire \in [Procs -> Seq(S \cup {u})]
         /\ handling \in [Procs -> Held(S \cup {u})]
  <1>1. \A p \in Procs : wire[p] \in Seq(S \cup {u})
    BY SeqMonotonic
  <1>2. \A p \in Procs : handling[p] \in Held(S \cup {u})
    BY DEF Held
  <1> QED
    BY <1>1, <1>2

\* Nothing is sent or read.
LEMMA StreamsQuiet ==
  ASSUME Streams, \A q \in Procs : is_finished[q] \subseteq is_finished'[q],
         UNCHANGED <<wire, handling>>
  PROVE  Streams'
  <1>1. PICK S : /\ wire \in [Procs -> Seq(S)]
                 /\ handling \in [Procs -> Held(S)]
                 /\ \A m \in S : Sound(m)
    BY DEF Streams
  <1>2. \A m \in S : Sound(m)'
    BY <1>1, SoundGrows
  <1> QED
    BY <1>1, <1>2 DEF Streams

\* A sound message is sent.
LEMMA StreamsSend ==
  ASSUME Streams, NEW p \in Procs,
         \A q \in Procs : is_finished[q] \subseteq is_finished'[q],
         NEW u, Sound(u)',
         wire' = [wire EXCEPT ![Down(p)] = Append(@, u)],
         handling' = handling \/ handling' = [handling EXCEPT ![p] = None]
  PROVE  Streams'
  <1>1. PICK S : /\ wire \in [Procs -> Seq(S)]
                 /\ handling \in [Procs -> Held(S)]
                 /\ \A m \in S : Sound(m)
    BY DEF Streams
  <1>2. /\ wire \in [Procs -> Seq(S \cup {u})]
        /\ handling \in [Procs -> Held(S \cup {u})]
    BY <1>1, TypesGrow
  <1>3. Append(wire[Down(p)], u) \in Seq(S \cup {u})
    BY <1>1, RingArithmetic, AppendElements
  <1>4. wire' \in [Procs -> Seq(S \cup {u})]
    BY <1>2, <1>3
  <1>5. handling' \in [Procs -> Held(S \cup {u})]
    BY <1>2 DEF Held
  <1> QED
    BY <1>1, <1>4, <1>5, StreamsWith

\* The first message is read, and a part perhaps kept to be forwarded.
LEMMA StreamsRead ==
  ASSUME Streams, NEW p \in Procs, wire[p] # << >>,
         \A q \in Procs : is_finished[q] \subseteq is_finished'[q],
         wire' = [wire EXCEPT ![p] = Tail(@)],
         handling' = handling \/ (Head(wire[p]).head = "part" /\ GoOn(p))
  PROVE  Streams'
  <1>1. PICK S : /\ wire \in [Procs -> Seq(S)]
                 /\ handling \in [Procs -> Held(S)]
                 /\ \A m \in S : Sound(m)
    BY DEF Streams
  <1>2. Tail(wire[p]) \in Seq(S) /\ Head(wire[p]) \in S
    BY <1>1, TailElements
  <1>3. wire' \in [Procs -> Seq(S)]
    BY <1>1, <1>2
  <1>4. handling' \in [Procs -> Held(S)]
    BY <1>1, <1>2 DEF Held, GoOn
  <1>5. \A m \in S : Sound(m)'
    BY <1>1, SoundGrows
  <1> QED
    BY <1>3, <1>4, <1>5 DEF Streams

\* What a server has in its hands.
LEMMA HandType ==
  ASSUME Streams, NEW p \in Procs, handling[p] # None
  PROVE  handling[p].head = "part" /\ Sound(handling[p])
  BY DEF Streams, Held

\* A token is passed on.
LEMMA StreamsRelay ==
  ASSUME Streams, NEW p \in Procs, wire[p] # << >>,
         \A q \in Procs : is_finished[q] \subseteq is_finished'[q],
         NEW u, Sound(u)',
         wire' = [wire EXCEPT ![p] = Tail(@), ![Down(p)] = Append(@, u)],
         handling' = handling
  PROVE  Streams'
  <1>1. PICK S : /\ wire \in [Procs -> Seq(S)]
                 /\ handling \in [Procs -> Held(S)]
                 /\ \A m \in S : Sound(m)
    BY DEF Streams
  <1>2. /\ wire \in [Procs -> Seq(S \cup {u})]
        /\ handling \in [Procs -> Held(S \cup {u})]
    BY <1>1, TypesGrow
  <1>3. /\ Append(wire[Down(p)], u) \in Seq(S \cup {u})
        /\ Down(p) # p
    BY <1>1, RingArithmetic, AppendElements
  <1>4. Tail(wire[p]) \in Seq(S \cup {u})
    BY <1>2, TailElements
  <1>5. wire' \in [Procs -> Seq(S \cup {u})]
    BY <1>2, <1>3, <1>4
  <1> QED
    BY <1>1, <1>2, <1>5, StreamsWith

-------------------------------------------------------------------------------
(***************************************************************************)
(* Where the parts are.                                                    *)
(***************************************************************************)

\* What PartsPlaced says after a step, for any message.
LEMMA PlacedIntro ==
  ASSUME ASSUME NEW s \in Procs, NEW i \in 1..Len(wire'[s]),
                NEW m, m = wire'[s][i], m.head = "part"
         PROVE  \E q \in Procs : Placed(m, q, s, i)',
         ASSUME NEW s \in Procs, NEW m, m = handling'[s], m # None
         PROVE  \E q \in Procs : Placed(m, q, s, 0)'
  PROVE  PartsPlaced'
  <1>1. ASSUME NEW s \in Procs
        PROVE  /\ \A i \in 1..Len(wire'[s]) : wire'[s][i].head = "part" =>
                    \E q \in Procs : Placed(wire[s][i], q, s, i)'
               /\ handling'[s] # None =>
                    \E q \in Procs : Placed(handling[s], q, s, 0)'
    BY DEF Placed
  <1> QED
    BY <1>1 DEF PartsPlaced

\* No message moves.
LEMMA PlacedQuiet ==
  ASSUME PartsPlaced, UNCHANGED <<wire, handling>>,
         \A q \in Procs : Known(q) \subseteq Known(q)',
         \A p \in Procs : Announced(p, 0)' => Announced(p, 0)
  PROVE  PartsPlaced'
  <1>1. ASSUME NEW m, NEW q \in Procs, NEW s \in Procs, NEW i, Placed(m, q, s, i)
        PROVE  Placed(m, q, s, i)'
    BY <1>1 DEF Placed, Passed, Clear
  <1>2. ASSUME NEW s \in Procs, NEW i \in 1..Len(wire'[s]),
               NEW m, m = wire'[s][i], m.head = "part"
        PROVE  \E q \in Procs : Placed(m, q, s, i)'
    BY <1>1, <1>2 DEF PartsPlaced
  <1>3. ASSUME NEW s \in Procs, NEW m, m = handling'[s], m # None
        PROVE  \E q \in Procs : Placed(m, q, s, 0)'
    BY <1>1, <1>3 DEF PartsPlaced
  <1> QED
    BY <1>2, <1>3, PlacedIntro

\* A message is sent that overtakes nothing and, if it is a part, has its place;
\* the hands of a server may be emptied.
LEMMA PlacedSend ==
  ASSUME Streams, PartsPlaced, NEW d \in Procs, NEW e, NEW last,
         last = Len(wire[d]) + 1,
         wire' = [wire EXCEPT ![d] = Append(@, e)],
         \A s \in Procs : handling'[s] # None => handling'[s] = handling[s],
         \A q \in Procs : Known(q) \subseteq Known(q)',
         \A p \in Procs : Announced(p, 0)' => Announced(p, 0),
         \A q, s \in Procs : \A i \in Nat :
           (s = d => i < last) => NotOvertaken(e, 0, q, s, i, d, last),
         e.head = "part" => \E q \in Procs : Placed(e, q, d, last)'
  PROVE  PartsPlaced'
  <1>1. PICK S : wire \in [Procs -> Seq(S)]
    BY DEF Streams
  <1>2. \A s \in Procs : Len(wire[s]) \in Nat
    BY <1>1, LenProperties
  <1>3. ASSUME NEW m, NEW q \in Procs, NEW s \in Procs, NEW i \in Nat,
               s = d => i < last, Placed(m, q, s, i)
        PROVE  Placed(m, q, s, i)'
    <2>1. Clear(wire, 0, q, s, i)
      BY <1>3 DEF Placed
    <2>2. NotOvertaken(e, 0, q, s, i, d, Len(wire[d]) + 1)
      BY <1>3
    <2>3. Clear(wire', 0, q, s, i)
      BY <1>1, <2>1, <2>2, ClearSend
    <2>4. Passed(q, s)' /\ m.part \in Known(q)'
      BY <1>3 DEF Placed, Passed
    <2> QED
      BY <1>3, <2>3, <2>4 DEF Placed
  <1>4. ASSUME NEW s \in Procs, NEW i \in 1..Len(wire'[s]),
               NEW m, m = wire'[s][i], m.head = "part"
        PROVE  \E q \in Procs : Placed(m, q, s, i)'
    <2>1. \/ i \in 1..Len(wire[s]) /\ m = wire[s][i]
          \/ s = d /\ i = last /\ m = e
      BY <1>1, <1>4, AppendElements
    <2>2. CASE i \in 1..Len(wire[s]) /\ m = wire[s][i]
      <3>1. PICK q \in Procs : Placed(m, q, s, i)
        BY <1>4, <2>2 DEF PartsPlaced
      <3>2. i \in Nat /\ (s = d => i < last)
        BY <1>2, <2>2
      <3> QED
        BY <1>3, <3>1, <3>2
    <2>3. CASE s = d /\ i = last /\ m = e
      BY <1>4, <2>3
    <2> QED
      BY <2>1, <2>2, <2>3
  <1>5. ASSUME NEW s \in Procs, NEW m, m = handling'[s], m # None
        PROVE  \E q \in Procs : Placed(m, q, s, 0)'
    <2>1. handling[s] # None /\ m = handling[s]
      BY <1>5
    <2>2. PICK q \in Procs : Placed(m, q, s, 0)
      BY <2>1 DEF PartsPlaced
    <2> QED
      BY <1>2, <1>3, <2>2
  <1> QED
    BY <1>4, <1>5, PlacedIntro

\* The first message of a stream is read, and perhaps kept to be forwarded, if
\* it is a part the instance did not list.
LEMMA PlacedRead ==
  ASSUME Streams, PartsPlaced, NEW p \in Procs, wire[p] # << >>,
         handling[p] = None, wire' = [wire EXCEPT ![p] = Tail(@)],
         \/ handling' = handling
         \/ /\ GoOn(p)
            /\ Head(wire[p]).head = "part" /\ Head(wire[p]).part \notin Known(p),
         \A q \in Procs : Known(q) \subseteq Known(q)',
         \A q \in Procs : Announced(q, 0)' => Announced(q, 0)
  PROVE  PartsPlaced'
  <1>1. PICK S : wire \in [Procs -> Seq(S)] /\ handling \in [Procs -> Held(S)]
    BY DEF Streams
  <1>2. /\ \A i \in 1..Len(wire'[p]) : /\ i + 1 \in 1..Len(wire[p])
                                       /\ wire'[p][i] = wire[p][i + 1]
        /\ \A s \in Procs \ {p} : wire'[s] = wire[s]
        /\ 1 \in 1..Len(wire[p]) /\ Head(wire[p]) = wire[p][1]
        /\ \A s \in Procs : Len(wire[s]) \in Nat
    BY <1>1, TailElements, LenProperties
  <1>3. ASSUME NEW m, NEW q \in Procs, NEW s \in Procs, NEW i \in Nat,
               s = p => i >= 1, Placed(m, q, s, i),
               NEW i2 \in Nat, i2 = (IF s = p THEN i - 1 ELSE i),
               i2 = 0 => s # q
        PROVE  Placed(m, q, s, i2)'
    <2>1. Clear(wire, 0, q, s, i)
      BY <1>3 DEF Placed
    <2>2. Clear([wire EXCEPT ![p] = Tail(@)], 0, q, s, i2)
      BY <1>1, <1>3, <2>1, ClearTail
    <2>3. Passed(q, s)' /\ m.part \in Known(q)'
      BY <1>3 DEF Placed, Passed
    <2> QED
      BY <1>3, <2>2, <2>3 DEF Placed
  <1>4. ASSUME NEW s \in Procs, NEW i \in 1..Len(wire'[s]),
               NEW m, m = wire'[s][i], m.head = "part"
        PROVE  \E q \in Procs : Placed(m, q, s, i)'
    <2>1. CASE s = p
      <3>1. i + 1 \in 1..Len(wire[s]) /\ m = wire[s][i + 1]
        BY <1>2, <1>4, <2>1
      <3>2. PICK q \in Procs : Placed(m, q, s, i + 1)
        BY <1>4, <3>1 DEF PartsPlaced
      <3>3. /\ i \in Nat /\ i # 0 /\ i + 1 \in Nat
            /\ i = IF s = p THEN i + 1 - 1 ELSE i + 1
        BY <1>2, <2>1, <3>1
      <3> QED
        BY <1>3, <3>2, <3>3
    <2>2. CASE s # p
      <3>1. i \in 1..Len(wire[s]) /\ m = wire[s][i]
        BY <1>2, <1>4, <2>2
      <3>2. PICK q \in Procs : Placed(m, q, s, i)
        BY <1>4, <3>1 DEF PartsPlaced
      <3> QED
        BY <1>2, <1>3, <2>2, <3>1, <3>2
    <2> QED
      BY <2>1, <2>2
  <1>5. ASSUME NEW s \in Procs, NEW m, m = handling'[s], m # None
        PROVE  \E q \in Procs : Placed(m, q, s, 0)'
    <2>1. CASE handling'[s] = handling[s]
      <3>1. handling[s] # None /\ m = handling[s] /\ s # p
        BY <1>5, <2>1
      <3>2. PICK q \in Procs : Placed(m, q, s, 0)
        BY <3>1 DEF PartsPlaced
      <3>3. s # q
        BY <3>2 DEF Placed
      <3> QED
        BY <1>3, <3>1, <3>2, <3>3
    <2>2. CASE handling'[s] # handling[s]
      <3>1. /\ s = p /\ m = Head(wire[p])
            /\ m.head = "part" /\ m.part \notin Known(p)
        BY <1>1, <1>5, <2>2 DEF GoOn
      <3>2. PICK q \in Procs : Placed(m, q, s, 1)
        BY <1>2, <3>1 DEF PartsPlaced
      <3>3. q # p
        BY <3>1, <3>2 DEF Placed
      <3> QED
        BY <1>3, <3>1, <3>2, <3>3
    <2> QED
      BY <2>1, <2>2
  <1> QED
    BY <1>4, <1>5, PlacedIntro

\* A token is read and passed on, and its barrier announced if it is complete.
LEMMA PlacedRelay ==
  ASSUME Streams, PartsPlaced, NEW p \in Procs, wire[p] # << >>,
         handling[p] = None, NEW t \in Ring!Token, t = Head(wire[p]),
         wire' = [wire EXCEPT ![p] = Tail(@),
                       ![Down(p)] = Append(@, Ring!Stamped(p, t.idx, t.cnt))],
         UNCHANGED <<handling, partIdHash>>,
         \A q \in Procs : Announced(q, 0)' =>
           Announced(q, 0) \/ (q = p /\ t.idx = 0 /\ Ring!CheckFinish(t))
  PROVE  PartsPlaced'
  <1> DEFINE u == Ring!Stamped(p, t.idx, t.cnt)
             w2 == [wire EXCEPT ![p] = Tail(@)]
  <1>1. PICK S : wire \in [Procs -> Seq(S)] /\ handling \in [Procs -> Held(S)]
    BY DEF Streams
  <1>2. /\ w2 \in [Procs -> Seq(S)]
        /\ w2[p] = Tail(wire[p]) /\ \A s \in Procs \ {p} : w2[s] = wire[s]
        /\ Down(p) \in Procs /\ Down(p) # p
    BY <1>1, TailElements, RingArithmetic
  <1>3. wire' = [w2 EXCEPT ![Down(p)] = Append(@, u)]
    BY <1>2
  <1>4. u.head = "finish" /\ t.head = "finish" /\ t.cnt \in [Procs -> Nat]
    BY DEF Ring!Stamped, Ring!Token, Procs
  <1>5. \A s \in Procs : Len(wire[s]) \in Nat /\ Len(w2[s]) \in Nat
    BY <1>1, <1>2, LenProperties
  <1>6. /\ \A i \in 1..Len(w2[p]) : /\ i + 1 \in 1..Len(wire[p])
                                    /\ w2[p][i] = wire[p][i + 1]
        /\ 1 \in 1..Len(wire[p]) /\ t = wire[p][1]
    BY <1>1, <1>2, TailElements
  <1> HIDE DEF u, w2
  <1>7. ASSUME NEW m, NEW q \in Procs, NEW s \in Procs, NEW i \in Nat,
               s = p => i >= 1, Placed(m, q, s, i),
               NEW i2 \in Nat, i2 = (IF s = p THEN i - 1 ELSE i),
               i2 = 0 => s # q, i2 <= Len(w2[s])
        PROVE  Placed(m, q, s, i2)'
    <2>1. Clear(wire, 0, q, s, i)
      BY <1>7 DEF Placed
    <2>2. Clear(w2, 0, q, s, i2)
      BY <1>1, <1>7, <2>1, ClearTail DEF w2
    <2>3. NotOvertaken(t, 0, q, s, i, p, 1)
      BY <1>6, <2>1 DEF Clear
    <2>4. NotOvertaken(u, 0, q, s, i2, Down(p), Len(w2[Down(p)]) + 1)
      <3>1. s = Down(p) => i2 < Len(w2[Down(p)]) + 1
        BY <1>5, <1>7
      <3>2. Len(w2[Down(p)]) + 1 \in Nat
        BY <1>2, <1>5
      <3> QED
        BY <1>7, <2>3, <3>1, <3>2, StampBehind DEF u
    <2>5. Clear(wire', 0, q, s, i2)
      <3>1. Clear([w2 EXCEPT ![Down(p)] = Append(@, u)], 0, q, s, i2)
        BY <1>2, <1>7, <2>2, <2>4, ClearSend
      <3> QED
        BY <1>3, <3>1
    <2>6. Passed(q, s)'
      <3> SUFFICES ASSUME NEW r \in Procs, Announced(r, 0)'
                   PROVE  Hops(q, s) > Hops(q, r)
        BY DEF Passed
      <3>1. CASE Announced(r, 0)
        BY <1>7, <3>1 DEF Placed, Passed
      <3>2. CASE r = p /\ t.idx = 0 /\ Ring!CheckFinish(t)
        <4>1. t.cnt[q] # 0
          BY <1>4, <3>2 DEF Ring!CheckFinish, Procs
        <4>2. Ahead(q, s, i, p, 1)
          BY <1>4, <2>3, <3>2, <4>1 DEF NotOvertaken, IsToken
        <4> QED
          BY <1>7, <3>2, <4>2 DEF Ahead
      <3> QED
        BY <3>1, <3>2
    <2>7. m.part \in Known(q)'
      BY <1>7 DEF Placed, Known
    <2> QED
      BY <1>7, <2>5, <2>6, <2>7 DEF Placed
  <1>8. ASSUME NEW s \in Procs, NEW i \in 1..Len(wire'[s]),
               NEW m, m = wire'[s][i], m.head = "part"
        PROVE  \E q \in Procs : Placed(m, q, s, i)'
    <2>1. i \in 1..Len(w2[s]) /\ m = w2[s][i]
      BY <1>2, <1>3, <1>4, <1>8, AppendElements
    <2>2. CASE s = p
      <3>1. i + 1 \in 1..Len(wire[s]) /\ m = wire[s][i + 1]
        BY <1>6, <2>1, <2>2
      <3>2. PICK q \in Procs : Placed(m, q, s, i + 1)
        BY <1>8, <3>1 DEF PartsPlaced
      <3>3. /\ i \in Nat /\ i # 0 /\ i <= Len(w2[s])
            /\ i + 1 \in Nat /\ i + 1 >= 1
            /\ i = IF s = p THEN (i + 1) - 1 ELSE i + 1
        BY <1>5, <2>1, <2>2
      <3> QED
        BY <1>7, <3>2, <3>3
    <2>3. CASE s # p
      <3>1. i \in 1..Len(wire[s]) /\ m = wire[s][i]
        BY <1>2, <2>1, <2>3
      <3>2. PICK q \in Procs : Placed(m, q, s, i)
        BY <1>8, <3>1 DEF PartsPlaced
      <3>3. /\ i \in Nat /\ i # 0 /\ i <= Len(w2[s])
            /\ i = IF s = p THEN i - 1 ELSE i
        BY <1>5, <2>1, <2>3
      <3> QED
        BY <1>7, <2>3, <3>2, <3>3
    <2> QED
      BY <2>2, <2>3
  <1>9. ASSUME NEW s \in Procs, NEW m, m = handling'[s], m # None
        PROVE  \E q \in Procs : Placed(m, q, s, 0)'
    <2>1. handling[s] # None /\ m = handling[s] /\ s # p
      BY <1>9
    <2>2. PICK q \in Procs : Placed(m, q, s, 0)
      BY <2>1 DEF PartsPlaced
    <2>3. s # q
      BY <2>2 DEF Placed
    <2> QED
      BY <1>7, <1>5, <2>1, <2>2, <2>3
  <1> QED
    BY <1>8, <1>9, PlacedIntro

-------------------------------------------------------------------------------
(***************************************************************************)
(* The barrier of phase 0 completes the tables.                            *)
(***************************************************************************)

\* If a message from q has left p behind and is at u, then q is nearer to p than
\* u is.
LEMMA OriginIsNearer ==
  ASSUME NEW p \in Procs, NEW q \in Procs, NEW u \in Procs, u # p
  PROVE  /\ u # q /\ Hops(q, u) > Hops(q, p) => Hops(q, p) < Hops(u, p)
         /\ Hops(q, Down(u)) > Hops(q, p) => Hops(q, p) < Hops(u, p)
         /\ Down(u) # p => Hops(Down(u), p) < Hops(u, p)
  BY NAssumption DEF Procs, Ring!Procs, Hops, Down, Ring!Down

\* Among some instances there is one that is nearest to p.
LEMMA Nearest ==
  ASSUME NEW p \in Procs, NEW W, W \subseteq Procs, W # {}
  PROVE  \E u \in W : \A v \in W : ~ (Hops(v, p) < Hops(u, p))
  <1> DEFINE T == {Hops(u, p) : u \in W}
             Less == OpToRel(<, Nat)
  <1>1. T \subseteq Nat /\ T # {}
    <2> HIDE DEF Less
    <2> QED
      BY RingArithmetic, NAssumption
  <1>2. IsWellFoundedOn(Less, Nat)
    BY NatLessThanWellFounded, Zenon
  <1>3. PICK h \in T : \A g \in T : ~ (<<g, h>> \in Less)
    <2> HIDE DEF T, Less
    <2> QED
      BY <1>1, <1>2, WFMin
  <1>4. \A g \in T : ~ (g < h)
    BY <1>1, <1>3 DEF OpToRel
  <1> QED
    BY <1>3, <1>4

\* A part that an instance has in its hands, or that comes to it, comes from one
\* that lists it and has passed p since, if p has announced the barrier.
LEMMA PartHasPassed ==
  ASSUME PartsPlaced, NEW p \in Procs, Announced(p, 0), NEW u \in Procs, NEW k
  PROVE  /\ IsPart(handling[u], k) => \E q \in Procs :
              k \in Known(q) /\ u # q /\ Hops(q, u) > Hops(q, p)
         /\ Comes(u, k) => \E q \in Procs :
              k \in Known(q) /\ Hops(q, u) > Hops(q, p)
  <1>1. ASSUME NEW m, IsPart(m, k), NEW q \in Procs, NEW i, Placed(m, q, u, i)
        PROVE  /\ k \in Known(q) /\ Hops(q, u) > Hops(q, p)
               /\ i = 0 => u # q
    BY <1>1 DEF IsPart, Placed, Passed
  <1>2. ASSUME IsPart(handling[u], k)
        PROVE  \E q \in Procs :
                 k \in Known(q) /\ u # q /\ Hops(q, u) > Hops(q, p)
    <2>1. handling[u] # None
      BY <1>2 DEF IsPart, None
    <2>2. PICK q \in Procs : Placed(handling[u], q, u, 0)
      BY <2>1 DEF PartsPlaced
    <2> QED
      BY <1>1, <1>2, <2>2
  <1>3. ASSUME Comes(u, k)
        PROVE  \E q \in Procs : k \in Known(q) /\ Hops(q, u) > Hops(q, p)
    <2>1. PICK i \in 1..Len(wire[u]) : IsPart(wire[u][i], k)
      BY <1>3 DEF Comes
    <2>2. PICK q \in Procs : Placed(wire[u][i], q, u, i)
      BY <2>1 DEF PartsPlaced, IsPart
    <2> QED
      BY <1>1, <2>1, <2>2
  <1> QED
    BY <1>2, <1>3

\* Who has left phase 0 lists every part, and none comes to it any more: of the
\* instances that list a part the one nearest to p would have to send it to a
\* nearer one, or have got it from one.
LEMMA Complete ==
  ASSUME Inv, NEW p \in Procs, finish_index[p] > 0
  PROVE  /\ Known(p) = AllParts
         /\ handling[p] = None
         /\ \A i \in 1..Len(wire[p]) : wire[p][i].head # "part"
  <1>1. Announced(p, 0)
    BY DEF Inv, ControlInv, ControlType, LeftAnnounced, Announced
  <1>2. /\ handling[p] = None
        /\ \A i \in 1..Len(wire[p]) : wire[p][i].head # "part"
    <2>1. ASSUME NEW m, NEW q \in Procs, NEW i, Placed(m, q, p, i) PROVE FALSE
      BY <1>1, <2>1, RingArithmetic, NAssumption DEF Placed, Passed
    <2> QED
      BY <2>1 DEF Inv, PartsPlaced
  <1>3. \A q \in Procs : Known(q) \subseteq AllParts
    <2>1. \A q \in Procs : Known(q) = Range(parts[q]) /\ parts[q] \in Seq(AllParts)
      BY DEF Inv, TablesInv, Table, Known
    <2> QED
      BY <2>1, ElementOfSeq, LenProperties DEF Range
  <1>4. ASSUME NEW k \in AllParts, k \notin Known(p) PROVE FALSE
    <2> DEFINE W == {v \in Procs : k \in Known(v)}
    <2>1. W # {}
      BY DEF AllParts, Inv, TablesInv, Table
    <2>2. PICK u \in W : \A v \in W : ~ (Hops(v, p) < Hops(u, p))
      BY <2>1, Nearest
    <2>3. u \in Procs /\ u # p /\ k \in Known(u) /\ Down(u) \in Procs
      BY <1>4, <2>2, RingArithmetic
    <2>4. GoesOn(u, k)
      BY <2>3 DEF Inv, PartsGoOn
    <2>5. ~ Pending(u, k)
      <3>1. 0 \in is_finished[u]
        BY <1>1, <2>3 DEF Inv, ControlInv, AnnouncedByAll
      <3> QED
        BY <2>3, <3>1 DEF Inv, ControlInv, ControlType, FinishedIsPrefix,
                          Ring!Inside, Pending
    <2>6. ASSUME NEW q \in Procs, k \in Known(q),
                 \/ u # q /\ Hops(q, u) > Hops(q, p)
                 \/ Hops(q, Down(u)) > Hops(q, p)
          PROVE  FALSE
      BY <2>2, <2>3, <2>6, OriginIsNearer
    <2>7. PartsPlaced
      BY DEF Inv
    <2>8. CASE IsPart(handling[u], k)
      BY <1>1, <2>3, <2>6, <2>7, <2>8, PartHasPassed
    <2>9. CASE Comes(Down(u), k)
      BY <1>1, <2>3, <2>6, <2>7, <2>9, PartHasPassed
    <2>10. CASE k \in Known(Down(u))
      BY <1>4, <2>2, <2>3, <2>10, OriginIsNearer
    <2> QED
      BY <2>4, <2>5, <2>8, <2>9, <2>10 DEF GoesOn
  <1> QED
    BY <1>2, <1>3, <1>4

-------------------------------------------------------------------------------
(***************************************************************************)
(* The tables and the counts.                                              *)
(***************************************************************************)

\* Where the tables stay as they are.
LEMMA TablesQuiet ==
  ASSUME TablesInv, UNCHANGED <<parts, partIdHash, sz>>
  PROVE  TablesInv' /\ \A q \in Procs : Known(q)' = Known(q)
  BY DEF TablesInv, Table, Known

\* What the hash says of a table.
LEMMA TableEntries ==
  ASSUME TablesInv, NEW p \in Procs
  PROVE  /\ Known(p) = Range(parts[p]) /\ Known(p) \subseteq AllParts
         /\ Len(parts[p]) \in Nat
         /\ \A i \in 1..Len(parts[p]) : parts[p][i] \in AllParts
         /\ \A k \in Known(p) : /\ partIdHash[p][k] \in 1..Len(parts[p])
                                /\ parts[p][partIdHash[p][k]] = k
  <1>1. /\ parts[p] \in Seq(AllParts) /\ Known(p) = Range(parts[p])
        /\ partIdHash[p] \in [Range(parts[p]) -> 1..Len(parts[p])]
        /\ \A i \in 1..Len(parts[p]) : partIdHash[p][parts[p][i]] = i
    BY DEF TablesInv, Table, Known
  <1>2. DOMAIN parts[p] = 1..Len(parts[p]) /\ Len(parts[p]) \in Nat
    BY <1>1, LenProperties
  <1>3. \A i \in 1..Len(parts[p]) : parts[p][i] \in AllParts
    BY <1>1, ElementOfSeq
  <1>4. Known(p) = {parts[p][i] : i \in 1..Len(parts[p])}
    BY <1>1, <1>2 DEF Range
  <1> QED
    BY <1>1, <1>2, <1>3, <1>4

\* The size is read.
LEMMA ReadSizeTables ==
  ASSUME TablesInv, NEW p \in Procs, ReadSize(p)
  PROVE  TablesInv' /\ \A q \in Procs : Known(q)' = Known(q)
  <1>1. /\ UNCHANGED <<parts, partIdHash>>
        /\ sz' = [sz EXCEPT ![p] = Len(parts[p])]
    BY DEF ReadSize, tableVars
  <1>2. Len(parts[p]) \in Nat
    BY TableEntries
  <1>3. /\ sz' = [q \in Procs |-> sz'[q]]
        /\ \A q \in Procs : sz'[q] = IF q = p THEN Len(parts[p]) ELSE sz[q]
    BY <1>1 DEF TablesInv
  <1>4. \A q \in Procs : Table(q)'
    BY <1>1, <1>2, <1>3 DEF TablesInv, Table, Known
  <1> QED
    BY <1>1, <1>3, <1>4 DEF TablesInv, Known

\* An order names a part of the table.
LEMMA OwnOrder ==
  ASSUME NEW p \in Procs
  PROVE  /\ Len(Orders[p]) \in Nat /\ DOMAIN Orders[p] = 1..Len(Orders[p])
         /\ \A i \in 1..Len(Orders[p]) : /\ Orders[p][i].lPartkey \in AllParts
                                         /\ Orders[p][i].lQuantity \in Nat
  <1> DEFINE R == [lPartkey : AllParts, lQuantity : Nat]
  <1>1. Orders[p] \in Seq(R)
    BY OrdersAssumption
  <1>2. \A o \in R : o.lPartkey \in AllParts /\ o.lQuantity \in Nat
    OBVIOUS
  <1> HIDE DEF R
  <1>3. \A i \in 1..Len(Orders[p]) : Orders[p][i] \in R
    BY <1>1, ElementOfSeq
  <1> QED
    BY <1>1, <1>2, <1>3, LenProperties

\* The table is there when the orders are counted: looking up a part does not
\* make an entry.
LEMMA SolveOrderTables ==
  ASSUME Inv, NEW p \in Procs, SolveOrder(p)
  PROVE  /\ TablesInv' /\ \A q \in Procs : Known(q)' = Known(q)
         /\ Orders[p][step[p]].lPartkey \in Known(p)
  <1>1. TablesInv /\ ControlType
    BY DEF Inv, ControlInv
  <1>2. PICK o : o = Orders[p][step[p]]
    OBVIOUS
  <1>3. PICK k : k = o.lPartkey
    OBVIOUS
  <1>4. k \in AllParts
    BY <1>2, <1>3, OwnOrder DEF SolveOrder
  <1>5. k \in Known(p)
    BY <1>4, Complete DEF SolveOrder, InPhase
  <1>6. /\ UNCHANGED <<parts, sz>>
        /\ partIdHash' =
             [partIdHash EXCEPT ![p] = WithEntry(@, k, partIdHash[p][k])]
    BY <1>2, <1>3, <1>5 DEF SolveOrder, Known
  <1>7. partIdHash[p] = [j \in Known(p) |-> partIdHash[p][j]]
    BY <1>1 DEF TablesInv, Table, Known
  <1>8. WithEntry(partIdHash[p], k, partIdHash[p][k]) = partIdHash[p]
    BY <1>5, <1>7 DEF WithEntry, Known
  <1>9. partIdHash' = partIdHash
    BY <1>1, <1>6, <1>8 DEF TablesInv
  <1> QED
    BY <1>1, <1>2, <1>3, <1>5, <1>6, <1>9, TablesQuiet

\* A part the instance does not list is appended.
LEMMA InsertTables ==
  ASSUME TablesInv, NEW p \in Procs, NEW k \in AllParts, k \notin Known(p),
         Insert(p, k), UNCHANGED sz
  PROVE  /\ TablesInv'
         /\ Known(p)' = Known(p) \cup {k}
         /\ \A q \in Procs \ {p} : Known(q)' = Known(q)
         /\ \A q \in Procs : \A i \in 1..Len(parts[q]) :
              parts'[q][i] = parts[q][i]
  <1> DEFINE n == Len(parts[p])
  <1>1. /\ parts' = [parts EXCEPT ![p] = Append(@, k)]
        /\ partIdHash' = [partIdHash EXCEPT ![p] = WithEntry(@, k, n + 1)]
    BY DEF Insert
  <1>2. /\ parts'[p] = Append(parts[p], k)
        /\ partIdHash'[p] = WithEntry(partIdHash[p], k, n + 1)
        /\ \A q \in Procs \ {p} : /\ parts'[q] = parts[q]
                                  /\ partIdHash'[q] = partIdHash[q]
        /\ parts' = [q \in Procs |-> parts'[q]]
        /\ partIdHash' = [q \in Procs |-> partIdHash'[q]]
    BY <1>1 DEF TablesInv
  <1>3. /\ parts[p] \in Seq(AllParts) /\ IsInjective(parts[p])
        /\ partIdHash[p] \in [Range(parts[p]) -> 1..n]
        /\ \A i \in 1..n : partIdHash[p][parts[p][i]] = i
        /\ Range(Parts[p]) \subseteq Known(p) /\ sz[p] \in 0..n
        /\ Known(p) = Range(parts[p]) /\ n \in Nat
    BY TableEntries DEF TablesInv, Table
  <1>4. /\ parts'[p] \in Seq(AllParts) /\ Len(parts'[p]) = n + 1
        /\ \A i \in 1..n : parts'[p][i] = parts[p][i]
        /\ parts'[p][n + 1] = k
        /\ DOMAIN parts[p] = 1..n /\ DOMAIN parts'[p] = 1..(n + 1)
    BY <1>2, <1>3, AppendProperties, LenProperties
  <1>5. \A i \in 1..n : parts[p][i] \in Known(p)
    BY <1>3, <1>4 DEF Range
  <1> HIDE DEF n
  <1>6. IsInjective(parts'[p])
    <2> SUFFICES ASSUME NEW i \in 1..(n + 1), NEW j \in 1..(n + 1),
                        parts'[p][i] = parts'[p][j]
                 PROVE  i = j
      BY <1>4 DEF IsInjective
    <2>1. CASE i \in 1..n /\ j \in 1..n
      BY <1>3, <1>4, <2>1 DEF IsInjective
    <2>2. CASE i \in 1..n /\ j = n + 1
      BY <1>4, <1>5, <2>2
    <2>3. CASE i = n + 1 /\ j \in 1..n
      BY <1>4, <1>5, <2>3
    <2> QED
      BY <1>3, <2>1, <2>2, <2>3
  <1>7. Range(parts'[p]) = Range(parts[p]) \cup {k}
    <2>1. Range(parts'[p]) = {parts'[p][i] : i \in 1..(n + 1)}
      BY <1>4 DEF Range
    <2>2. Range(parts[p]) = {parts[p][i] : i \in 1..n}
      BY <1>4 DEF Range
    <2>3. 1..(n + 1) = (1..n) \cup {n + 1}
      BY <1>3
    <2> QED
      BY <1>4, <2>1, <2>2, <2>3
  <1>8. /\ DOMAIN partIdHash'[p] = Range(parts'[p])
        /\ \A j \in Range(parts[p]) : partIdHash'[p][j] = partIdHash[p][j]
        /\ partIdHash'[p][k] = n + 1
        /\ partIdHash'[p] = [j \in Range(parts'[p]) |-> partIdHash'[p][j]]
    BY <1>2, <1>3, <1>7 DEF WithEntry
  <1>9. partIdHash'[p] \in [Range(parts'[p]) -> 1..(n + 1)]
    <2>1. \A j \in Range(parts'[p]) : partIdHash'[p][j] \in 1..(n + 1)
      BY <1>3, <1>7, <1>8
    <2> QED
      BY <1>8, <2>1
  <1>10. \A i \in 1..(n + 1) : partIdHash'[p][parts'[p][i]] = i
    <2>1. ASSUME NEW i \in 1..n PROVE partIdHash'[p][parts'[p][i]] = i
      BY <1>3, <1>4, <1>5, <1>8
    <2>2. partIdHash'[p][parts'[p][n + 1]] = n + 1
      BY <1>4, <1>8
    <2>3. \A i \in 1..(n + 1) : i \in 1..n \/ i = n + 1
      BY <1>3
    <2> QED
      BY <2>1, <2>2, <2>3
  <1>11. Known(p)' = Known(p) \cup {k}
    BY <1>3, <1>7, <1>8 DEF Known
  <1>12. Table(p)'
    <2>1. Range(Parts[p]) \subseteq Known(p)'
      BY <1>3, <1>11
    <2>2. sz'[p] \in 0..(n + 1)
      BY <1>3
    <2> QED
      BY <1>4, <1>6, <1>9, <1>10, <2>1, <2>2 DEF Table
  <1>13. \A q \in Procs \ {p} : Table(q)' /\ Known(q)' = Known(q)
    BY <1>2 DEF TablesInv, Table, Known
  <1>14. \A q \in Procs : \A i \in 1..Len(parts[q]) : parts'[q][i] = parts[q][i]
    BY <1>2, <1>4 DEF n
  <1>15. sz' = [q \in Procs |-> sz'[q]]
    BY DEF TablesInv
  <1> QED
    BY <1>2, <1>11, <1>12, <1>13, <1>14, <1>15 DEF TablesInv

\* What a step does to the tables.
LEMMA NextTables ==
  ASSUME Inv, [Next]_vars
  PROVE  TablesInv' /\ \A q \in Procs : Known(q) \subseteq Known(q)'
  <1>1. TablesInv /\ Streams
    BY DEF Inv
  <1>2. CASE UNCHANGED vars
    BY <1>1, <1>2, TablesQuiet DEF vars, advancedVars, tableVars
  <1>3. ASSUME NEW p \in Procs, Calculate(p) \/ Synchronise(p) \/ Serve(p)
        PROVE  TablesInv' /\ \A q \in Procs : Known(q) \subseteq Known(q)'
    <2>1. CASE ReadSize(p)
      BY <1>1, <2>1, ReadSizeTables
    <2>2. CASE SolveOrder(p)
      BY <2>2, SolveOrderTables
    <2>3. CASE ReceivePart(p)
      <3>1. PICK k : k = Head(wire[p]).part
        OBVIOUS
      <3>2. CASE k \in Known(p)
        BY <1>1, <2>3, <3>1, <3>2, TablesQuiet
           DEF ReceivePart, Known, tableVars
      <3>3. CASE k \notin Known(p)
        <4>1. k \in AllParts
          <5>1. Sound(Head(wire[p])) /\ Head(wire[p]).head = "part"
            BY <1>1, <2>3, HeadSound DEF ReceivePart, Reads, Ring!Receives
          <5> QED
            BY <3>1, <5>1 DEF Sound, Message
        <4>2. Insert(p, k) /\ UNCHANGED sz
          BY <2>3, <3>1, <3>3 DEF ReceivePart, Known
        <4> QED
          BY <1>1, <3>3, <4>1, <4>2, InsertTables
      <3> QED
        BY <3>2, <3>3
    <2>4. \/ ReadSize(p) \/ SolveOrder(p) \/ ReceivePart(p)
          \/ UNCHANGED <<parts, partIdHash, sz>>
      BY <1>3 DEF Calculate, SendPart, SetPartCount, SendPartData,
                  CalculateUnderSale, Close, Synchronise, EnterBarrier,
                  LeaveBarrier, Serve, ReceiveFinish, ReceivePartData, Forward,
                  advancedVars, tableVars
    <2> QED
      BY <1>1, <2>1, <2>2, <2>3, <2>4, TablesQuiet
  <1> QED
    BY <1>2, <1>3 DEF Next

\* A count is added.
LEMMA MergedCounts ==
  ASSUME NEW sums, DOMAIN sums \subseteq Key,
         \A j \in DOMAIN sums : sums[j] \in Nat,
         NEW key \in Key, NEW count \in Nat
  PROVE  /\ DOMAIN Merged(sums, key, count) = DOMAIN sums \cup {key}
         /\ \A j \in DOMAIN Merged(sums, key, count) :
              Merged(sums, key, count)[j] \in Nat
  <1>1. count + (IF key \in DOMAIN sums THEN sums[key] ELSE 0) \in Nat
    OBVIOUS
  <1> QED
    BY <1>1 DEF Merged, WithEntry

\* The counts of an instance get another one.
LEMMA MergeStep ==
  ASSUME CountsInv, NEW p \in Procs, NEW key \in Key, NEW count \in Nat,
         saleCount' = [saleCount EXCEPT ![p] = Merged(@, key, count)],
         UNCHANGED <<sent, partCount, underSale>>
  PROVE  CountsInv'
  <1>1. /\ \A q \in Procs : saleCount'[q] =
             IF q = p THEN Merged(saleCount[p], key, count) ELSE saleCount[q]
        /\ saleCount' = [q \in Procs |-> saleCount'[q]]
    BY DEF CountsInv
  <1>2. /\ DOMAIN saleCount[p] \subseteq Key
        /\ \A j \in DOMAIN saleCount[p] : saleCount[p][j] \in Nat
        /\ sent[p] \subseteq DOMAIN saleCount[p]
    BY DEF CountsInv
  <1>3. /\ DOMAIN Merged(saleCount[p], key, count)
             = DOMAIN saleCount[p] \cup {key}
        /\ \A j \in DOMAIN Merged(saleCount[p], key, count) :
             Merged(saleCount[p], key, count)[j] \in Nat
    BY <1>2, MergedCounts
  <1>4. ASSUME NEW q \in Procs
        PROVE  /\ DOMAIN saleCount'[q] \subseteq Key
               /\ \A k \in DOMAIN saleCount'[q] : saleCount'[q][k] \in Nat
               /\ sent[q] \subseteq DOMAIN saleCount'[q]
    <2>1. CASE q = p
      BY <1>1, <1>2, <1>3, <2>1
    <2>2. CASE q # p
      BY <1>1, <2>2 DEF CountsInv
    <2> QED
      BY <2>1, <2>2
  <1> QED
    BY <1>1, <1>4 DEF CountsInv

\* What a step does to the counts.
LEMMA NextCounts ==
  ASSUME Inv, [Next]_vars
  PROVE  CountsInv'
  <1>1. TablesInv /\ CountsInv /\ Streams
    BY DEF Inv
  <1>2. CASE UNCHANGED <<countVars, answerVars>>
    BY <1>1, <1>2 DEF CountsInv, countVars, answerVars
  <1>3. ASSUME NEW p \in Procs, SetPartCount(p)
        PROVE  CountsInv'
    <2>1. Len(parts[p]) \in Nat
      BY <1>1, TableEntries
    <2> QED
      BY <1>1, <1>3, <2>1 DEF SetPartCount, CountsInv, countVars
  <1>4. ASSUME NEW p \in Procs, SolveOrder(p)
        PROVE  CountsInv'
    <2>1. PICK o : o = Orders[p][step[p]]
      OBVIOUS
    <2>3. o.lPartkey \in AllParts /\ o.lQuantity \in Nat
      BY <1>4, <2>1, OwnOrder DEF SolveOrder
    <2>4. o.lPartkey \in Known(p)
      BY <1>4, <2>1, SolveOrderTables
    <2>5. PICK key : key = <<parts[p][partIdHash[p][o.lPartkey]], o.lPartkey>>
      OBVIOUS
    <2>6. key \in Key
      BY <1>1, <2>3, <2>4, <2>5, TableEntries DEF Key
    <2>7. /\ saleCount' =
               [saleCount EXCEPT ![p] = Merged(@, key, o.lQuantity)]
          /\ UNCHANGED <<sent, partCount, underSale>>
      BY <1>4, <2>1, <2>4, <2>5 DEF SolveOrder, Known, answerVars
    <2> QED
      BY <1>1, <2>3, <2>6, <2>7, MergeStep
  <1>5. ASSUME NEW p \in Procs, SendPartData(p)
        PROVE  CountsInv'
    <2>1. PICK k \in DOMAIN saleCount[p] \ sent[p] :
            sent' = [sent EXCEPT ![p] = @ \cup {k}]
      BY <1>5 DEF SendPartData
    <2>2. UNCHANGED <<saleCount, partCount, underSale>>
      BY <1>5 DEF SendPartData, answerVars
    <2>3. /\ \A q \in Procs : sent'[q] \subseteq DOMAIN saleCount[q]
          /\ sent' = [q \in Procs |-> sent'[q]]
      BY <1>1, <2>1 DEF CountsInv
    <2> QED
      BY <1>1, <2>2, <2>3 DEF CountsInv
  <1>6. ASSUME NEW p \in Procs, CalculateUnderSale(p)
        PROVE  CountsInv'
    <2>1. PICK B : /\ B \subseteq DOMAIN saleCount[p]
                   /\ underSale' = [underSale EXCEPT ![p] = @ \cup
                        {[key |-> k, count |-> saleCount[p][k]] : k \in B}]
      <3> DEFINE sums == saleCount[p]
                 sales == MapThenSumSet(LAMBDA k : sums[k], DOMAIN sums)
                 C == {j \in DOMAIN sums :
                         SellsBadly(sums[j], sales, partCount[p])}
      <3>1. underSale' = [underSale EXCEPT ![p] = @ \cup
                           {[key |-> k, count |-> saleCount[p][k]] : k \in C}]
        BY <1>6 DEF CalculateUnderSale
      <3>2. C \subseteq DOMAIN saleCount[p]
        OBVIOUS
      <3> HIDE DEF C
      <3> QED
        BY <3>1, <3>2
    <2>2. {[key |-> k, count |-> saleCount[p][k]] : k \in B}
            \subseteq [key : Key, count : Nat]
      BY <1>1, <2>1 DEF CountsInv
    <2>3. underSale' \in [Procs -> SUBSET [key : Key, count : Nat]]
      BY <1>1, <2>1, <2>2 DEF CountsInv
    <2>4. UNCHANGED <<saleCount, sent, partCount>>
      BY <1>6 DEF CalculateUnderSale, countVars
    <2> QED
      BY <1>1, <2>3, <2>4 DEF CountsInv
  <1>7. ASSUME NEW p \in Procs, ReceivePartData(p)
        PROVE  CountsInv'
    <2>1. Sound(Head(wire[p])) /\ Head(wire[p]).head = "partData"
      BY <1>1, <1>7, HeadSound DEF ReceivePartData, Reads, Ring!Receives
    <2>2. Head(wire[p]).key \in Key /\ Head(wire[p]).count \in Nat
      BY <2>1 DEF Sound, Message
    <2> QED
      BY <1>1, <1>7, <2>2, MergeStep DEF ReceivePartData, answerVars
  <1>8. \/ UNCHANGED <<countVars, answerVars>>
        \/ \E p \in Procs : \/ SetPartCount(p) \/ SolveOrder(p)
                            \/ SendPartData(p) \/ CalculateUnderSale(p)
                            \/ ReceivePartData(p)
    BY DEF Next, Calculate, Synchronise, Serve, ReadSize, SendPart, Close,
           EnterBarrier, LeaveBarrier, ReceiveFinish, ReceivePart, Forward,
           vars, advancedVars
  <1> QED
    BY <1>2, <1>3, <1>4, <1>5, <1>6, <1>7, <1>8

-------------------------------------------------------------------------------
(***************************************************************************)
(* The steps and the streams.                                              *)
(***************************************************************************)

\* A token that carries the digit of an instance is of a barrier it has
\* reached: none can be behind what the instance sends in its phase.
LEMMA OwnClear ==
  ASSUME Inv, NEW p \in Procs, pc[p] = "run", finish_index[p] = 0,
         NEW s \in Procs, NEW i
  PROVE  Clear(wire, 0, p, s, i) /\ Passed(p, s)
  <1>1. 0 \notin is_finished[p]
    BY DEF Inv, ControlInv, FinishedIsPrefix, Ring!Inside
  <1>2. PICK S : wire \in [Procs -> Seq(S)] /\ \A m \in S : Sound(m)
    BY DEF Inv, Streams
  <1>3. ASSUME NEW r \in Procs, NEW j \in 1..Len(wire[r])
        PROVE  NotOvertaken(wire[r][j], 0, p, s, i, r, j)
    <2>1. Sound(wire[r][j])
      BY <1>2, ElementOfSeq
    <2>2. /\ wire[r][j].head = "finish" /\ wire[r][j].cnt[p] # 0
          => wire[r][j].idx \in is_finished[p]
      BY <2>1, TokenSound
    <2> QED
      BY <1>1, <2>2 DEF NotOvertaken, IsToken
  <1>4. Passed(p, s)
    BY <1>1 DEF Inv, ControlInv, AnnouncedByAll, Passed
  <1> QED
    BY <1>3, <1>4 DEF Clear

\* The main thread sends a message of its own.
LEMMA SendOwn ==
  ASSUME Inv, NEW p \in Procs, NEW e, Sound(e), e.head # "finish",
         e.head = "part" =>
           pc[p] = "run" /\ finish_index[p] = 0 /\ e.part \in Known(p),
         wire' = [wire EXCEPT ![Down(p)] = Append(@, e)],
         UNCHANGED <<mainVars, serverVars, partIdHash, handling>>
  PROVE  Streams' /\ PartsPlaced'
  <1>1. Streams /\ PartsPlaced
    BY DEF Inv
  <1>2. UNCHANGED <<is_finished, has_notify, notifying, partIdHash, handling>>
    BY DEF mainVars, serverVars
  <1>3. Sound(e)'
    BY <1>2, SoundGrows
  <1>4. Streams'
    BY <1>1, <1>2, <1>3, StreamsSend
  <1>5. PICK S : wire \in [Procs -> Seq(S)]
    BY <1>1 DEF Streams
  <1>6. Down(p) \in Procs /\ Down(p) # p
    BY RingArithmetic
  <1>7. PICK last : last = Len(wire[Down(p)]) + 1
    OBVIOUS
  <1>8. last \in Nat /\ last # 0
    BY <1>5, <1>6, <1>7, LenProperties
  <1>9. \A q, s, i : NotOvertaken(e, 0, q, s, i, Down(p), last)
    BY DEF NotOvertaken, IsToken
  <1>10. ASSUME e.head = "part"
         PROVE  \E q \in Procs : Placed(e, q, Down(p), last)'
    <2>1. Clear(wire, 0, p, Down(p), last) /\ Passed(p, Down(p))
      BY <1>6, <1>10, OwnClear
    <2>2. Clear([wire EXCEPT ![Down(p)] = Append(@, e)], 0, p, Down(p), last)
      BY <1>5, <1>6, <1>7, <1>8, <1>9, <2>1, ClearSend
    <2>3. Placed(e, p, Down(p), last)'
      BY <1>2, <1>8, <1>10, <2>1, <2>2 DEF Placed, Passed, Announced, Known
    <2> QED
      BY <2>3
  <1>11. /\ \A q \in Procs : Announced(q, 0)' => Announced(q, 0)
         /\ \A q \in Procs : Known(q) \subseteq Known(q)'
    BY <1>2 DEF Announced, Known
  <1>12. PartsPlaced'
    BY <1>1, <1>2, <1>6, <1>7, <1>9, <1>10, <1>11, PlacedSend
  <1> QED
    BY <1>4, <1>12

\* What the main thread calculates.
LEMMA CalculateStreams ==
  ASSUME Inv, NEW p \in Procs, Calculate(p),
         \A q \in Procs : Known(q) \subseteq Known(q)'
  PROVE  Streams' /\ PartsPlaced'
  <1>1. ControlType /\ ClosedLast /\ TablesInv /\ CountsInv /\ Streams
        /\ PartsPlaced
    BY DEF Inv, ControlInv
  <1>2. UNCHANGED <<mainVars, serverVars, handling>>
    BY DEF Calculate, ReadSize, SendPart, SetPartCount, SolveOrder,
           SendPartData, CalculateUnderSale, Close
  <1>3. CASE UNCHANGED wire
    <2>1. /\ \A q \in Procs : is_finished[q] \subseteq is_finished'[q]
          /\ \A q \in Procs : Announced(q, 0)' => Announced(q, 0)
      BY <1>2 DEF mainVars, serverVars, Announced
    <2>2. Streams'
      BY <1>1, <1>2, <1>3, <2>1, StreamsQuiet
    <2>3. PartsPlaced'
      BY <1>1, <1>2, <1>3, <2>1, PlacedQuiet
    <2> QED
      BY <2>2, <2>3
  <1>4. CASE SendPart(p)
    <2>1. /\ pc[p] = "run" /\ finish_index[p] = 0
          /\ step[p] \in 1..sz[p] /\ p \notin closed
          /\ UNCHANGED partIdHash
      BY <1>1, <1>4, NAssumption DEF SendPart, InPhase, ClosedLast, tableVars
    <2>2. PICK e : e = Part(parts[p][step[p]])
      OBVIOUS
    <2>3. step[p] \in 1..Len(parts[p])
      BY <1>1, <2>1, TableEntries DEF TablesInv, Table
    <2>4. parts[p][step[p]] \in AllParts /\ parts[p][step[p]] \in Known(p)
      <3>1. DOMAIN parts[p] = 1..Len(parts[p])
        BY <1>1, LenProperties DEF TablesInv, Table
      <3> QED
        BY <1>1, <2>3, <3>1, TableEntries DEF Range
    <2>5. e.head = "part" /\ e.part \in Known(p)
      BY <2>2, <2>4 DEF Part
    <2>6. Sound(e)
      BY <2>2, <2>4 DEF Sound, Message, Part, IsToken
    <2>7. wire' = [wire EXCEPT ![Down(p)] = Append(@, e)]
      BY <1>4, <2>1, <2>2 DEF SendPart, Send
    <2> QED
      BY <1>2, <2>1, <2>5, <2>6, <2>7, SendOwn
  <1>5. CASE SendPartData(p)
    <2>1. p \notin closed /\ UNCHANGED partIdHash
      <3>1. finish_index[p] \in 2..N
        BY <1>5 DEF SendPartData
      <3> QED
        BY <1>1, <1>5, <3>1, NAssumption DEF SendPartData, ClosedLast, tableVars
    <2>2. PICK k \in DOMAIN saleCount[p] \ sent[p] :
            Send(p, [head |-> "partData", key |-> k, count |-> saleCount[p][k]])
      BY <1>5 DEF SendPartData
    <2>3. PICK e :
            e = [head |-> "partData", key |-> k, count |-> saleCount[p][k]]
      OBVIOUS
    <2>4. k \in Key /\ saleCount[p][k] \in Nat
      BY <1>1, <2>2 DEF CountsInv
    <2>5. e.head = "partData"
      BY <2>3
    <2>6. Sound(e)
      BY <2>3, <2>4 DEF Sound, Message, IsToken
    <2>7. wire' = [wire EXCEPT ![Down(p)] = Append(@, e)]
      BY <2>1, <2>2, <2>3 DEF Send
    <2> QED
      BY <1>2, <2>1, <2>5, <2>6, <2>7, SendOwn
  <1>6. UNCHANGED wire \/ SendPart(p) \/ SendPartData(p)
    BY DEF Calculate, ReadSize, SetPartCount, SolveOrder, CalculateUnderSale,
           Close
  <1> QED
    BY <1>3, <1>4, <1>5, <1>6

\* doAsync.
LEMMA SynchroniseStreams ==
  ASSUME Inv, NEW p \in Procs, Synchronise(p)
  PROVE  Streams' /\ PartsPlaced'
  <1>1. ControlType /\ Streams /\ PartsPlaced /\ FinishedIsPrefix
    BY DEF Inv, ControlInv
  <1>2. \A q \in Procs : is_finished[q] \subseteq is_finished'[q]
    BY <1>1 DEF Synchronise, EnterBarrier, LeaveBarrier, Ring!EnterBarrier,
                Ring!LeaveBarrier, Ring!SendFinish, Ring!Wait, ControlType
  <1>3. UNCHANGED <<has_notify, notifying, handling, partIdHash>>
    BY DEF Synchronise, EnterBarrier, LeaveBarrier, Ring!EnterBarrier,
           Ring!LeaveBarrier, Ring!SendFinish, Ring!Wait, Ring!serverVars,
           advancedVars, tableVars
  <1>4. /\ \A q \in Procs : Announced(q, 0)' => Announced(q, 0)
        /\ \A q \in Procs : Known(q) \subseteq Known(q)'
    BY <1>3 DEF Announced, Known
  <1>5. CASE UNCHANGED wire
    <2>1. Streams'
      BY <1>1, <1>2, <1>3, <1>5, StreamsQuiet
    <2>2. PartsPlaced'
      BY <1>1, <1>3, <1>4, <1>5, PlacedQuiet
    <2> QED
      BY <2>1, <2>2
  <1>6. CASE Ring!SendFinish(p)
    <2>1. PICK e : e = Ring!Stamped(p, finish_index[p], Ring!NoDigits)
      OBVIOUS
    <2>2. finish_index[p] \in Nat /\ pc[p] = "entered"
      BY <1>1, <1>6 DEF ControlType, Ring!SendFinish
    <2>3. e \in Ring!Token
      BY <2>1, <2>2, StampedType, NoDigitsType
    <2>4. /\ e.head = "finish" /\ e.idx = finish_index[p]
          /\ \A q \in Procs : e.cnt[q] = IF q = p THEN 1 ELSE 0
      BY <2>1 DEF Ring!Stamped, Ring!NoDigits, Procs
    <2>5. finish_index[p] \in is_finished[p]
      BY <1>1, <2>2 DEF FinishedIsPrefix, Ring!Inside
    <2>6. Sound(e)'
      <3>1. Sound(e)
        BY <2>3, <2>4, <2>5, TokenIsMessage DEF Sound
      <3> QED
        BY <1>2, <3>1, SoundGrows
    <2>7. wire' = [wire EXCEPT ![Down(p)] = Append(@, e)]
      BY <1>6, <2>1 DEF Ring!SendFinish, Down
    <2>8. Streams'
      BY <1>1, <1>2, <1>3, <2>6, <2>7, StreamsSend
    <2>9. PICK last : last = Len(wire[Down(p)]) + 1
      OBVIOUS
    <2>10. last \in Nat /\ Down(p) \in Procs
      BY <1>1, <2>9, RingArithmetic, LenProperties DEF Streams
    <2>11. \A q, s \in Procs : \A i \in Nat : (s = Down(p) => i < last) =>
             NotOvertaken(e, 0, q, s, i, Down(p), last)
      BY <2>1, <2>2, <2>10, FreshBehind
    <2>12. e.head # "part"
      BY <2>4
    <2>13. PartsPlaced'
      BY <1>1, <1>3, <1>4, <2>7, <2>9, <2>10, <2>11, <2>12, PlacedSend
    <2> QED
      BY <2>8, <2>13
  <1>7. UNCHANGED wire \/ Ring!SendFinish(p)
    BY DEF Synchronise, EnterBarrier, LeaveBarrier, Ring!EnterBarrier,
           Ring!LeaveBarrier, Ring!Wait
  <1> QED
    BY <1>5, <1>6, <1>7

\* The finish case.
LEMMA ReceiveFinishStreams ==
  ASSUME Inv, NEW p \in Procs, ReceiveFinish(p)
  PROVE  Streams' /\ PartsPlaced'
  <1>1. ControlType /\ Streams /\ PartsPlaced
    BY DEF Inv, ControlInv
  <1>2. /\ handling[p] = None /\ wire[p] # << >> /\ notifying[p] = Ring!None
        /\ Head(wire[p]).head = "finish"
        /\ UNCHANGED <<partIdHash, handling>>
    BY DEF ReceiveFinish, Reads, Ring!Receives, advancedVars, tableVars
  <1>3. /\ UNCHANGED <<is_finished, has_notify>>
        /\ \A q \in Procs : is_finished[q] \subseteq is_finished'[q]
    BY DEF ReceiveFinish, Ring!HandleFinish, Ring!DropToken, Ring!PassToken,
           Ring!CompleteToken, Ring!mainVars, Ring!serverVars
  <1>4. CASE Ring!DropToken(p)
    <2>1. wire' = [wire EXCEPT ![p] = Tail(@)] /\ UNCHANGED notifying
      BY <1>4 DEF Ring!DropToken, Ring!serverVars
    <2>2. Streams'
      BY <1>1, <1>2, <1>3, <2>1, StreamsRead
    <2>3. /\ \A q \in Procs : Announced(q, 0)' => Announced(q, 0)
          /\ \A q \in Procs : Known(q) \subseteq Known(q)'
      BY <1>2, <1>3, <2>1 DEF Announced, Known
    <2>4. PartsPlaced'
      BY <1>1, <1>2, <2>1, <2>3, PlacedRead
    <2> QED
      BY <2>2, <2>4
  <1>5. CASE Ring!PassToken(p) \/ Ring!CompleteToken(p)
    <2>1. PICK t : t = Head(wire[p])
      OBVIOUS
    <2>2. Sound(t) /\ t.head = "finish"
      BY <1>1, <1>2, <2>1, HeadSound
    <2>3. /\ t \in Ring!Token /\ t.idx \in Nat /\ t.cnt \in [Procs -> Nat]
          /\ \A q \in Procs : t.cnt[q] # 0 => t.idx \in is_finished[q]
      BY <2>2, TokenSound
    <2>4. PICK u : u = Ring!Stamped(p, t.idx, t.cnt)
      OBVIOUS
    <2>5. wire' = [wire EXCEPT ![p] = Tail(@), ![Down(p)] = Append(@, u)]
      BY <1>5, <2>1, <2>4 DEF Ring!PassToken, Ring!CompleteToken, Ring!Forward,
                              Down
    <2>6. t.idx \in is_finished[p]
      BY <1>5, <2>1 DEF Ring!PassToken, Ring!CompleteToken, Ring!Current
    <2>7. Sound(u)'
      <3>1. u \in Ring!Token
        BY <2>3, <2>4, StampedType
      <3>2. /\ u.idx = t.idx
            /\ \A q \in Procs :
                 u.cnt[q] = IF q = p THEN t.cnt[p] + 1 ELSE t.cnt[q]
        BY <2>3, <2>4 DEF Ring!Stamped
      <3>3. \A q \in Procs : u.cnt[q] # 0 => u.idx \in is_finished[q]
        BY <2>3, <2>6, <3>2
      <3>4. Sound(u)
        BY <3>1, <3>3, TokenIsMessage DEF Sound
      <3> QED
        BY <1>3, <3>4, SoundGrows
    <2>8. Streams'
      BY <1>1, <1>2, <1>3, <2>5, <2>7, StreamsRelay
    <2>9. \A q \in Procs : Announced(q, 0)' =>
            Announced(q, 0) \/ (q = p /\ t.idx = 0 /\ Ring!CheckFinish(t))
      <3>1. CASE Ring!PassToken(p)
        BY <1>3, <3>1 DEF Ring!PassToken, Ring!serverVars, Announced
      <3>2. CASE Ring!CompleteToken(p)
        BY <1>1, <1>3, <2>1, <3>2
           DEF Ring!CompleteToken, Announced, ControlType
      <3> QED
        BY <1>5, <3>1, <3>2
    <2>10. PartsPlaced'
      BY <1>1, <1>2, <2>1, <2>3, <2>4, <2>5, <2>9, PlacedRelay
    <2> QED
      BY <2>8, <2>10
  <1> QED
    BY <1>4, <1>5 DEF ReceiveFinish, Ring!HandleFinish

\* A part or a count is read.
LEMMA ReceivePartStreams ==
  ASSUME Inv, NEW p \in Procs, ReceivePart(p) \/ ReceivePartData(p),
         \A q \in Procs : Known(q) \subseteq Known(q)'
  PROVE  Streams' /\ PartsPlaced'
  <1>1. Streams /\ PartsPlaced
    BY DEF Inv
  <1>2. /\ handling[p] = None /\ wire[p] # << >>
        /\ wire' = [wire EXCEPT ![p] = Tail(@)]
        /\ UNCHANGED <<is_finished, has_notify, notifying>>
    BY DEF ReceivePart, ReceivePartData, Reads, Consume, Ring!Receives,
           mainVars, serverVars
  <1>3. /\ \A q \in Procs : is_finished[q] \subseteq is_finished'[q]
        /\ \A q \in Procs : Announced(q, 0)' => Announced(q, 0)
    BY <1>2 DEF Announced
  <1>4. \/ handling' = handling
        \/ /\ GoOn(p)
           /\ Head(wire[p]).head = "part" /\ Head(wire[p]).part \notin Known(p)
    BY DEF ReceivePart, ReceivePartData, Reads, Known
  <1>5. Streams'
    BY <1>1, <1>2, <1>3, <1>4, StreamsRead
  <1>6. PartsPlaced'
    BY <1>1, <1>2, <1>3, <1>4, PlacedRead
  <1> QED
    BY <1>5, <1>6

\* A server that has a part in its hands has not closed its connection.
LEMMA ForwardSends ==
  ASSUME Inv, NEW p \in Procs, Forward(p)
  PROVE  /\ finish_index[p] = 0 /\ p \notin closed
         /\ wire' = [wire EXCEPT ![Down(p)] = Append(@, handling[p])]
  <1>1. finish_index[p] \in Nat /\ handling[p] # None
    BY DEF Inv, ControlInv, ControlType, Forward
  <1>2. finish_index[p] = 0
    BY <1>1, Complete
  <1>3. p \notin closed
    BY <1>2, NAssumption DEF Inv, ControlInv, ClosedLast
  <1> QED
    BY <1>2, <1>3 DEF Forward, Send

\* The rest of the handler.
LEMMA ForwardStreams ==
  ASSUME Inv, NEW p \in Procs, Forward(p)
  PROVE  Streams' /\ PartsPlaced'
  <1>1. Streams /\ PartsPlaced
    BY DEF Inv
  <1>2. UNCHANGED <<is_finished, has_notify, notifying, partIdHash>>
    BY DEF Forward, mainVars, serverVars, tableVars
  <1>3. PICK e : e = handling[p]
    OBVIOUS
  <1>4. /\ wire' = [wire EXCEPT ![Down(p)] = Append(@, e)]
        /\ handling' = [handling EXCEPT ![p] = None]
        /\ handling[p] # None
    BY <1>3, ForwardSends DEF Forward
  <1>5. e.head = "part" /\ Sound(e)
    BY <1>1, <1>3, <1>4, HandType
  <1>6. \A q \in Procs : is_finished[q] \subseteq is_finished'[q]
    BY <1>2
  <1>7. Sound(e)'
    BY <1>5, <1>6, SoundGrows
  <1>8. Streams'
    BY <1>1, <1>4, <1>6, <1>7, StreamsSend
  <1>9. PICK S : wire \in [Procs -> Seq(S)] /\ handling \in [Procs -> Held(S)]
    BY <1>1 DEF Streams
  <1>10. PICK last : last = Len(wire[Down(p)]) + 1
    OBVIOUS
  <1>11. last \in Nat /\ last # 0 /\ Down(p) \in Procs
    <2>1. Down(p) \in Procs
      BY RingArithmetic
    <2> QED
      BY <1>9, <1>10, <2>1, LenProperties
  <1>12. \A q, s, i : NotOvertaken(e, 0, q, s, i, Down(p), last)
    BY <1>5 DEF NotOvertaken, IsToken
  <1>13. /\ \A q \in Procs : Announced(q, 0)' => Announced(q, 0)
         /\ \A q \in Procs : Known(q) \subseteq Known(q)'
    BY <1>2 DEF Announced, Known
  <1>14. \E q \in Procs : Placed(e, q, Down(p), last)'
    <2>1. PICK q \in Procs : Placed(e, q, p, 0)
      BY <1>1, <1>3, <1>4 DEF PartsPlaced
    <2>2. /\ p # q /\ Clear(wire, 0, q, p, 0) /\ Passed(q, p)
          /\ e.part \in Known(q)
      BY <2>1 DEF Placed
    <2>3. Clear(wire, 0, q, Down(p), last)
      BY <1>11, <2>2, ClearAdvance
    <2>4. Clear([wire EXCEPT ![Down(p)] = Append(@, e)], 0, q, Down(p), last)
      BY <1>9, <1>10, <1>11, <1>12, <2>3, ClearSend
    <2>5. Passed(q, Down(p))
      <3>1. Hops(q, Down(p)) = Hops(q, p) + 1 /\ Hops(q, p) \in 1..N
        BY <2>2, RingArithmetic
      <3>2. \A r \in Procs : Hops(q, r) \in 1..N
        BY RingArithmetic
      <3> QED
        BY <2>2, <3>1, <3>2, NAssumption DEF Passed
    <2>6. Placed(e, q, Down(p), last)'
      BY <1>2, <1>4, <1>11, <2>2, <2>4, <2>5 DEF Placed, Passed, Announced, Known
    <2> QED
      BY <2>6
  <1>15. \A s \in Procs : handling'[s] # None => handling'[s] = handling[s]
    BY <1>4, <1>9
  <1>16. PartsPlaced'
    BY <1>1, <1>4, <1>10, <1>11, <1>12, <1>13, <1>14, <1>15, PlacedSend
  <1> QED
    BY <1>8, <1>16

\* What a step does to the streams.
LEMMA NextStreams ==
  ASSUME Inv, [Next]_vars
  PROVE  Streams' /\ PartsPlaced'
  <1>1. /\ Streams /\ PartsPlaced
        /\ \A q \in Procs : Known(q) \subseteq Known(q)'
    BY NextTables DEF Inv
  <1>2. CASE \/ UNCHANGED vars
             \/ \E p \in Procs : Ring!Notify(p) /\ UNCHANGED advancedVars
    <2>1. UNCHANGED <<is_finished, wire, handling>>
      BY <1>2 DEF vars, Ring!vars, advancedVars, Ring!Notify
    <2>2. \A q \in Procs : Announced(q, 0)' => Announced(q, 0)
      <3>1. CASE UNCHANGED vars
        BY <3>1 DEF vars, Ring!vars, Announced
      <3>2. ASSUME NEW p \in Procs, Ring!Notify(p)
            PROVE  \A q \in Procs : Announced(q, 0)' => Announced(q, 0)
        BY <3>2 DEF Inv, ControlInv, ControlType, Ring!Notify, Announced,
                    Ring!None
      <3> QED
        BY <1>2, <3>1, <3>2
    <2>3. \A q \in Procs : is_finished[q] \subseteq is_finished'[q]
      BY <2>1
    <2>4. Streams'
      BY <1>1, <2>1, <2>3, StreamsQuiet
    <2>5. PartsPlaced'
      BY <1>1, <2>1, <2>2, PlacedQuiet
    <2> QED
      BY <2>4, <2>5
  <1>3. ASSUME NEW p \in Procs, Calculate(p) \/ Synchronise(p)
        PROVE  Streams' /\ PartsPlaced'
    BY <1>1, <1>3, CalculateStreams, SynchroniseStreams
  <1>4. ASSUME NEW p \in Procs, ReceiveFinish(p)
        PROVE  Streams' /\ PartsPlaced'
    BY <1>4, ReceiveFinishStreams
  <1>5. ASSUME NEW p \in Procs, ReceivePart(p) \/ ReceivePartData(p)
        PROVE  Streams' /\ PartsPlaced'
    BY <1>1, <1>5, ReceivePartStreams
  <1>6. ASSUME NEW p \in Procs, Forward(p)
        PROVE  Streams' /\ PartsPlaced'
    BY <1>6, ForwardStreams
  <1> QED
    BY <1>2, <1>3, <1>4, <1>5, <1>6 DEF Next, Serve

-------------------------------------------------------------------------------
(***************************************************************************)
(* A part goes on.                                                         *)
(***************************************************************************)

\* What a step may do to a part that goes on.
LEMMA GoesOnIntro ==
  ASSUME PartsGoOn,
         \A q \in Procs : Known(q) \subseteq Known(q)',
         \A q \in Procs : \A k : k \in Known(q)' =>
           k \in Known(q) \/ IsPart(handling'[q], k),
         \A q \in Procs : \A k \in Known(q) : Pending(q, k) =>
           Pending(q, k)' \/ Comes(Down(q), k)',
         \A q \in Procs : \A k : IsPart(handling[q], k) =>
           IsPart(handling'[q], k) \/ Comes(Down(q), k)',
         \A q \in Procs : \A k : Comes(q, k) =>
           Comes(q, k)' \/ k \in Known(q)'
  PROVE  PartsGoOn'
  <1> SUFFICES ASSUME NEW p \in Procs, NEW k, k \in Known(p)'
               PROVE  GoesOn(p, k)'
    BY DEF PartsGoOn
  <1>1. Down(p) \in Procs
    BY RingArithmetic
  <1>2. /\ Comes(Down(p), k)' => GoesOn(p, k)'
        /\ k \in Known(Down(p))' => GoesOn(p, k)'
        /\ Pending(p, k)' => GoesOn(p, k)'
        /\ IsPart(handling'[p], k) => GoesOn(p, k)'
    BY DEF GoesOn, IsPart
  <1>3. CASE IsPart(handling'[p], k)
    BY <1>2, <1>3
  <1>4. CASE k \in Known(p)
    <2>1. GoesOn(p, k)
      BY <1>4 DEF PartsGoOn
    <2>2. Pending(p, k) => GoesOn(p, k)'
      BY <1>2, <1>4
    <2>3. IsPart(handling[p], k) => GoesOn(p, k)'
      BY <1>2
    <2>4. Comes(Down(p), k) => GoesOn(p, k)'
      BY <1>1, <1>2
    <2>5. k \in Known(Down(p)) => GoesOn(p, k)'
      BY <1>1, <1>2
    <2> QED
      BY <2>1, <2>2, <2>3, <2>4, <2>5 DEF GoesOn
  <1> QED
    BY <1>3, <1>4

\* A part that comes to an instance still does when something is sent.
LEMMA ComesSend ==
  ASSUME Streams, NEW d \in Procs, NEW e,
         wire' = [wire EXCEPT ![d] = Append(@, e)]
  PROVE  /\ \A q \in Procs : \A k : Comes(q, k) => Comes(q, k)'
         /\ \A k : IsPart(e, k) => Comes(d, k)'
  <1>1. PICK S : wire \in [Procs -> Seq(S)]
    BY DEF Streams
  <1>2. /\ Len(wire[d]) \in Nat /\ Len(wire'[d]) = Len(wire[d]) + 1
        /\ \A i \in 1..Len(wire[d]) : wire'[d][i] = wire[d][i]
        /\ wire'[d][Len(wire[d]) + 1] = e
        /\ \A q \in Procs \ {d} : wire'[q] = wire[q]
    BY <1>1, AppendElements
  <1>3. \A i \in 1..Len(wire[d]) : i \in 1..Len(wire'[d])
    BY <1>2
  <1>4. Len(wire[d]) + 1 \in 1..Len(wire'[d])
    BY <1>2
  <1>5. \A q \in Procs : \A k : Comes(q, k) => Comes(q, k)'
    BY <1>2, <1>3 DEF Comes
  <1>6. \A k : IsPart(e, k) => Comes(d, k)'
    BY <1>2, <1>4 DEF Comes
  <1> QED
    BY <1>5, <1>6

\* A part that comes to an instance is read or moves up.
LEMMA ComesRead ==
  ASSUME Streams, NEW p \in Procs, wire[p] # << >>,
         wire' = [wire EXCEPT ![p] = Tail(@)]
  PROVE  \A q \in Procs : \A k : Comes(q, k) =>
           Comes(q, k)' \/ (q = p /\ IsPart(Head(wire[p]), k))
  <1>1. PICK S : wire \in [Procs -> Seq(S)]
    BY DEF Streams
  <1>2. /\ Len(wire[p]) \in Nat \ {0} /\ Len(wire'[p]) = Len(wire[p]) - 1
        /\ \A i \in 1..Len(wire'[p]) : wire'[p][i] = wire[p][i + 1]
        /\ Head(wire[p]) = wire[p][1]
        /\ \A q \in Procs \ {p} : wire'[q] = wire[q]
    BY <1>1, TailElements
  <1>3. ASSUME NEW k, NEW i \in 1..Len(wire[p]), IsPart(wire[p][i], k)
        PROVE  Comes(p, k)' \/ IsPart(Head(wire[p]), k)
    <2>1. CASE i = 1
      BY <1>2, <1>3, <2>1
    <2>2. CASE i # 1
      <3>1. i - 1 \in 1..Len(wire'[p]) /\ i - 1 + 1 = i
        BY <1>2, <2>2
      <3>2. wire'[p][i - 1] = wire[p][i]
        BY <1>2, <3>1
      <3> QED
        BY <1>3, <3>1, <3>2 DEF Comes
    <2> QED
      BY <2>1, <2>2
  <1> QED
    BY <1>2, <1>3 DEF Comes

\* A token is passed on: every part moves up.
LEMMA ComesRelay ==
  ASSUME Streams, NEW p \in Procs, wire[p] # << >>,
         Head(wire[p]).head = "finish", NEW e,
         wire' = [wire EXCEPT ![p] = Tail(@), ![Down(p)] = Append(@, e)]
  PROVE  \A q \in Procs : \A k : Comes(q, k) => Comes(q, k)'
  <1>1. PICK S : wire \in [Procs -> Seq(S)]
    BY DEF Streams
  <1>2. /\ Len(wire[p]) \in Nat \ {0} /\ Len(Tail(wire[p])) = Len(wire[p]) - 1
        /\ \A i \in 1..Len(Tail(wire[p])) : Tail(wire[p])[i] = wire[p][i + 1]
        /\ Head(wire[p]) = wire[p][1]
    BY <1>1, TailElements
  <1>3. Down(p) \in Procs /\ Down(p) # p
    BY RingArithmetic
  <1>4. /\ Len(wire[Down(p)]) \in Nat
        /\ Len(wire'[Down(p)]) = Len(wire[Down(p)]) + 1
        /\ \A i \in 1..Len(wire[Down(p)]) :
             wire'[Down(p)][i] = wire[Down(p)][i]
    BY <1>1, <1>3, AppendElements
  <1>5. /\ wire'[p] = Tail(wire[p])
        /\ \A q \in Procs : q # p /\ q # Down(p) => wire'[q] = wire[q]
    BY <1>1, <1>3
  <1>6. ASSUME NEW k, NEW i \in 1..Len(wire[p]), IsPart(wire[p][i], k)
        PROVE  Comes(p, k)'
    <2>1. i # 1
      BY <1>2, <1>6 DEF IsPart
    <2>2. Len(wire'[p]) = Len(wire[p]) - 1
      BY <1>2, <1>5
    <2>3. i - 1 \in 1..Len(wire'[p]) /\ i - 1 + 1 = i
      BY <1>2, <2>1, <2>2
    <2>4. wire'[p][i - 1] = wire[p][i]
      BY <1>2, <1>5, <2>3
    <2> QED
      BY <1>6, <2>3, <2>4 DEF Comes
  <1>7. ASSUME NEW k, NEW i \in 1..Len(wire[Down(p)]),
               IsPart(wire[Down(p)][i], k)
        PROVE  Comes(Down(p), k)'
    <2>1. i \in 1..Len(wire'[Down(p)])
      BY <1>4
    <2> QED
      BY <1>4, <1>7, <2>1 DEF Comes
  <1> QED
    BY <1>5, <1>6, <1>7 DEF Comes

\* What others have to send is not disturbed, nor by appending to a table.
LEMMA PendingStays ==
  ASSUME Inv, NEW q \in Procs,
         pc'[q] = pc[q], finish_index'[q] = finish_index[q],
         step'[q] = step[q], sz'[q] = sz[q],
         \A i \in 1..Len(parts[q]) : parts'[q][i] = parts[q][i]
  PROVE  \A k : Pending(q, k) => Pending(q, k)'
  <1>1. step[q] \in Nat /\ sz[q] \in 0..Len(parts[q]) /\ Len(parts[q]) \in Nat
    BY TableEntries DEF Inv, ControlInv, ControlType, TablesInv, Table
  <1>2. ASSUME NEW k, Pending(q, k), step[q] # 0
        PROVE  Pending(q, k)'
    <2>1. PICK i \in step[q]..sz[q] : parts[q][i] = k
      BY <1>2 DEF Pending
    <2>2. i \in 1..Len(parts[q])
      BY <1>1, <1>2
    <2>3. i \in step'[q]..sz'[q] /\ parts'[q][i] = k
      BY <2>1, <2>2
    <2> QED
      BY <1>2, <2>3 DEF Pending
  <1>3. ASSUME NEW k, Pending(q, k), step[q] = 0
        PROVE  Pending(q, k)'
    BY <1>3 DEF Pending
  <1> QED
    BY <1>2, <1>3

\* The main thread: the size is read, and the parts sent one by one.
LEMMA CalculateGoesOn ==
  ASSUME Inv, NEW p \in Procs, Calculate(p), TablesInv',
         \A q \in Procs : Known(q)' = Known(q)
  PROVE  PartsGoOn'
  <1>1. ControlType /\ TablesInv /\ Streams /\ PartsGoOn
    BY DEF Inv, ControlInv
  <1>2. /\ UNCHANGED <<pc, finish_index, handling, parts>>
        /\ UNCHANGED step \/ Advance(p)
        /\ UNCHANGED sz \/ ReadSize(p)
        /\ pc[p] = "run"
    BY DEF Calculate, ReadSize, SendPart, SetPartCount, SolveOrder,
           SendPartData, CalculateUnderSale, Close, mainVars, tableVars,
           InPhase
  <1>3. \A q \in Procs \ {p} : step'[q] = step[q] /\ sz'[q] = sz[q]
    BY <1>1, <1>2 DEF ControlType, TablesInv, Advance, ReadSize
  <1>4. \A q \in Procs \ {p} : \A k : Pending(q, k) => Pending(q, k)'
    BY <1>2, <1>3, PendingStays
  <1>5. \A q \in Procs : \A k : IsPart(handling[q], k) => IsPart(handling'[q], k)
    BY <1>2
  <1>6. \/ UNCHANGED wire
        \/ \E e : wire' = [wire EXCEPT ![Down(p)] = Append(@, e)]
    BY DEF Calculate, ReadSize, SendPart, SetPartCount, SolveOrder,
           SendPartData, CalculateUnderSale, Close, Send
  <1>7. \A q \in Procs : \A k : Comes(q, k) => Comes(q, k)'
    <2>1. CASE UNCHANGED wire
      BY <2>1 DEF Comes
    <2>2. ASSUME NEW e, wire' = [wire EXCEPT ![Down(p)] = Append(@, e)]
          PROVE  \A q \in Procs : \A k : Comes(q, k) => Comes(q, k)'
      BY <1>1, <2>2, RingArithmetic, ComesSend
    <2> QED
      BY <1>6, <2>1, <2>2
  <1>8. \A k \in Known(p) : Pending(p, k) => Pending(p, k)' \/ Comes(Down(p), k)'
    <2>1. CASE ReadSize(p)
      <3>1. /\ finish_index[p] = 0 /\ step'[p] = 1 /\ sz'[p] = Len(parts[p])
        BY <1>1, <2>1 DEF ReadSize, InPhase, Advance, ControlType, TablesInv
      <3>2. ASSUME NEW k \in Known(p)
            PROVE  \E i \in step'[p]..sz'[p] : parts'[p][i] = k
        BY <1>1, <1>2, <3>1, TableEntries
      <3> QED
        BY <1>2, <3>1, <3>2 DEF Pending
    <2>2. CASE SendPart(p)
      <3>1. PICK e, here : here = parts[p][step[p]] /\ e = Part(here)
        OBVIOUS
      <3>2. /\ finish_index[p] = 0 /\ step[p] \in 1..sz[p] /\ UNCHANGED sz
            /\ p \notin closed /\ step'[p] = step[p] + 1
        BY <1>1, <2>2, NAssumption
           DEF SendPart, InPhase, Advance, ControlType, Inv, ControlInv,
               ClosedLast
      <3>3. wire' = [wire EXCEPT ![Down(p)] = Append(@, e)]
        BY <2>2, <3>1, <3>2 DEF SendPart, Send
      <3>4. IsPart(e, here)
        BY <3>1 DEF IsPart, Part
      <3>5. Comes(Down(p), here)'
        BY <1>1, <3>3, <3>4, RingArithmetic, ComesSend
      <3>6. ASSUME NEW k, Pending(p, k)
            PROVE  Pending(p, k)' \/ Comes(Down(p), k)'
        <4>1. sz[p] \in Nat
          BY <1>1, TableEntries DEF TablesInv, Table
        <4>2. PICK i \in step[p]..sz[p] : parts[p][i] = k
          BY <3>2, <3>6, <4>1 DEF Pending
        <4>3. CASE i = step[p]
          BY <3>1, <3>5, <4>2, <4>3
        <4>4. CASE i # step[p]
          <5>1. i \in step'[p]..sz'[p] /\ parts'[p][i] = k
            BY <1>2, <3>2, <4>1, <4>2, <4>4
          <5> QED
            BY <1>2, <3>2, <5>1 DEF Pending
        <4> QED
          BY <4>3, <4>4
      <3> QED
        BY <3>6
    <2>3. CASE ~ ReadSize(p) /\ ~ SendPart(p)
      <3>1. finish_index[p] \in {1, N + 2} \cup 2..N
        BY <2>3 DEF Calculate, SetPartCount, SolveOrder, SendPartData,
                    CalculateUnderSale, Close, InPhase
      <3>2. finish_index[p] # 0
        BY <3>1, NAssumption
      <3> QED
        BY <3>2 DEF Pending
    <2> QED
      BY <2>1, <2>2, <2>3
  <1> QED
    BY <1>1, <1>4, <1>5, <1>7, <1>8, GoesOnIntro

\* doAsync: no instance gets there with a part to send, and tokens do not
\* disturb the parts.
LEMMA SynchroniseGoesOn ==
  ASSUME Inv, NEW p \in Procs, Synchronise(p)
  PROVE  PartsGoOn'
  <1>1. ControlType /\ TablesInv /\ Streams /\ PartsGoOn
    BY DEF Inv, ControlInv
  <1>2. UNCHANGED <<parts, partIdHash, sz, handling>>
    BY DEF Synchronise, EnterBarrier, LeaveBarrier, advancedVars, tableVars
  <1>3. \A q \in Procs : Known(q)' = Known(q)
    BY <1>2 DEF Known
  <1>4. \A q \in Procs \ {p} : /\ pc'[q] = pc[q] /\ step'[q] = step[q]
                               /\ finish_index'[q] = finish_index[q]
    BY <1>1 DEF Synchronise, EnterBarrier, LeaveBarrier, Ring!EnterBarrier,
                Ring!LeaveBarrier, Ring!SendFinish, Ring!Wait, ControlType,
                advancedVars
  <1>5. \A q \in Procs \ {p} : \A k : Pending(q, k) => Pending(q, k)'
    BY <1>2, <1>4, PendingStays
  <1>6. \A k : ~ Pending(p, k)
    <2>1. \/ pc[p] # "run"
          \/ finish_index[p] = 0 => step[p] = sz[p] + 1
      BY DEF Synchronise, EnterBarrier, PhaseDone, LeaveBarrier,
             Ring!LeaveBarrier, Ring!SendFinish, Ring!Wait
    <2>2. sz[p] \in Nat
      BY <1>1, TableEntries DEF TablesInv, Table
    <2> QED
      BY <2>1, <2>2 DEF Pending
  <1>7. \/ UNCHANGED wire
        \/ \E e : wire' = [wire EXCEPT ![Down(p)] = Append(@, e)]
    BY DEF Synchronise, EnterBarrier, LeaveBarrier, Ring!EnterBarrier,
           Ring!LeaveBarrier, Ring!Wait, Ring!SendFinish, Down
  <1>8. \A q \in Procs : \A k : Comes(q, k) => Comes(q, k)'
    <2>1. CASE UNCHANGED wire
      BY <2>1 DEF Comes
    <2>2. ASSUME NEW e, wire' = [wire EXCEPT ![Down(p)] = Append(@, e)]
          PROVE  \A q \in Procs : \A k : Comes(q, k) => Comes(q, k)'
      BY <1>1, <2>2, RingArithmetic, ComesSend
    <2> QED
      BY <1>7, <2>1, <2>2
  <1> QED
    BY <1>1, <1>2, <1>3, <1>5, <1>6, <1>8, GoesOnIntro

\* The server thread: a part it does not list is kept for the next instance.
LEMMA ServeGoesOn ==
  ASSUME Inv, NEW p \in Procs, Serve(p)
  PROVE  PartsGoOn'
  <1>1. ControlType /\ TablesInv /\ Streams /\ PartsGoOn
    BY DEF Inv, ControlInv
  <1>2. ASSUME \A q \in Procs : \A i \in 1..Len(parts[q]) :
                 parts'[q][i] = parts[q][i]
        PROVE  \A q \in Procs : \A k : Pending(q, k) => Pending(q, k)'
    <2>1. UNCHANGED <<finish_index, step, sz>>
      BY DEF Serve, ReceiveFinish, Ring!HandleFinish, Ring!DropToken,
             Ring!PassToken, Ring!CompleteToken, Ring!Notify, ReceivePart,
             ReceivePartData, Forward, Ring!mainVars, mainVars, advancedVars
    <2>2. \A q \in Procs : pc'[q] = pc[q] \/ (pc[q] = "wait" /\ q = p)
      BY <1>1 DEF Serve, ReceiveFinish, Ring!HandleFinish, Ring!DropToken,
             Ring!PassToken, Ring!CompleteToken, Ring!Notify, ReceivePart,
             ReceivePartData, Forward, Ring!mainVars, mainVars, ControlType
    <2>3. ASSUME NEW q \in Procs, pc'[q] = pc[q]
          PROVE  \A k : Pending(q, k) => Pending(q, k)'
      BY <1>2, <2>1, <2>3, PendingStays
    <2>4. \A q \in Procs : \A k : pc[q] = "wait" => ~ Pending(q, k)
      BY DEF Pending
    <2> QED
      BY <2>2, <2>3, <2>4
  <1>3. CASE ReceiveFinish(p)
    <2>1. /\ wire[p] # << >> /\ Head(wire[p]).head = "finish"
          /\ UNCHANGED <<parts, partIdHash, handling>>
      BY <1>3 DEF ReceiveFinish, Reads, Ring!Receives, advancedVars, tableVars
    <2>2. \/ wire' = [wire EXCEPT ![p] = Tail(@)]
          \/ \E e : wire' = [wire EXCEPT ![p] = Tail(@),
                                         ![Down(p)] = Append(@, e)]
      BY <1>3 DEF ReceiveFinish, Ring!HandleFinish, Ring!DropToken,
                  Ring!PassToken, Ring!CompleteToken, Ring!Forward, Down
    <2>3. \A q \in Procs : \A k : Comes(q, k) => Comes(q, k)'
      <3>1. CASE wire' = [wire EXCEPT ![p] = Tail(@)]
        BY <1>1, <2>1, <3>1, ComesRead DEF IsPart
      <3>2. ASSUME NEW e, wire' = [wire EXCEPT ![p] = Tail(@),
                                               ![Down(p)] = Append(@, e)]
            PROVE  \A q \in Procs : \A k : Comes(q, k) => Comes(q, k)'
        BY <1>1, <2>1, <3>2, ComesRelay
      <3> QED
        BY <2>2, <3>1, <3>2
    <2>4. \A q \in Procs : Known(q)' = Known(q)
      BY <2>1 DEF Known
    <2> QED
      BY <1>1, <1>2, <2>1, <2>3, <2>4, GoesOnIntro
  <1>4. CASE ReceivePart(p)
    <2>1. PICK m : m = Head(wire[p])
      OBVIOUS
    <2>2. /\ handling[p] = None /\ wire[p] # << >> /\ m.head = "part"
          /\ wire' = [wire EXCEPT ![p] = Tail(@)] /\ UNCHANGED sz
      BY <1>4, <2>1 DEF ReceivePart, Reads, Consume, Ring!Receives
    <2>3. \A q \in Procs : \A k : Comes(q, k) =>
            Comes(q, k)' \/ (q = p /\ k = m.part)
      BY <1>1, <2>1, <2>2, ComesRead DEF IsPart
    <2>4. CASE m.part \in Known(p)
      <3>1. UNCHANGED <<parts, partIdHash, handling>>
        BY <1>4, <2>1, <2>4 DEF ReceivePart, Known, tableVars
      <3>2. \A q \in Procs : Known(q)' = Known(q)
        BY <3>1 DEF Known
      <3> QED
        BY <1>1, <1>2, <2>3, <2>4, <3>1, <3>2, GoesOnIntro
    <2>5. CASE m.part \notin Known(p)
      <3>1. Insert(p, m.part) /\ GoOn(p)
        BY <1>4, <2>1, <2>5 DEF ReceivePart, Known
      <3>2. m.part \in AllParts
        <4>1. Sound(m)
          BY <1>1, <2>1, <2>2, HeadSound
        <4> QED
          BY <2>2, <4>1 DEF Sound, Message
      <3>3. /\ Known(p)' = Known(p) \cup {m.part}
            /\ \A q \in Procs \ {p} : Known(q)' = Known(q)
            /\ \A q \in Procs : \A i \in 1..Len(parts[q]) :
                 parts'[q][i] = parts[q][i]
        BY <1>1, <2>2, <2>5, <3>1, <3>2, InsertTables
      <3>4. handling'[p] = m /\ \A q \in Procs \ {p} : handling'[q] = handling[q]
        BY <1>1, <2>1, <3>1 DEF GoOn, Streams
      <3>5. IsPart(handling'[p], m.part)
        BY <2>2, <3>4 DEF IsPart
      <3>6. \A k : ~ IsPart(handling[p], k)
        BY <2>2 DEF IsPart, None
      <3>7. \A q \in Procs : Known(q) \subseteq Known(q)'
        BY <3>3
      <3>8. \A q \in Procs : \A k : k \in Known(q)' =>
              k \in Known(q) \/ IsPart(handling'[q], k)
        BY <3>3, <3>5
      <3>9. \A q \in Procs : \A k : IsPart(handling[q], k) =>
              IsPart(handling'[q], k)
        BY <3>4, <3>6
      <3>10. \A q \in Procs : \A k : Comes(q, k) => Comes(q, k)' \/ k \in Known(q)'
        BY <2>3, <3>3
      <3> QED
        BY <1>1, <1>2, <3>3, <3>7, <3>8, <3>9, <3>10, GoesOnIntro
    <2> QED
      BY <2>4, <2>5
  <1>5. CASE ReceivePartData(p)
    <2>1. /\ UNCHANGED <<parts, partIdHash, handling>> /\ wire[p] # << >>
          /\ Head(wire[p]).head = "partData"
          /\ wire' = [wire EXCEPT ![p] = Tail(@)]
      BY <1>5 DEF ReceivePartData, tableVars, Reads, Ring!Receives, Consume
    <2>2. \A q \in Procs : \A k : Comes(q, k) => Comes(q, k)'
      BY <1>1, <2>1, ComesRead DEF IsPart
    <2>3. \A q \in Procs : Known(q)' = Known(q)
      BY <2>1 DEF Known
    <2> QED
      BY <1>1, <1>2, <2>1, <2>2, <2>3, GoesOnIntro
  <1>6. CASE Forward(p)
    <2>1. PICK e : e = handling[p]
      OBVIOUS
    <2>2. /\ UNCHANGED <<parts, partIdHash>>
          /\ wire' = [wire EXCEPT ![Down(p)] = Append(@, e)]
      BY <1>6, <2>1, ForwardSends DEF Forward, tableVars
    <2>3. \A q \in Procs \ {p} : handling'[q] = handling[q]
      BY <1>1, <1>6 DEF Forward, Streams
    <2>4. /\ \A q \in Procs : \A k : Comes(q, k) => Comes(q, k)'
          /\ \A k : IsPart(e, k) => Comes(Down(p), k)'
      BY <1>1, <2>2, RingArithmetic, ComesSend
    <2>5. \A q \in Procs : \A k : IsPart(handling[q], k) =>
            IsPart(handling'[q], k) \/ Comes(Down(q), k)'
      BY <2>1, <2>3, <2>4
    <2>6. \A q \in Procs : Known(q)' = Known(q)
      BY <2>2 DEF Known
    <2> QED
      BY <1>1, <1>2, <2>2, <2>4, <2>5, <2>6, GoesOnIntro
  <1>7. CASE Ring!Notify(p) /\ UNCHANGED advancedVars
    <2>1. UNCHANGED <<parts, partIdHash, handling, wire>>
      BY <1>7 DEF Ring!Notify, advancedVars, tableVars
    <2>2. /\ \A q \in Procs : \A k : Comes(q, k) => Comes(q, k)'
          /\ \A q \in Procs : Known(q)' = Known(q)
      BY <2>1 DEF Comes, Known
    <2> QED
      BY <1>1, <1>2, <2>1, <2>2, GoesOnIntro
  <1> QED
    BY <1>3, <1>4, <1>5, <1>6, <1>7 DEF Serve

-------------------------------------------------------------------------------
(***************************************************************************)
(* The invariant, and the theorems.                                        *)
(***************************************************************************)

\* The table an instance has loaded.
LEMMA OwnTable ==
  ASSUME NEW p \in Procs
  PROVE  /\ Parts[p] \in Seq(AllParts) /\ IsInjective(Parts[p])
         /\ Range(Parts[p]) \subseteq AllParts
         /\ DOMAIN Parts[p] = 1..Len(Parts[p]) /\ Len(Parts[p]) \in Nat
  <1>1. Parts[p] \in Seq(Nat) /\ IsInjective(Parts[p])
    BY PartsAssumption
  <1>2. DOMAIN Parts[p] = 1..Len(Parts[p]) /\ Len(Parts[p]) \in Nat
    BY <1>1, LenProperties
  <1>3. Range(Parts[p]) \subseteq AllParts
    BY DEF AllParts
  <1>4. \A i \in 1..Len(Parts[p]) : Parts[p][i] \in AllParts
    BY <1>2, <1>3 DEF Range
  <1>5. Parts[p] = [i \in 1..Len(Parts[p]) |-> Parts[p][i]]
    BY <1>1, <1>2
  <1>6. Parts[p] \in Seq(AllParts)
    BY <1>2, <1>4, <1>5
  <1> QED
    BY <1>1, <1>2, <1>3, <1>6

\* The table as a whole is finite, and a vector as long as the table it lists.
LEMMA AllPartsFinite == IsFiniteSet(AllParts)
  <1> DEFINE T == {Range(Parts[p]) : p \in Procs}
  <1>1. IsFiniteSet(Procs)
    BY FS_Interval, NAssumption DEF Procs, Ring!Procs
  <1>2. PICK f : f \in Surjection(Procs, T)
    <2>1. [p \in Procs |-> Range(Parts[p])] \in Surjection(Procs, T)
      BY DEF Surjection
    <2> QED
      BY <2>1
  <1>3. IsFiniteSet(T)
    <2> HIDE DEF T
    <2> QED
      BY <1>1, <1>2, FS_Surjection
  <1>4. ASSUME NEW p \in Procs PROVE IsFiniteSet(Range(Parts[p]))
    <2>1. Parts[p] \in Surjection(1..Len(Parts[p]), Range(Parts[p]))
      BY OwnTable DEF Surjection, Range
    <2>2. IsFiniteSet(1..Len(Parts[p]))
      BY OwnTable, FS_Interval
    <2> QED
      BY <2>1, <2>2, FS_Surjection DEF ExistsSurjection
  <1>5. IsFiniteSet(UNION T)
    <2>1. \A U \in T : IsFiniteSet(U)
      BY <1>4
    <2> HIDE DEF T
    <2> QED
      BY <1>3, <2>1, FS_UNION
  <1> QED
    BY <1>5 DEF AllParts

LEMMA TableLength ==
  ASSUME TablesInv, NEW p \in Procs
  PROVE  Len(parts[p]) = Cardinality(Range(parts[p]))
  <1> DEFINE n == Len(parts[p])
  <1>1. parts[p] \in Seq(AllParts) /\ IsInjective(parts[p])
    BY DEF TablesInv, Table
  <1>2. DOMAIN parts[p] = 1..n /\ n \in Nat
    BY <1>1, LenProperties
  <1>3. parts[p] \in [1..n -> Range(parts[p])]
    BY <1>1, <1>2 DEF Range
  <1>4. parts[p] \in Bijection(1..n, Range(parts[p]))
    BY <1>1, <1>2, <1>3 DEF Bijection, Injection, Surjection, Range
  <1> HIDE DEF n
  <1>5. Cardinality(Range(parts[p])) = n
    BY <1>2, <1>4, FS_CountingElements DEF ExistsBijection
  <1> QED
    BY <1>5 DEF n

LEMMA InitInv == Init => Inv
  <1> SUFFICES ASSUME Init PROVE Inv
    OBVIOUS
  <1> USE DEF Init, Ring!Init, Procs
  <1>1. ControlInv
    <2>1. ControlType
      BY DEF ControlType
    <2>2. FinishedIsPrefix /\ LeftAnnounced /\ ClosedLast
      BY DEF FinishedIsPrefix, Ring!Inside, LeftAnnounced, ClosedLast
    <2>3. AnnouncedByAll /\ WakeIsCurrent
      BY DEF AnnouncedByAll, Announced, WakeIsCurrent, Ring!None
    <2> QED
      BY <2>1, <2>2, <2>3 DEF ControlInv
  <1>2. Streams
    <2>1. << >> \in Seq({})
      BY EmptySeq
    <2>2. wire \in [Procs -> Seq({})] /\ handling \in [Procs -> Held({})]
      BY <2>1 DEF Held
    <2> QED
      BY <2>2 DEF Streams
  <1>3. PartsPlaced
    <2>1. \A p \in Procs : Len(wire[p]) = 0 /\ handling[p] = None
      BY EmptySeq
    <2> QED
      BY <2>1 DEF PartsPlaced
  <1>4. PartsGoOn
    BY DEF PartsGoOn, GoesOn, Pending
  <1>5. CountsInv
    BY DEF CountsInv
  <1>6. parts = [p \in Procs |-> parts[p]]
    <2>1. parts = Parts
      OBVIOUS
    <2> QED
      BY <2>1, PartsAssumption
  <1>7. TablesInv
    <2>1. \A p \in Procs : Table(p)
      <3> SUFFICES ASSUME NEW p \in Procs PROVE Table(p)
        OBVIOUS
      <3>1. /\ parts[p] = Parts[p] /\ sz[p] = 0
            /\ partIdHash[p] = [k \in Range(Parts[p]) |->
                 CHOOSE i \in DOMAIN Parts[p] : Parts[p][i] = k]
        OBVIOUS
      <3>2. ASSUME NEW k \in Range(Parts[p])
            PROVE  /\ partIdHash[p][k] \in DOMAIN Parts[p]
                   /\ Parts[p][partIdHash[p][k]] = k
        <4>1. \E i \in DOMAIN Parts[p] : Parts[p][i] = k
          BY DEF Range
        <4> QED
          BY <3>1, <4>1
      <3>3. \A i \in DOMAIN Parts[p] : partIdHash[p][Parts[p][i]] = i
        BY <3>2, OwnTable DEF IsInjective, Range
      <3>4. partIdHash[p] \in [Range(Parts[p]) -> 1..Len(Parts[p])]
        BY <3>1, <3>2, OwnTable
      <3>5. Range(Parts[p]) \subseteq Known(p)
        BY <3>1 DEF Known
      <3>6. sz[p] \in 0..Len(Parts[p])
        BY <3>1, OwnTable
      <3>7. parts[p] \in Seq(AllParts) /\ IsInjective(parts[p])
        BY <3>1, OwnTable
      <3>8. partIdHash[p] \in [Range(parts[p]) -> 1..Len(parts[p])]
        BY <3>1, <3>4
      <3>9. \A i \in 1..Len(parts[p]) : partIdHash[p][parts[p][i]] = i
        BY <3>1, <3>3, OwnTable
      <3>10. sz[p] \in 0..Len(parts[p])
        BY <3>1, <3>6
      <3> QED
        BY <3>5, <3>7, <3>8, <3>9, <3>10 DEF Table
    <2> QED
      BY <1>6, <2>1 DEF TablesInv
  <1> QED
    BY <1>1, <1>2, <1>3, <1>4, <1>5, <1>7 DEF Inv

LEMMA NextGoesOn ==
  ASSUME Inv, [Next]_vars
  PROVE  PartsGoOn'
  <1>1. CASE UNCHANGED vars
    <2>1. UNCHANGED <<pc, finish_index, step, sz, parts, partIdHash, wire,
                      handling>>
      BY <1>1 DEF vars, Ring!vars, advancedVars, tableVars
    <2> QED
      BY <2>1 DEF Inv, PartsGoOn, GoesOn, Known, Pending, Comes
  <1>2. ASSUME NEW p \in Procs, Calculate(p) PROVE PartsGoOn'
    <2>1. TablesInv
      BY DEF Inv
    <2>2. CASE ReadSize(p)
      BY <1>2, <2>1, <2>2, ReadSizeTables, CalculateGoesOn
    <2>3. CASE SolveOrder(p)
      BY <1>2, <2>3, SolveOrderTables, CalculateGoesOn
    <2>4. CASE UNCHANGED <<parts, partIdHash, sz>>
      BY <1>2, <2>1, <2>4, TablesQuiet, CalculateGoesOn
    <2> QED
      BY <1>2, <2>2, <2>3, <2>4
         DEF Calculate, SendPart, SetPartCount, SendPartData,
             CalculateUnderSale, Close, tableVars
  <1> QED
    BY <1>1, <1>2, SynchroniseGoesOn, ServeGoesOn DEF Next

\* Every step keeps the invariant.
LEMMA NextInv == Inv /\ [Next]_vars => Inv'
  <1> SUFFICES ASSUME Inv, [Next]_vars PROVE Inv'
    OBVIOUS
  <1>1. ControlInv'
    BY NextControl DEF Inv
  <1> QED
    BY <1>1, NextTables, NextCounts, NextStreams, NextGoesOn DEF Inv

\* The invariant holds in every reachable state.
LEMMA AlwaysInv == Spec => []Inv
  <1> QED
    BY InitInv, NextInv, PTL DEF Spec

\* Who counts its orders has the whole part table, each part once, and its hash
\* names the position of every part.
THEOREM TablesAreComplete == Spec => []TablesComplete
  <1>1. Inv => TablesComplete
    <2> SUFFICES ASSUME Inv, NEW p \in Procs, finish_index[p] > 0
                 PROVE  /\ Range(parts[p]) = AllParts
                        /\ Len(parts[p]) = Cardinality(AllParts)
                        /\ \A k \in AllParts : parts[p][partIdHash[p][k]] = k
      BY DEF TablesComplete
    <2>1. TablesInv /\ Known(p) = AllParts
      BY Complete DEF Inv
    <2>2. Range(parts[p]) = AllParts
      BY <2>1, TableEntries
    <2>3. \A k \in AllParts : parts[p][partIdHash[p][k]] = k
      BY <2>1, TableEntries
    <2>4. Len(parts[p]) = Cardinality(AllParts)
      BY <2>1, <2>2, TableLength
    <2> QED
      BY <2>2, <2>3, <2>4
  <1> QED
    BY <1>1, AlwaysInv, PTL

\* Every variable has its type: messages, positions, counts and the answer.
THEOREM TypeCorrect == Spec => []TypeOK
  <1>1. Inv => TypeOK
    <2> SUFFICES ASSUME Inv PROVE TypeOK
      OBVIOUS
    <2>1. ControlInv /\ TablesInv /\ CountsInv /\ Streams
      BY DEF Inv
    <2>2. PICK S : /\ wire \in [Procs -> Seq(S)]
                   /\ handling \in [Procs -> Held(S)]
                   /\ \A m \in S : Sound(m)
      BY <2>1 DEF Streams
    <2>3. S \subseteq Message
      BY <2>2 DEF Sound
    <2>4. ASSUME NEW p \in Procs
          PROVE  \A i \in DOMAIN wire[p] : wire[p][i] \in Message
      <3>1. wire[p] \in Seq(S)
        BY <2>2
      <3> QED
        BY <2>3, <3>1, ElementOfSeq, LenProperties
    <2>5. ASSUME NEW p \in Procs
          PROVE  /\ IsInjective(parts[p]) /\ Range(parts[p]) \subseteq AllParts
                 /\ \A k \in DOMAIN partIdHash[p] :
                      partIdHash[p][k] \in DOMAIN parts[p]
                 /\ sz[p] \in 0..Cardinality(AllParts)
      <3>1. /\ parts[p] \in Seq(AllParts) /\ IsInjective(parts[p])
            /\ sz[p] \in 0..Len(parts[p])
        BY <2>1 DEF TablesInv, Table
      <3>2. /\ Range(parts[p]) \subseteq AllParts
            /\ \A k \in DOMAIN partIdHash[p] :
                 partIdHash[p][k] \in 1..Len(parts[p])
            /\ Len(parts[p]) \in Nat
        BY <2>1, TableEntries DEF Known
      <3>3. DOMAIN parts[p] = 1..Len(parts[p])
        BY <3>1, LenProperties
      <3>4. /\ Len(parts[p]) = Cardinality(Range(parts[p]))
            /\ Cardinality(Range(parts[p])) <= Cardinality(AllParts)
            /\ Cardinality(AllParts) \in Nat
        BY <2>1, <3>2, TableLength, AllPartsFinite, FS_Subset,
           FS_CardinalityType
      <3> QED
        BY <3>1, <3>2, <3>3, <3>4
    <2>6. sz \in [Procs -> 0..Cardinality(AllParts)]
      BY <2>1, <2>5 DEF TablesInv
    <2>7. step \in [Procs -> Nat] /\ closed \subseteq Procs
      BY <2>1 DEF ControlInv, ControlType, ClosedLast
    <2>8. handling \in [Procs -> {None} \cup Message]
      BY <2>2, <2>3 DEF Held
    <2> QED
      BY <2>1, <2>4, <2>5, <2>6, <2>7, <2>8 DEF TypeOK, CountsInv
  <1> QED
    BY <1>1, AlwaysInv, PTL

-------------------------------------------------------------------------------
(***************************************************************************)
(* The counts along the ring.                                              *)
(*                                                                         *)
(* A count goes one hop, from an instance whose turn it is to the next.    *)
(* No token of that phase that its sender has stamped is ahead of it, so   *)
(* it is read before the phase ends (InTime), and what an instance sends   *)
(* in its own turn is complete.                                            *)
(***************************************************************************)

\* The instance p's server reads from.
Up(p) == IF p = N THEN 1 ELSE p + 1

\* How many of its orders p has counted.
Counted(p) ==
  IF finish_index[p] = 0 \/ (InPhase(p, 1) /\ step[p] = 0)
    THEN 0
    ELSE IF InPhase(p, 1) THEN step[p] - 1 ELSE Len(Orders[p])

\* What the first c of p's orders come to, for a part.
Sales(p, c, key) ==
  Total([i \in DOMAIN Orders[p] |->
           IF i <= c /\ Orders[p][i].lPartkey = key THEN Orders[p][i].lQuantity
                                                    ELSE 0])

OwnKeys(p, c) ==
  {<<Orders[p][i].lPartkey, Orders[p][i].lPartkey>> : i \in 1..c}

IsCount(m) == m.head = "partData"

\* The count of this key is on the way to p.
OnTheWay(p, key) ==
  \E i \in 1..Len(wire[p]) : IsCount(wire[p][i]) /\ wire[p][i].key = key

\* The counts p has got from its neighbour.
Came(p) == {k \in sent[Up(p)] : ~ OnTheWay(p, k)}

\* No token of the neighbour's turn has overtaken the i-th message of p's
\* stream, and no server has announced the end of that phase.
InTime(p, i) ==
  /\ Clear(wire, Turn(Up(p)), Up(p), p, i)
  /\ \A r \in Procs : ~ Announced(r, Turn(Up(p)))

\* A count on the way is what the neighbour has, and the only one of its key.
CountsOn(p) ==
  \A i \in 1..Len(wire[p]) : IsCount(wire[p][i]) =>
    /\ wire[p][i].key \in sent[Up(p)]
    /\ wire[p][i].count = saleCount[Up(p)][wire[p][i].key]
    /\ \A j \in 1..Len(wire[p]) :
         IsCount(wire[p][j]) /\ wire[p][j].key = wire[p][i].key => j = i
    /\ InTime(p, i)

CountsPlaced == \A p \in Procs : CountsOn(p)

\* An instance sends in its turn, and everything.
SentInTurn ==
  \A p \in Procs :
    /\ sent[p] # {} => p # select_idx /\ finish_index[p] >= Turn(p)
    /\ p # select_idx /\ (\/ finish_index[p] > Turn(p)
                          \/ finish_index[p] = Turn(p) /\ pc[p] # "run")
       => sent[p] = DOMAIN saleCount[p]

\* The counts are the own ones and those that came; a count is filed under the
\* brand of its part.
CountsAre(p) ==
  /\ DOMAIN saleCount[p] = OwnKeys(p, Counted(p)) \cup Came(p)
  /\ \A k \in DOMAIN saleCount[p] :
       /\ k = <<k[2], k[2]>>
       /\ saleCount[p][k] = Sales(p, Counted(p), k[2])
                            + IF k \in Came(p) THEN saleCount[Up(p)][k] ELSE 0

CountsAdd == \A p \in Procs : CountsAre(p)

ChainInv == CountsPlaced /\ SentInTurn /\ CountsAdd

\* The turns.
LEMMA ModIs ==
  ASSUME NEW a \in Nat, a < N
  PROVE  a % N = a /\ (a + N) % N = a /\ (a + 2 * N) % N = a
  BY NAssumption

LEMMA TurnIs ==
  ASSUME NEW p \in Procs
  PROVE  Turn(p) = IF p < select_idx THEN select_idx + 1 - p
                                     ELSE select_idx + 1 - p + N
  <1>1. N \in Nat /\ p \in 1..N /\ select_idx \in 1..N
    BY NAssumption, SelectAssumption DEF Procs, Ring!Procs
  <1>2. CASE p < select_idx
    <2>1. select_idx - 1 - p \in Nat /\ select_idx - 1 - p < N
      BY <1>1, <1>2
    <2> QED
      BY <1>1, <1>2, <2>1, ModIs DEF Turn
  <1>3. CASE ~ (p < select_idx)
    <2>1. select_idx - 1 - p + N \in Nat /\ select_idx - 1 - p + N < N
      BY <1>1, <1>3
    <2> QED
      BY <1>1, <1>3, <2>1, ModIs DEF Turn
  <1> QED
    BY <1>2, <1>3

LEMMA TurnArithmetic ==
  ASSUME NEW p \in Procs
  PROVE  /\ Up(p) \in Procs /\ Down(Up(p)) = p /\ Up(p) # p
         /\ \A q \in Procs : Up(Down(q)) = q
         /\ Turn(p) \in 2..N + 1
         /\ Turn(p) = N + 1 <=> p = select_idx
         /\ Up(p) # select_idx => Turn(p) = Turn(Up(p)) + 1
         /\ Up(p) = select_idx => Turn(p) = 2
  <1>1. N \in Nat /\ N >= 2 /\ p \in 1..N /\ select_idx \in 1..N
    BY NAssumption, SelectAssumption DEF Procs, Ring!Procs
  <1>2. /\ Up(p) \in Procs /\ Down(Up(p)) = p /\ Up(p) # p
        /\ \A q \in Procs : Up(Down(q)) = q
    BY <1>1 DEF Up, Down, Ring!Down, Procs, Ring!Procs
  <1>3. Turn(Up(p)) = IF Up(p) < select_idx THEN select_idx + 1 - Up(p)
                                            ELSE select_idx + 1 - Up(p) + N
    BY <1>2, TurnIs
  <1> QED
    BY <1>1, <1>2, <1>3, TurnIs DEF Up

LEMMA NowIs ==
  ASSUME NEW p \in Procs, NEW k \in 2..N
  PROVE  Now(k) = p <=> k = Turn(p)
  <1>1. N \in Nat /\ N >= 2 /\ p \in 1..N /\ select_idx \in 1..N
    BY NAssumption, SelectAssumption DEF Procs, Ring!Procs
  <1>2. PICK d \in 0..N - 2 : d = k - 2
    BY <1>1
  <1>3. TurnOf(d, select_idx, N) = IF d < select_idx - 1 THEN select_idx - 1 - d
                                                         ELSE select_idx - 1 - d + N
    BY <1>1, LoopIsRing
  <1>4. Now(k) = IF k <= select_idx THEN select_idx - k + 1
                                    ELSE select_idx - k + 1 + N
    BY <1>1, <1>2, <1>3 DEF Now
  <1> QED
    BY <1>1, <1>4, TurnIs

-------------------------------------------------------------------------------
(***************************************************************************)
(* What a step does to the streams, for the counts.                        *)
(***************************************************************************)

\* The messages on the way to p move up by d places, and none is overtaken.
Kept(p, d) ==
  \A i \in 1..Len(wire[p]) : i > d =>
    /\ i - d \in 1..Len(wire'[p]) /\ wire'[p][i - d] = wire[p][i]
    /\ InTime(p, i) => InTime(p, i - d)'

NoNewCount(p, d) ==
  \A i \in 1..Len(wire'[p]) : IsCount(wire'[p][i]) => i + d <= Len(wire[p])

\* No message moves.
LEMMA KeptQuiet ==
  ASSUME Streams, UNCHANGED wire,
         \A r \in Procs : \A k \in Nat : Announced(r, k)' => Announced(r, k),
         NEW p \in Procs
  PROVE  Kept(p, 0) /\ NoNewCount(p, 0)
  <1>1. Len(wire[p]) \in Nat
    BY LenProperties DEF Streams
  <1>2. Turn(Up(p)) \in Nat
    BY TurnArithmetic, NAssumption
  <1>3. \A i : InTime(p, i) => InTime(p, i)'
    BY <1>2 DEF InTime, Clear
  <1>4. \A i \in 1..Len(wire[p]) : i - 0 = i /\ i + 0 = i
    BY <1>1
  <1> QED
    BY <1>1, <1>3, <1>4 DEF Kept, NoNewCount

\* A message is sent that overtakes nothing.
LEMMA KeptSend ==
  ASSUME Streams, NEW d \in Procs, NEW e, NEW last,
         last = Len(wire[d]) + 1,
         wire' = [wire EXCEPT ![d] = Append(@, e)],
         \A r \in Procs : \A k \in Nat : Announced(r, k)' => Announced(r, k),
         \A k \in Nat : \A q, s \in Procs : \A i \in Nat :
           (s = d => i < last) => NotOvertaken(e, k, q, s, i, d, last),
         NEW p \in Procs
  PROVE  Kept(p, 0) /\ (NoNewCount(p, 0) \/ (p = d /\ IsCount(e)))
  <1>1. PICK S : wire \in [Procs -> Seq(S)]
    BY DEF Streams
  <1>2. /\ Len(wire[p]) \in Nat /\ Len(wire[d]) \in Nat
        /\ Len(wire'[p]) \in Nat
        /\ p # d => wire'[p] = wire[p]
        /\ p = d => Len(wire'[p]) = Len(wire[p]) + 1 /\ wire'[p][last] = e
        /\ \A i \in 1..Len(wire[p]) : wire'[p][i] = wire[p][i]
    BY <1>1, AppendElements
  <1>3. Turn(Up(p)) \in Nat /\ Up(p) \in Procs
    BY TurnArithmetic, NAssumption
  <1>4. ASSUME NEW i \in 1..Len(wire[p]), InTime(p, i) PROVE InTime(p, i)'
    <2>1. i \in Nat /\ (p = d => i < last)
      BY <1>2
    <2>2. NotOvertaken(e, Turn(Up(p)), Up(p), p, i, d, Len(wire[d]) + 1)
      BY <1>3, <2>1
    <2>3. Clear(wire', Turn(Up(p)), Up(p), p, i)
      BY <1>1, <1>3, <1>4, <2>1, <2>2, ClearSend DEF InTime
    <2> QED
      BY <1>3, <1>4, <2>3 DEF InTime
  <1>5. \A i \in 1..Len(wire[p]) : i \in 1..Len(wire'[p]) /\ i - 0 = i
    BY <1>2
  <1>6. Kept(p, 0)
    BY <1>2, <1>4, <1>5 DEF Kept
  <1>7. NoNewCount(p, 0) \/ (p = d /\ IsCount(e))
    BY <1>2 DEF NoNewCount
  <1> QED
    BY <1>6, <1>7

\* The first message of a stream is read.
LEMMA KeptRead ==
  ASSUME Streams, NEW s \in Procs, wire[s] # << >>,
         wire' = [wire EXCEPT ![s] = Tail(@)],
         \A r \in Procs : \A k \in Nat : Announced(r, k)' => Announced(r, k),
         NEW p \in Procs, NEW d \in {0, 1}, d = (IF p = s THEN 1 ELSE 0)
  PROVE  Kept(p, d) /\ NoNewCount(p, d)
  <1>1. PICK S : wire \in [Procs -> Seq(S)]
    BY DEF Streams
  <1>2. /\ Len(wire[p]) \in Nat /\ Len(wire'[p]) = Len(wire[p]) - d
        /\ \A i \in 1..Len(wire'[p]) : wire'[p][i] = wire[p][i + d]
    BY <1>1, TailElements, LenProperties
  <1>3. Turn(Up(p)) \in Nat /\ Up(p) \in Procs
    BY TurnArithmetic, NAssumption
  <1>4. ASSUME NEW i \in 1..Len(wire[p]), i > d, InTime(p, i)
        PROVE  InTime(p, i - d)'
    <2>1. i \in Nat /\ (p = s => i >= 1)
      BY <1>2
    <2>2. Clear(wire', Turn(Up(p)), Up(p), p, IF p = s THEN i - 1 ELSE i)
      BY <1>1, <1>3, <1>4, <2>1, ClearTail DEF InTime
    <2>3. (IF p = s THEN i - 1 ELSE i) = i - d
      BY <2>1
    <2> QED
      BY <1>3, <1>4, <2>2, <2>3 DEF InTime
  <1>5. \A i \in 1..Len(wire[p]) : i > d =>
          i - d \in 1..Len(wire'[p]) /\ wire'[p][i - d] = wire[p][i]
    BY <1>2
  <1>6. Kept(p, d)
    BY <1>4, <1>5 DEF Kept
  <1>7. \A i \in 1..Len(wire'[p]) : i + d <= Len(wire[p])
    <2>1. \A n \in Nat : \A i \in 1..(n - d) : i + d <= n
      OBVIOUS
    <2> QED
      BY <1>2, <2>1
  <1>8. NoNewCount(p, d)
    BY <1>7 DEF NoNewCount
  <1> QED
    BY <1>6, <1>8

\* A token is read and passed on, and its barrier announced if it is complete.
LEMMA KeptRelay ==
  ASSUME Streams, NEW s \in Procs, wire[s] # << >>,
         NEW t \in Ring!Token, t = Head(wire[s]),
         wire' = [wire EXCEPT ![s] = Tail(@),
                       ![Down(s)] = Append(@, Ring!Stamped(s, t.idx, t.cnt))],
         \A r \in Procs : \A k \in Nat : Announced(r, k)' =>
           Announced(r, k) \/ (r = s /\ t.idx = k /\ Ring!CheckFinish(t)),
         NEW p \in Procs, NEW d \in {0, 1}, d = (IF p = s THEN 1 ELSE 0)
  PROVE  Kept(p, d) /\ NoNewCount(p, d)
  <1> DEFINE u == Ring!Stamped(s, t.idx, t.cnt)
             w2 == [wire EXCEPT ![s] = Tail(@)]
  <1>1. PICK S : wire \in [Procs -> Seq(S)]
    BY DEF Streams
  <1>2. /\ w2 \in [Procs -> Seq(S)] /\ Down(s) \in Procs /\ Down(s) # s
        /\ wire' = [w2 EXCEPT ![Down(s)] = Append(@, u)]
    BY <1>1, TailElements, RingArithmetic
  <1>3. /\ Len(wire[p]) \in Nat /\ Len(w2[p]) = Len(wire[p]) - d
        /\ \A i \in 1..Len(w2[p]) : w2[p][i] = wire[p][i + d]
        /\ Len(w2[Down(s)]) \in Nat
        /\ 1 \in 1..Len(wire[s]) /\ t = wire[s][1]
    BY <1>1, <1>2, TailElements, LenProperties
  <1>4. u.head = "finish" /\ t.head = "finish" /\ t.cnt \in [Procs -> Nat]
    BY DEF Ring!Stamped, Ring!Token, Procs
  <1>5. Turn(Up(p)) \in Nat /\ Up(p) \in Procs
    BY TurnArithmetic, NAssumption
  <1> HIDE DEF u, w2
  <1>6. /\ \A i \in 1..Len(w2[p]) : /\ i \in 1..Len(wire'[p])
                                    /\ wire'[p][i] = w2[p][i]
        /\ \A i \in 1..Len(wire'[p]) : i \in 1..Len(w2[p]) \/ wire'[p][i] = u
    <2>1. CASE p = Down(s)
      <3>1. wire'[p] = Append(w2[p], u) /\ w2[p] \in Seq(S)
        BY <1>2, <2>1
      <3>2. PICK w : w = w2[p] /\ w \in Seq(S)
        BY <3>1
      <3>3. /\ Len(Append(w, u)) = Len(w) + 1 /\ Len(w) \in Nat
            /\ \A i \in 1..Len(w) : Append(w, u)[i] = w[i]
            /\ Append(w, u)[Len(w) + 1] = u
        BY <3>2, AppendElements
      <3>4. \A i \in 1..Len(w) + 1 : i \in 1..Len(w) \/ i = Len(w) + 1
        BY <3>3
      <3>5. \A i \in 1..Len(w) : i \in 1..Len(w) + 1
        BY <3>3
      <3> QED
        BY <3>1, <3>2, <3>3, <3>4, <3>5
    <2>2. CASE p # Down(s)
      BY <1>2, <2>2
    <2> QED
      BY <2>1, <2>2
  <1>7. ASSUME NEW i \in 1..Len(wire[p]), i > d, InTime(p, i)
        PROVE  InTime(p, i - d)'
    <2> DEFINE k == Turn(Up(p))
               q == Up(p)
    <2>1. i \in Nat /\ (p = s => i >= 1) /\ i - d \in Nat
          /\ (IF p = s THEN i - 1 ELSE i) = i - d
      BY <1>3, <1>7
    <2>2. Clear(wire, k, q, p, i)
      BY <1>7 DEF InTime
    <2>3. Clear([wire EXCEPT ![s] = Tail(@)], k, q, p,
                IF p = s THEN i - 1 ELSE i)
      BY <1>1, <1>5, <2>1, <2>2, ClearTail
    <2>4. Clear(w2, k, q, p, i - d)
      BY <2>1, <2>3 DEF w2
    <2>5. NotOvertaken(t, k, q, p, i, s, 1)
      BY <1>3, <2>2 DEF Clear
    <2>6. p = Down(s) => i - d < Len(w2[Down(s)]) + 1
      BY <1>2, <1>3
    <2>7. Len(w2[Down(s)]) + 1 \in Nat
      BY <1>3
    <2>8. NotOvertaken(u, k, q, p, i - d, Down(s), Len(w2[Down(s)]) + 1)
      BY <1>5, <2>1, <2>5, <2>6, <2>7, StampBehind DEF u
    <2>9. Clear(wire', k, q, p, i - d)
      <3>1. Clear([w2 EXCEPT ![Down(s)] = Append(@, u)], k, q, p, i - d)
        BY <1>2, <1>5, <2>1, <2>4, <2>8, ClearSend
      <3> QED
        BY <1>2, <3>1
    <2>10. ASSUME NEW r \in Procs, Announced(r, k)' PROVE FALSE
      <3>1. r = s /\ t.idx = k /\ Ring!CheckFinish(t)
        BY <1>5, <1>7, <2>10 DEF InTime
      <3>2. t.cnt[q] # 0
        BY <1>4, <1>5, <3>1 DEF Ring!CheckFinish, Procs
      <3>3. Ahead(q, p, i, s, 1)
        BY <1>4, <2>5, <3>1, <3>2 DEF NotOvertaken, IsToken
      <3>4. Hops(q, p) = 1 /\ Hops(q, s) \in 1..N
        BY <1>5, TurnArithmetic, RingArithmetic
      <3> QED
        BY <1>3, <2>1, <3>3, <3>4, NAssumption DEF Ahead
    <2> QED
      BY <2>9, <2>10 DEF InTime
  <1>8. \A i \in 1..Len(wire[p]) : i > d =>
          i - d \in 1..Len(wire'[p]) /\ wire'[p][i - d] = wire[p][i]
    <2> SUFFICES ASSUME NEW i \in 1..Len(wire[p]), i > d
                 PROVE  /\ i - d \in 1..Len(wire'[p])
                        /\ wire'[p][i - d] = wire[p][i]
      OBVIOUS
    <2>1. i - d \in 1..Len(w2[p]) /\ (i - d) + d = i
      BY <1>3
    <2> QED
      BY <1>3, <1>6, <2>1
  <1>9. Kept(p, d)
    BY <1>7, <1>8 DEF Kept
  <1>10. NoNewCount(p, d)
    <2>1. ASSUME NEW i \in 1..Len(w2[p]) PROVE i + d <= Len(wire[p])
      <3>1. PICK n \in Nat : n = Len(wire[p])
        BY <1>3
      <3>2. d \in {0, 1} /\ i \in 1..n - d
        BY <1>3, <3>1
      <3> QED
        BY <3>1, <3>2
    <2>2. ~ IsCount(u)
      BY <1>4 DEF IsCount
    <2> QED
      BY <1>6, <2>1, <2>2 DEF NoNewCount
  <1> QED
    BY <1>9, <1>10

\* Where the counts on the way to p are after a step that sends none.
LEMMA CountsMoved ==
  ASSUME NEW p \in Procs, NEW d \in {0, 1},
         Len(wire[p]) \in Nat, Len(wire'[p]) \in Nat,
         CountsOn(p), Kept(p, d), NoNewCount(p, d),
         sent[Up(p)] \subseteq sent'[Up(p)],
         \A k \in sent[Up(p)] : saleCount'[Up(p)][k] = saleCount[Up(p)][k]
  PROVE  /\ CountsOn(p)'
         /\ \A k : OnTheWay(p, k)' <=>
              \E i \in 1..Len(wire[p]) :
                i > d /\ IsCount(wire[p][i]) /\ wire[p][i].key = k
  <1>1. ASSUME NEW i \in 1..Len(wire'[p]), IsCount(wire'[p][i])
        PROVE  /\ i + d \in 1..Len(wire[p]) /\ i + d > d /\ (i + d) - d = i
               /\ wire'[p][i] = wire[p][i + d]
    <2>1. i + d <= Len(wire[p])
      BY <1>1 DEF NoNewCount
    <2>2. i + d \in 1..Len(wire[p]) /\ i + d > d /\ (i + d) - d = i
      BY <2>1
    <2> QED
      BY <2>2 DEF Kept
  <1>2. ASSUME NEW i \in 1..Len(wire[p]), i > d
        PROVE  i - d \in 1..Len(wire'[p]) /\ wire'[p][i - d] = wire[p][i]
    BY <1>2 DEF Kept
  <1>3. ASSUME NEW i \in 1..Len(wire'[p]), IsCount(wire'[p][i])
        PROVE  /\ wire'[p][i].key \in sent'[Up(p)]
               /\ wire'[p][i].count = saleCount'[Up(p)][wire'[p][i].key]
               /\ \A j \in 1..Len(wire'[p]) :
                    IsCount(wire'[p][j]) /\ wire'[p][j].key = wire'[p][i].key
                    => j = i
               /\ InTime(p, i)'
    <2>1. /\ i + d \in 1..Len(wire[p]) /\ i + d > d /\ (i + d) - d = i
          /\ wire'[p][i] = wire[p][i + d]
      BY <1>1, <1>3
    <2>2. /\ wire[p][i + d].key \in sent[Up(p)]
          /\ wire[p][i + d].count = saleCount[Up(p)][wire[p][i + d].key]
          /\ InTime(p, i + d)
      BY <1>3, <2>1 DEF CountsOn
    <2>3. InTime(p, i)'
      BY <2>1, <2>2 DEF Kept
    <2>4. ASSUME NEW j \in 1..Len(wire'[p]), IsCount(wire'[p][j]),
                 wire'[p][j].key = wire'[p][i].key
          PROVE  j = i
      <3>1. j + d \in 1..Len(wire[p]) /\ wire'[p][j] = wire[p][j + d]
        BY <1>1, <2>4
      <3>2. j + d = i + d
        BY <1>3, <2>1, <2>4, <3>1 DEF CountsOn
      <3> QED
        BY <3>2
    <2> QED
      BY <2>1, <2>2, <2>3, <2>4
  <1>4. CountsOn(p)'
    BY <1>3 DEF CountsOn, IsCount
  <1>5. ASSUME NEW k
        PROVE  OnTheWay(p, k)' <=>
                 \E i \in 1..Len(wire[p]) :
                   i > d /\ IsCount(wire[p][i]) /\ wire[p][i].key = k
    <2>1. OnTheWay(p, k)' <=>
            \E i \in 1..Len(wire'[p]) :
              IsCount(wire'[p][i]) /\ wire'[p][i].key = k
      BY DEF OnTheWay, IsCount
    <2>2. ASSUME NEW i \in 1..Len(wire'[p]), IsCount(wire'[p][i]),
                 wire'[p][i].key = k
          PROVE  \E j \in 1..Len(wire[p]) :
                   j > d /\ IsCount(wire[p][j]) /\ wire[p][j].key = k
      BY <1>1, <2>2
    <2>3. ASSUME NEW i \in 1..Len(wire[p]), i > d, IsCount(wire[p][i]),
                 wire[p][i].key = k
          PROVE  \E j \in 1..Len(wire'[p]) :
                   IsCount(wire'[p][j]) /\ wire'[p][j].key = k
      BY <1>2, <2>3
    <2> QED
      BY <2>1, <2>2, <2>3
  <1> QED
    BY <1>4, <1>5

\* The tokens of its own turn that an instance has not finished do not bear its
\* digit.
LEMMA TurnClear ==
  ASSUME Inv, NEW p \in Procs, pc[p] = "run", NEW k \in Nat,
         finish_index[p] = k, NEW s \in Procs, NEW i
  PROVE  Clear(wire, k, p, s, i) /\ \A r \in Procs : ~ Announced(r, k)
  <1>1. k \notin is_finished[p]
    BY DEF Inv, ControlInv, FinishedIsPrefix, Ring!Inside
  <1>2. PICK S : wire \in [Procs -> Seq(S)] /\ \A m \in S : Sound(m)
    BY DEF Inv, Streams
  <1>3. ASSUME NEW r \in Procs, NEW j \in 1..Len(wire[r])
        PROVE  NotOvertaken(wire[r][j], k, p, s, i, r, j)
    <2>1. Sound(wire[r][j])
      BY <1>2, ElementOfSeq
    <2>2. /\ wire[r][j].head = "finish" /\ wire[r][j].cnt[p] # 0
          => wire[r][j].idx \in is_finished[p]
      BY <2>1, TokenSound
    <2> QED
      BY <1>1, <2>2 DEF NotOvertaken, IsToken
  <1>4. \A r \in Procs : ~ Announced(r, k)
    BY <1>1 DEF Inv, ControlInv, AnnouncedByAll
  <1> QED
    BY <1>3, <1>4 DEF Clear

\* The streams, and the lengths of them.
LEMMA StreamLengths ==
  ASSUME Streams, NEW p \in Procs
  PROVE  Len(wire[p]) \in Nat
  BY LenProperties DEF Streams

\* The finish case.
LEMMA ReceiveFinishKept ==
  ASSUME Inv, NEW s \in Procs, ReceiveFinish(s),
         NEW p \in Procs, NEW d \in {0, 1}, d = (IF p = s THEN 1 ELSE 0)
  PROVE  Kept(p, d) /\ NoNewCount(p, d) /\ wire[s] # << >>
         /\ ~ IsCount(wire[s][1])
  <1>1. ControlType /\ Streams
    BY DEF Inv, ControlInv
  <1>2. /\ wire[s] # << >> /\ notifying[s] = Ring!None
        /\ Head(wire[s]).head = "finish"
    BY DEF ReceiveFinish, Reads, Ring!Receives
  <1>3. UNCHANGED has_notify
    BY DEF ReceiveFinish, Ring!HandleFinish, Ring!DropToken, Ring!PassToken,
           Ring!CompleteToken, Ring!serverVars
  <1>4. ~ IsCount(wire[s][1])
    <2>1. Head(wire[s]) = wire[s][1]
      BY <1>1, <1>2, TailElements DEF Streams
    <2> QED
      BY <1>2, <2>1 DEF IsCount
  <1>5. CASE Ring!DropToken(s)
    <2>1. wire' = [wire EXCEPT ![s] = Tail(@)] /\ UNCHANGED notifying
      BY <1>5 DEF Ring!DropToken, Ring!serverVars
    <2>2. \A r \in Procs : \A k \in Nat : Announced(r, k)' => Announced(r, k)
      BY <1>3, <2>1 DEF Announced
    <2> QED
      BY <1>1, <1>2, <1>4, <2>1, <2>2, KeptRead
  <1>6. CASE Ring!PassToken(s) \/ Ring!CompleteToken(s)
    <2>1. PICK t : t = Head(wire[s])
      OBVIOUS
    <2>2. t \in Ring!Token
      BY <1>1, <1>2, <2>1, HeadSound, TokenSound
    <2>3. wire' = [wire EXCEPT ![s] = Tail(@),
                     ![Down(s)] = Append(@, Ring!Stamped(s, t.idx, t.cnt))]
      BY <1>6, <2>1 DEF Ring!PassToken, Ring!CompleteToken, Ring!Forward, Down
    <2>4. \A r \in Procs : \A k \in Nat : Announced(r, k)' =>
            Announced(r, k) \/ (r = s /\ t.idx = k /\ Ring!CheckFinish(t))
      <3>1. CASE Ring!PassToken(s)
        BY <1>3, <3>1 DEF Ring!PassToken, Ring!serverVars, Announced
      <3>2. CASE Ring!CompleteToken(s)
        BY <1>1, <1>3, <2>1, <3>2 DEF Ring!CompleteToken, Announced, ControlType
      <3> QED
        BY <1>6, <3>1, <3>2
    <2> QED
      BY <1>1, <1>2, <1>4, <2>1, <2>2, <2>3, <2>4, KeptRelay
  <1> QED
    BY <1>5, <1>6 DEF ReceiveFinish, Ring!HandleFinish

\* The shared variables that say which barriers are announced are left alone.
LEMMA AnnouncedQuiet ==
  ASSUME UNCHANGED <<has_notify, notifying>>
  PROVE  \A r \in Procs : \A k \in Nat : Announced(r, k)' => Announced(r, k)
  BY DEF Announced

\* What a step that neither sends nor reads a count does to the messages on the
\* way to p.
LEMMA NextKept ==
  ASSUME Inv, [Next]_vars, NEW p \in Procs,
         \A q \in Procs : ~ SendPartData(q) /\ ~ ReceivePartData(q)
  PROVE  \E d \in {0, 1} :
           /\ Kept(p, d) /\ NoNewCount(p, d)
           /\ d = 1 => wire[p] # << >> /\ ~ IsCount(wire[p][1])
  <1> USE DEF mainVars, serverVars
  <1>1. ControlType /\ Streams
    BY DEF Inv, ControlInv
  <1>2. ASSUME UNCHANGED wire,
               \A r \in Procs : \A k \in Nat : Announced(r, k)' => Announced(r, k)
        PROVE  Kept(p, 0) /\ NoNewCount(p, 0)
    BY <1>1, <1>2, KeptQuiet
  <1>3. CASE UNCHANGED vars
    <2>1. UNCHANGED <<wire, has_notify, notifying>>
      BY <1>3 DEF vars, Ring!vars
    <2> QED
      BY <1>2, <2>1, AnnouncedQuiet
  <1>4. ASSUME NEW s \in Procs, NEW e, ~ IsToken(e), ~ IsCount(e),
               wire' = [wire EXCEPT ![Down(s)] = Append(@, e)],
               UNCHANGED <<has_notify, notifying>>
        PROVE  Kept(p, 0) /\ NoNewCount(p, 0)
    <2>1. PICK last : last = Len(wire[Down(s)]) + 1
      OBVIOUS
    <2>2. \A k, q, r, i : NotOvertaken(e, k, q, r, i, Down(s), last)
      BY <1>4 DEF NotOvertaken
    <2>3. Down(s) \in Procs
      BY RingArithmetic
    <2> QED
      BY <1>1, <1>4, <2>1, <2>2, <2>3, AnnouncedQuiet, KeptSend
  <1>5. ASSUME NEW s \in Procs, Calculate(s)
        PROVE  Kept(p, 0) /\ NoNewCount(p, 0)
    <2>1. UNCHANGED <<has_notify, notifying>>
      BY <1>5 DEF Calculate, ReadSize, SendPart, SetPartCount, SolveOrder,
                  SendPartData, CalculateUnderSale, Close
    <2>2. UNCHANGED wire \/ SendPart(s)
      BY <1>5 DEF Calculate, ReadSize, SetPartCount, SolveOrder,
                  CalculateUnderSale, Close
    <2>3. CASE UNCHANGED wire
      BY <1>2, <2>1, <2>3, AnnouncedQuiet
    <2>4. CASE SendPart(s) /\ ~ UNCHANGED wire
      <3>1. PICK e : e = Part(parts[s][step[s]])
        OBVIOUS
      <3>2. wire' = [wire EXCEPT ![Down(s)] = Append(@, e)]
        BY <2>4, <3>1 DEF SendPart, Send
      <3>3. ~ IsToken(e) /\ ~ IsCount(e)
        BY <3>1 DEF Part, IsToken, IsCount
      <3> QED
        BY <1>4, <2>1, <3>2, <3>3
    <2> QED
      BY <2>2, <2>3, <2>4
  <1>6. ASSUME NEW s \in Procs, Synchronise(s)
        PROVE  Kept(p, 0) /\ NoNewCount(p, 0)
    <2>1. UNCHANGED <<has_notify, notifying>>
      BY <1>6 DEF Synchronise, EnterBarrier, LeaveBarrier, Ring!EnterBarrier,
                  Ring!LeaveBarrier, Ring!SendFinish, Ring!Wait, Ring!serverVars
    <2>2. UNCHANGED wire \/ Ring!SendFinish(s)
      BY <1>6 DEF Synchronise, EnterBarrier, LeaveBarrier, Ring!EnterBarrier,
                  Ring!LeaveBarrier, Ring!Wait
    <2>3. CASE UNCHANGED wire
      BY <1>2, <2>1, <2>3, AnnouncedQuiet
    <2>4. CASE Ring!SendFinish(s)
      <3>1. PICK e : e = Ring!Stamped(s, finish_index[s], Ring!NoDigits)
        OBVIOUS
      <3>2. wire' = [wire EXCEPT ![Down(s)] = Append(@, e)]
        BY <2>4, <3>1 DEF Ring!SendFinish, Down
      <3>3. PICK last : last = Len(wire[Down(s)]) + 1
        OBVIOUS
      <3>4. /\ Down(s) \in Procs /\ last \in Nat /\ finish_index[s] \in Nat
            /\ ~ IsCount(e)
        BY <1>1, <3>1, <3>3, RingArithmetic, StreamLengths
           DEF ControlType, Ring!Stamped, IsCount
      <3>5. \A k \in Nat : \A q, r \in Procs : \A i \in Nat :
              (r = Down(s) => i < last) =>
                NotOvertaken(e, k, q, r, i, Down(s), last)
        BY <3>1, <3>4, FreshBehind
      <3> QED
        BY <1>1, <2>1, <3>2, <3>3, <3>4, <3>5, AnnouncedQuiet, KeptSend
    <2> QED
      BY <2>2, <2>3, <2>4
  <1>7. ASSUME NEW s \in Procs, Serve(s)
        PROVE  \E d \in {0, 1} :
                 /\ Kept(p, d) /\ NoNewCount(p, d)
                 /\ d = 1 => wire[p] # << >> /\ ~ IsCount(wire[p][1])
    <2>1. PICK d \in {0, 1} : d = IF p = s THEN 1 ELSE 0
      OBVIOUS
    <2>2. CASE ReceiveFinish(s)
      BY <2>1, <2>2, ReceiveFinishKept
    <2>3. CASE ReceivePart(s)
      <3>1. /\ wire[s] # << >> /\ Head(wire[s]).head = "part"
            /\ wire' = [wire EXCEPT ![s] = Tail(@)]
            /\ UNCHANGED <<has_notify, notifying>>
        BY <2>3 DEF ReceivePart, Reads, Ring!Receives, Consume
      <3>2. Head(wire[s]) = wire[s][1]
        BY <1>1, <3>1, TailElements DEF Streams
      <3> QED
        <4>1. ~ IsCount(wire[s][1])
          BY <3>1, <3>2 DEF IsCount
        <4>2. Kept(p, d) /\ NoNewCount(p, d)
          BY <1>1, <2>1, <3>1, AnnouncedQuiet, KeptRead
        <4> QED
          BY <2>1, <3>1, <4>1, <4>2
    <2>4. CASE Forward(s)
      <3>1. PICK e : e = handling[s]
        OBVIOUS
      <3>2. /\ handling[s] # None /\ UNCHANGED <<has_notify, notifying>>
            /\ wire' = [wire EXCEPT ![Down(s)] = Append(@, e)]
        BY <2>4, <3>1, ForwardSends DEF Forward
      <3>3. ~ IsToken(e) /\ ~ IsCount(e)
        BY <1>1, <3>1, <3>2, HandType DEF IsToken, IsCount
      <3>4. Kept(p, 0) /\ NoNewCount(p, 0)
        BY <1>4, <3>2, <3>3
      <3> QED
        BY <3>4
    <2>5. CASE Ring!Notify(s) /\ UNCHANGED advancedVars
      <3>1. UNCHANGED wire
        BY <2>5 DEF Ring!Notify
      <3>2. \A r \in Procs : \A k \in Nat : Announced(r, k)' => Announced(r, k)
        BY <1>1, <2>5 DEF ControlType, Ring!Notify, Announced, Ring!None
      <3>3. Kept(p, 0) /\ NoNewCount(p, 0)
        BY <1>2, <3>1, <3>2
      <3> QED
        BY <3>3
    <2> QED
      BY <1>7, <2>2, <2>3, <2>4, <2>5 DEF Serve
  <1>8. CASE Kept(p, 0) /\ NoNewCount(p, 0)
    BY <1>8
  <1> QED
    BY <1>2, <1>3, <1>5, <1>6, <1>7, <1>8 DEF Next

-------------------------------------------------------------------------------
(***************************************************************************)
(* What a step does to the counts.                                         *)
(***************************************************************************)

\* The orders p has counted, and whether it has sent what it has.
LEMMA SalesType ==
  ASSUME NEW p \in Procs, NEW c, NEW key
  PROVE  Sales(p, c, key) \in Nat
  <1> DEFINE s == [i \in DOMAIN Orders[p] |->
                     IF i <= c /\ Orders[p][i].lPartkey = key
                       THEN Orders[p][i].lQuantity ELSE 0]
  <1>1. s \in Seq(Nat)
    BY OwnOrder
  <1> HIDE DEF s
  <1>2. Total(s) \in Nat
    BY <1>1, TotalNat
  <1> QED
    BY <1>2 DEF Sales, s

\* One more order is counted.
LEMMA SalesNext ==
  ASSUME NEW p \in Procs, NEW c \in Nat, c < Len(Orders[p]), NEW key
  PROVE  Sales(p, c + 1, key) = Sales(p, c, key)
           + IF Orders[p][c + 1].lPartkey = key
               THEN Orders[p][c + 1].lQuantity ELSE 0
  <1> DEFINE S(n) == [i \in DOMAIN Orders[p] |->
                        IF i <= n /\ Orders[p][i].lPartkey = key
                          THEN Orders[p][i].lQuantity ELSE 0]
  <1>1. /\ Len(Orders[p]) \in Nat /\ c + 1 \in 1..Len(Orders[p])
        /\ DOMAIN Orders[p] = 1..Len(Orders[p])
    BY OwnOrder
  <1>2. ASSUME NEW n PROVE S(n) \in Seq(Int)
    BY OwnOrder
  <1>3. Len(S(c)) = Len(Orders[p]) /\ Len(S(c + 1)) = Len(Orders[p])
    BY <1>1
  <1>4. \A i \in 1..Len(Orders[p]) : i # c + 1 => S(c + 1)[i] = S(c)[i]
    BY <1>1
  <1>5. /\ S(c)[c + 1] = 0
        /\ S(c + 1)[c + 1] = IF Orders[p][c + 1].lPartkey = key
                               THEN Orders[p][c + 1].lQuantity ELSE 0
    BY <1>1
  <1>6. Total(S(c)) = Sales(p, c, key) /\ Total(S(c + 1)) = Sales(p, c + 1, key)
    BY DEF Sales
  <1> HIDE DEF S
  <1>7. Total(S(c + 1)) = Total(S(c)) - S(c)[c + 1] + S(c + 1)[c + 1]
    <2>1. PICK s : s = S(c)
      OBVIOUS
    <2>2. PICK t : t = S(c + 1)
      OBVIOUS
    <2>3. /\ s \in Seq(Int) /\ t \in Seq(Int) /\ Len(t) = Len(s)
          /\ c + 1 \in 1..Len(s)
          /\ \A i \in 1..Len(s) : i # c + 1 => t[i] = s[i]
      BY <1>1, <1>2, <1>3, <1>4, <2>1, <2>2
    <2>4. Total(t) = Total(s) - s[c + 1] + t[c + 1]
      BY <2>3, TotalReplaced
    <2> QED
      BY <2>1, <2>2, <2>4
  <1>8. Sales(p, c, key) \in Nat
    BY SalesType
  <1> QED
    BY <1>5, <1>6, <1>7, <1>8

\* What has not been ordered has not been sold.
LEMMA SalesNone ==
  ASSUME NEW p \in Procs, NEW c, NEW key, <<key, key>> \notin OwnKeys(p, c)
  PROVE  Sales(p, c, key) = 0
  <1> DEFINE s == [i \in DOMAIN Orders[p] |->
                     IF i <= c /\ Orders[p][i].lPartkey = key
                       THEN Orders[p][i].lQuantity ELSE 0]
  <1>1. \A i \in 1..Len(Orders[p]) : s[i] = 0
    BY OwnOrder DEF OwnKeys
  <1>2. s \in Seq(Int) /\ Len(s) = Len(Orders[p])
    BY OwnOrder
  <1> HIDE DEF s
  <1>3. Total(s) = 0
    BY <1>1, <1>2, TotalZero
  <1> QED
    BY <1>3 DEF Sales, s

\* While a count is on the way to p, p's own turn has not come.
LEMMA CountsEarly ==
  ASSUME Inv, CountsPlaced, SentInTurn, NEW p \in Procs,
         NEW i \in 1..Len(wire[p]), IsCount(wire[p][i])
  PROVE  finish_index[p] < Turn(p) /\ sent[p] = {}
  <1>1. /\ ControlType /\ LeftAnnounced
        /\ Up(p) \in Procs /\ Turn(Up(p)) \in Nat /\ Turn(p) \in Nat
    BY TurnArithmetic, NAssumption DEF Inv, ControlInv
  <1>2. sent[Up(p)] # {} /\ InTime(p, i)
    BY DEF CountsPlaced, CountsOn
  <1>3. Up(p) # select_idx
    BY <1>1, <1>2 DEF SentInTurn
  <1>4. Turn(p) = Turn(Up(p)) + 1
    BY <1>3, TurnArithmetic
  <1>5. ~ (Turn(Up(p)) < finish_index[p])
    BY <1>1, <1>2 DEF LeftAnnounced, InTime, Announced
  <1>6. finish_index[p] < Turn(p)
    BY <1>1, <1>4, <1>5 DEF ControlType
  <1>7. ~ (finish_index[p] >= Turn(p))
    BY <1>1, <1>6 DEF ControlType
  <1>8. sent[p] = {}
    BY <1>7 DEF SentInTurn
  <1> QED
    BY <1>6, <1>8

\* Where the counts and what is on the way stay as they are.
LEMMA CountsQuiet ==
  ASSUME CountsAdd, UNCHANGED <<saleCount, sent>>, NEW p \in Procs,
         Counted(p)' = Counted(p),
         \A k : OnTheWay(p, k)' <=> OnTheWay(p, k)
  PROVE  CountsAre(p)'
  <1>1. Came(p)' = Came(p)
    BY DEF Came
  <1>2. CountsAre(p)
    BY DEF CountsAdd
  <1> QED
    BY <1>1, <1>2 DEF CountsAre

\* Of the counts of its own, and of those that came, another one is added.
LEMMA CountsMerged ==
  ASSUME NEW f, NEW key, NEW n
  PROVE  /\ DOMAIN Merged(f, key, n) = DOMAIN f \cup {key}
         /\ Merged(f, key, n)[key] = n + (IF key \in DOMAIN f THEN f[key] ELSE 0)
         /\ \A k \in DOMAIN f \ {key} : Merged(f, key, n)[k] = f[k]
  BY DEF Merged, WithEntry

\* A step that neither counts an order nor sends or reads a count: what has been
\* counted and what is on the way stay as they are.
LEMMA QuietChain ==
  ASSUME Inv, ChainInv, [Next]_vars,
         \A q \in Procs : /\ ~ SendPartData(q) /\ ~ ReceivePartData(q)
                          /\ ~ SolveOrder(q)
  PROVE  /\ UNCHANGED <<saleCount, sent>>
         /\ CountsPlaced'
         /\ \A p \in Procs : \A k : OnTheWay(p, k)' <=> OnTheWay(p, k)
  <1>1. UNCHANGED <<saleCount, sent>>
    BY DEF Next, Calculate, Synchronise, Serve, ReadSize, SendPart, SetPartCount,
           CalculateUnderSale, Close, EnterBarrier, LeaveBarrier, ReceiveFinish,
           ReceivePart, Forward, vars, advancedVars, countVars
  <1>2. ASSUME NEW p \in Procs
        PROVE  /\ CountsOn(p)'
               /\ \A k : OnTheWay(p, k)' <=> OnTheWay(p, k)
    <2>1. PICK d \in {0, 1} :
            /\ Kept(p, d) /\ NoNewCount(p, d)
            /\ d = 1 => wire[p] # << >> /\ ~ IsCount(wire[p][1])
      BY NextKept
    <2>2. Len(wire[p]) \in Nat /\ Len(wire'[p]) \in Nat
      BY NextStreams, StreamLengths DEF Inv, Streams
    <2>3. /\ CountsOn(p)'
          /\ \A k : OnTheWay(p, k)' <=>
               \E i \in 1..Len(wire[p]) :
                 i > d /\ IsCount(wire[p][i]) /\ wire[p][i].key = k
      BY <1>1, <2>1, <2>2, CountsMoved DEF ChainInv, CountsPlaced
    <2>4. \A i \in 1..Len(wire[p]) : IsCount(wire[p][i]) => i > d
      BY <2>1, <2>2
    <2>5. \A k : OnTheWay(p, k)' <=> OnTheWay(p, k)
      BY <2>3, <2>4 DEF OnTheWay
    <2> QED
      BY <2>3, <2>5
  <1> QED
    BY <1>1, <1>2 DEF CountsPlaced

\* Where the main threads stay where they are.
LEMMA QuietControl ==
  ASSUME SentInTurn, UNCHANGED <<saleCount, sent, finish_index>>,
         \A p \in Procs : pc'[p] = "run" <=> pc[p] = "run"
  PROVE  SentInTurn'
  BY DEF SentInTurn

\* An order is counted.
LEMMA SolveOrderChain ==
  ASSUME Inv, ChainInv, NEW p \in Procs, SolveOrder(p)
  PROVE  ChainInv'
  <1> DEFINE c == step[p] - 1
             o == Orders[p][step[p]]
             key == <<o.lPartkey, o.lPartkey>>
  <1>1. ControlType /\ TablesInv /\ CountsInv /\ Streams
    BY DEF Inv, ControlInv
  <1>2. /\ finish_index[p] = 1 /\ pc[p] = "run" /\ step[p] \in 1..Len(Orders[p])
        /\ step' = [step EXCEPT ![p] = @ + 1]
        /\ UNCHANGED <<pc, finish_index, wire, sent, has_notify, notifying>>
    BY DEF SolveOrder, InPhase, Advance, mainVars, serverVars
  <1>3. /\ c \in Nat /\ c < Len(Orders[p]) /\ step[p] = c + 1
        /\ Len(Orders[p]) \in Nat
        /\ o.lPartkey \in AllParts /\ o.lQuantity \in Nat
    BY <1>2, OwnOrder
  <1>4. saleCount' = [saleCount EXCEPT ![p] = Merged(@, key, o.lQuantity)]
    <2>1. o.lPartkey \in Known(p)
      BY SolveOrderTables
    <2>2. parts[p][partIdHash[p][o.lPartkey]] = o.lPartkey
      BY <1>1, <2>1, TableEntries
    <2> QED
      BY <2>1, <2>2 DEF SolveOrder, Known
  <1>5. /\ saleCount'[p] = Merged(saleCount[p], key, o.lQuantity)
        /\ \A q \in Procs \ {p} : saleCount'[q] = saleCount[q]
    BY <1>1, <1>4 DEF CountsInv
  <1>6. sent[p] = {}
    <2>1. Turn(p) \in 2..N + 1
      BY TurnArithmetic
    <2>2. ~ (finish_index[p] >= Turn(p))
      BY <1>2, <2>1, NAssumption
    <2> QED
      BY <2>2 DEF ChainInv, SentInTurn
  <1>7. /\ Counted(p) = c /\ Counted(p)' = c + 1
        /\ \A q \in Procs \ {p} : Counted(q)' = Counted(q)
    BY <1>1, <1>2, <1>3 DEF Counted, InPhase, ControlType
  <1>8. CountsPlaced' /\ \A q \in Procs : \A k : OnTheWay(q, k)' <=> OnTheWay(q, k)
    <2> SUFFICES ASSUME NEW q \in Procs
                 PROVE  /\ CountsOn(q)'
                        /\ \A k : OnTheWay(q, k)' <=> OnTheWay(q, k)
      BY DEF CountsPlaced
    <2>1. Len(wire[q]) \in Nat /\ UNCHANGED wire
      BY <1>1, <1>2, StreamLengths
    <2>2. Kept(q, 0) /\ NoNewCount(q, 0)
      BY <1>1, <1>2, AnnouncedQuiet, KeptQuiet
    <2>3. \A k \in sent[Up(q)] : saleCount'[Up(q)][k] = saleCount[Up(q)][k]
      BY <1>5, <1>6, TurnArithmetic
    <2>4. CountsOn(q)'
      BY <1>2, <2>1, <2>2, <2>3, CountsMoved DEF ChainInv, CountsPlaced
    <2> QED
      BY <2>1, <2>4 DEF OnTheWay
  <1>9. SentInTurn'
    <2>1. \A q \in Procs : sent[q] # {} \/ q # p => saleCount'[q] = saleCount[q]
      BY <1>5, <1>6
    <2>2. Turn(p) \in 2..N + 1
      BY TurnArithmetic
    <2>3. ~ (finish_index[p] >= Turn(p)) /\ ~ (finish_index[p] > Turn(p))
      BY <1>2, <2>2, NAssumption
    <2> QED
      BY <1>2, <1>6, <2>1, <2>3 DEF ChainInv, SentInTurn
  <1>10. \A q \in Procs : Came(q)' = Came(q)
    BY <1>2, <1>8 DEF Came
  <1>11. ASSUME NEW q \in Procs \ {p} PROVE CountsAre(q)'
    <2>1. \A k \in Came(q) : saleCount'[Up(q)][k] = saleCount[Up(q)][k]
      BY <1>5, <1>6, TurnArithmetic DEF Came
    <2>2. CountsAre(q) /\ saleCount'[q] = saleCount[q]
      BY <1>5 DEF ChainInv, CountsAdd
    <2> QED
      BY <1>7, <1>10, <2>1, <2>2 DEF CountsAre
  <1>12. CountsAre(p)'
    <2>1. CountsAre(p)
      BY DEF ChainInv, CountsAdd
    <2>2. /\ DOMAIN saleCount'[p] = DOMAIN saleCount[p] \cup {key}
          /\ saleCount'[p][key] = o.lQuantity
               + (IF key \in DOMAIN saleCount[p] THEN saleCount[p][key] ELSE 0)
          /\ \A k \in DOMAIN saleCount[p] \ {key} :
               saleCount'[p][k] = saleCount[p][k]
      <3>1. PICK f : f = saleCount[p]
        OBVIOUS
      <3>2. PICK j : j = key
        OBVIOUS
      <3>3. PICK n : n = o.lQuantity
        OBVIOUS
      <3>4. saleCount'[p] = Merged(f, j, n)
        BY <1>5, <3>1, <3>2, <3>3
      <3>5. /\ DOMAIN Merged(f, j, n) = DOMAIN f \cup {j}
            /\ Merged(f, j, n)[j] = n + (IF j \in DOMAIN f THEN f[j] ELSE 0)
            /\ \A k \in DOMAIN f \ {j} : Merged(f, j, n)[k] = f[k]
        BY DEF Merged, WithEntry
      <3> QED
        BY <3>1, <3>2, <3>3, <3>4, <3>5
    <2>3. OwnKeys(p, c + 1) = OwnKeys(p, c) \cup {key}
      <3>1. 1..(c + 1) = 1..c \cup {c + 1}
        BY <1>3
      <3> QED
        BY <1>3, <3>1 DEF OwnKeys
    <2>4. DOMAIN saleCount'[p] = OwnKeys(p, c + 1) \cup Came(p)
      BY <1>7, <2>1, <2>2, <2>3 DEF CountsAre
    <2>5. \A j : Sales(p, c + 1, j) = Sales(p, c, j)
                   + IF o.lPartkey = j THEN o.lQuantity ELSE 0
      BY <1>3, SalesNext
    <2>6. saleCount'[Up(p)] = saleCount[Up(p)]
      BY <1>5, TurnArithmetic
    <2>7. ASSUME NEW k \in DOMAIN saleCount'[p]
          PROVE  /\ k = <<k[2], k[2]>>
                 /\ saleCount'[p][k] = Sales(p, c + 1, k[2])
                      + IF k \in Came(p) THEN saleCount[Up(p)][k] ELSE 0
      <3>1. CASE k \in DOMAIN saleCount[p] \ {key}
        <4>1. /\ k = <<k[2], k[2]>>
              /\ saleCount[p][k] = Sales(p, c, k[2])
                   + IF k \in Came(p) THEN saleCount[Up(p)][k] ELSE 0
          BY <1>7, <2>1, <3>1 DEF CountsAre
        <4>2. o.lPartkey # k[2]
          BY <3>1, <4>1
        <4>3. Sales(p, c + 1, k[2]) = Sales(p, c, k[2])
          BY <2>5, <4>2, SalesType
        <4> QED
          BY <2>2, <3>1, <4>1, <4>3
      <3>2. CASE k = key
        <4>1. k[2] = o.lPartkey /\ k = <<k[2], k[2]>>
          BY <3>2
        <4>2. Sales(p, c + 1, k[2]) = Sales(p, c, k[2]) + o.lQuantity
          BY <2>5, <4>1
        <4>3. Sales(p, c, k[2]) \in Nat
          BY SalesType
        <4>4. CASE key \in DOMAIN saleCount[p]
          <5>1. /\ saleCount[p][k] = Sales(p, c, k[2])
                     + IF k \in Came(p) THEN saleCount[Up(p)][k] ELSE 0
                /\ saleCount[p][k] \in Nat
            BY <1>1, <1>7, <2>1, <3>2, <4>4 DEF CountsAre, CountsInv
          <5>2. k \in Came(p) => saleCount[Up(p)][k] \in Nat
            BY <1>1, TurnArithmetic DEF CountsInv, Came
          <5>3. saleCount'[p][k] = o.lQuantity + saleCount[p][k]
            BY <2>2, <3>2, <4>4
          <5> QED
            BY <1>3, <4>1, <4>2, <4>3, <5>1, <5>2, <5>3
        <4>5. CASE key \notin DOMAIN saleCount[p]
          <5>1. k \notin Came(p) /\ k \notin OwnKeys(p, c)
            BY <1>7, <2>1, <3>2, <4>5 DEF CountsAre
          <5>2. Sales(p, c, k[2]) = 0
            BY <4>1, <5>1, SalesNone
          <5>3. saleCount'[p][k] = o.lQuantity + 0
            BY <2>2, <3>2, <4>5
          <5> QED
            BY <1>3, <4>1, <4>2, <5>1, <5>2, <5>3
        <4> QED
          BY <4>4, <4>5
      <3> QED
        BY <2>2, <3>1, <3>2
    <2> QED
      BY <1>7, <1>10, <2>4, <2>6, <2>7 DEF CountsAre
  <1> QED
    BY <1>8, <1>9, <1>11, <1>12 DEF ChainInv, CountsAdd

\* An instance sends one of its counts.
LEMMA SendPartDataChain ==
  ASSUME Inv, ChainInv, NEW q \in Procs, SendPartData(q)
  PROVE  ChainInv'
  <1>1. ControlType /\ CountsInv /\ Streams /\ ClosedLast
    BY DEF Inv, ControlInv
  <1>2. /\ finish_index[q] = Turn(q) /\ q # select_idx /\ pc[q] = "run"
        /\ finish_index[q] \in Nat
    <2>1. finish_index[q] \in 2..N /\ Now(finish_index[q]) = q /\ pc[q] = "run"
      BY DEF SendPartData
    <2> QED
      BY <2>1, NowIs, TurnArithmetic, NAssumption
  <1>3. PICK k \in DOMAIN saleCount[q] \ sent[q] :
          /\ Send(q, [head |-> "partData", key |-> k, count |-> saleCount[q][k]])
          /\ sent' = [sent EXCEPT ![q] = @ \cup {k}]
    BY DEF SendPartData
  <1>4. UNCHANGED <<pc, finish_index, step, saleCount, has_notify, notifying>>
    BY DEF SendPartData, mainVars, serverVars
  <1>5. PICK e : e = [head |-> "partData", key |-> k, count |-> saleCount[q][k]]
    OBVIOUS
  <1>6. e.key = k /\ e.count = saleCount[q][k] /\ IsCount(e) /\ ~ IsToken(e)
    BY <1>5 DEF IsCount, IsToken
  <1>7. PICK p \in Procs : p = Down(q)
    BY RingArithmetic
  <1>8. Up(p) = q /\ p # q /\ \A r \in Procs : Up(r) = q => r = p
    BY <1>7, TurnArithmetic, RingArithmetic
  <1>9. wire' = [wire EXCEPT ![p] = Append(@, e)]
    <2>1. q \notin closed
      <3>1. finish_index[q] \in 2..N
        BY DEF SendPartData
      <3> QED
        BY <1>1, <3>1, NAssumption DEF ClosedLast
    <2> QED
      BY <1>3, <1>5, <1>7, <2>1 DEF Send
  <1>10. /\ sent'[q] = sent[q] \cup {k}
         /\ \A r \in Procs \ {q} : sent'[r] = sent[r]
    BY <1>1, <1>3 DEF CountsInv
  <1>11. PICK last : last = Len(wire[p]) + 1
    OBVIOUS
  <1>12. /\ Len(wire[p]) \in Nat /\ last \in Nat /\ Len(wire'[p]) = last
         /\ wire'[p][last] = e
         /\ \A i \in 1..Len(wire[p]) : wire'[p][i] = wire[p][i]
         /\ \A r \in Procs \ {p} : wire'[r] = wire[r]
    BY <1>1, <1>9, <1>11, AppendElements, StreamLengths DEF Streams
  <1>13. \A j, r, s, i : NotOvertaken(e, j, r, s, i, p, last)
    BY <1>6 DEF NotOvertaken
  <1>14. \A r \in Procs : Kept(r, 0) /\ (NoNewCount(r, 0) \/ r = p)
    BY <1>1, <1>4, <1>9, <1>11, <1>13, AnnouncedQuiet, KeptSend
  <1>15. InTime(p, last)'
    <2>1. /\ Clear(wire, Turn(q), q, p, last)
          /\ \A r \in Procs : ~ Announced(r, Turn(q))
      BY <1>2, TurnClear
    <2>2. PICK S : wire \in [Procs -> Seq(S)]
      BY <1>1 DEF Streams
    <2>5. NotOvertaken(e, Turn(q), q, p, last, p, Len(wire[p]) + 1)
      BY <1>11, <1>13
    <2>3. Clear([wire EXCEPT ![p] = Append(@, e)], Turn(q), q, p, last)
      BY <1>12, <2>1, <2>2, <2>5, ClearSend
    <2>4. \A r \in Procs : ~ Announced(r, Turn(q))'
      BY <1>2, <1>4, <2>1, AnnouncedQuiet
    <2> QED
      BY <1>8, <1>9, <2>3, <2>4 DEF InTime
  <1>16. ASSUME NEW r \in Procs \ {p}
         PROVE  /\ CountsOn(r)'
                /\ \A j : OnTheWay(r, j)' <=> OnTheWay(r, j)
    <2>1. Len(wire[r]) \in Nat /\ wire'[r] = wire[r] /\ Up(r) \in Procs \ {q}
      BY <1>1, <1>8, <1>12, StreamLengths, TurnArithmetic
    <2>2. CountsOn(r)'
      BY <1>4, <1>10, <1>14, <2>1, CountsMoved DEF ChainInv, CountsPlaced
    <2> QED
      BY <2>1, <2>2 DEF OnTheWay
  <1>17. \A i \in 1..Len(wire'[p]) : i = last \/ i \in 1..Len(wire[p])
    BY <1>11, <1>12
  <1>18. \A j : OnTheWay(p, j)' <=> OnTheWay(p, j) \/ j = k
    <2> SUFFICES ASSUME NEW j PROVE OnTheWay(p, j)' <=> OnTheWay(p, j) \/ j = k
      OBVIOUS
    <2>1. OnTheWay(p, j)' <=> \E i \in 1..Len(wire'[p]) :
                                IsCount(wire'[p][i]) /\ wire'[p][i].key = j
      BY DEF OnTheWay, IsCount
    <2>2. last \in 1..Len(wire'[p])
          /\ \A i \in 1..Len(wire[p]) : i \in 1..Len(wire'[p])
      BY <1>11, <1>12
    <2> QED
      BY <1>6, <1>12, <1>17, <2>1, <2>2 DEF OnTheWay
  <1>19. CountsOn(p)'
    <2>1. CountsOn(p)
      BY DEF ChainInv, CountsPlaced
    <2>2. \A i \in 1..Len(wire[p]) : IsCount(wire[p][i]) => wire[p][i].key # k
      BY <1>3, <1>8, <2>1 DEF CountsOn
    <2>3. ASSUME NEW i \in 1..Len(wire'[p]), IsCount(wire'[p][i])
          PROVE  /\ wire'[p][i].key \in sent'[Up(p)]
                 /\ wire'[p][i].count = saleCount'[Up(p)][wire'[p][i].key]
                 /\ \A j \in 1..Len(wire'[p]) :
                      IsCount(wire'[p][j]) /\ wire'[p][j].key = wire'[p][i].key
                      => j = i
                 /\ InTime(p, i)'
      <3>1. CASE i = last
        <4>1. \A j \in 1..Len(wire'[p]) :
                IsCount(wire'[p][j]) /\ wire'[p][j].key = k => j = last
          BY <1>12, <1>17, <2>2
        <4> QED
          BY <1>4, <1>6, <1>8, <1>10, <1>12, <1>15, <3>1, <4>1
      <3>2. CASE i \in 1..Len(wire[p])
        <4>1. wire'[p][i] = wire[p][i] /\ IsCount(wire[p][i])
          BY <1>12, <2>3, <3>2
        <4>2. /\ wire[p][i].key \in sent[q]
              /\ wire[p][i].count = saleCount[q][wire[p][i].key]
              /\ InTime(p, i)
          BY <1>8, <2>1, <3>2, <4>1 DEF CountsOn
        <4>3. InTime(p, i)'
          <5>1. i > 0 /\ i - 0 = i
            BY <1>12, <3>2
          <5> QED
            BY <1>14, <3>2, <4>2, <5>1 DEF Kept
        <4>4. ASSUME NEW j \in 1..Len(wire'[p]), IsCount(wire'[p][j]),
                     wire'[p][j].key = wire'[p][i].key
              PROVE  j = i
          <5>1. j # last
            BY <1>6, <1>12, <2>2, <3>2, <4>1, <4>4
          <5>2. j \in 1..Len(wire[p]) /\ wire'[p][j] = wire[p][j]
            BY <1>12, <1>17, <5>1
          <5> QED
            BY <2>1, <3>2, <4>1, <4>4, <5>2 DEF CountsOn
        <4> QED
          BY <1>4, <1>8, <1>10, <4>1, <4>2, <4>3, <4>4
      <3> QED
        BY <1>17, <3>1, <3>2
    <2> QED
      BY <2>3 DEF CountsOn, IsCount
  <1>20. CountsPlaced'
    BY <1>16, <1>19 DEF CountsPlaced
  <1>21. SentInTurn'
    BY <1>2, <1>4, <1>10 DEF ChainInv, SentInTurn
  <1>22. CountsAdd'
    <2> SUFFICES ASSUME NEW r \in Procs PROVE CountsAre(r)'
      BY DEF CountsAdd
    <2>1. Came(r)' = Came(r)
      <3>1. CASE r = p
        BY <1>3, <1>8, <1>10, <1>18, <3>1 DEF Came
      <3>2. CASE r # p
        BY <1>8, <1>10, <1>16, <3>2, TurnArithmetic DEF Came
      <3> QED
        BY <3>1, <3>2
    <2>2. Counted(r)' = Counted(r)
      BY <1>4 DEF Counted, InPhase
    <2> QED
      BY <1>4, <2>1, <2>2 DEF ChainInv, CountsAdd, CountsAre
  <1> QED
    BY <1>20, <1>21, <1>22 DEF ChainInv

\* An instance reads a count.
LEMMA ReceivePartDataChain ==
  ASSUME Inv, ChainInv, NEW p \in Procs, ReceivePartData(p)
  PROVE  ChainInv'
  <1> DEFINE c == Counted(p)
             u == Up(p)
  <1>1. ControlType /\ CountsInv /\ Streams
    BY DEF Inv, ControlInv
  <1>2. PICK m : m = Head(wire[p])
    OBVIOUS
  <1>3. /\ wire[p] # << >> /\ IsCount(m)
        /\ wire' = [wire EXCEPT ![p] = Tail(@)]
        /\ saleCount' = [saleCount EXCEPT ![p] = Merged(@, m.key, m.count)]
        /\ UNCHANGED <<pc, finish_index, step, sent, has_notify, notifying>>
    BY <1>2 DEF ReceivePartData, Reads, Ring!Receives, Consume, IsCount,
                mainVars, serverVars
  <1>4. /\ 1 \in 1..Len(wire[p]) /\ m = wire[p][1]
        /\ \A r \in Procs : Len(wire[r]) \in Nat
    BY <1>1, <1>2, <1>3, TailElements, StreamLengths DEF Streams
  <1>5. PICK key : key = m.key
    OBVIOUS
  <1>6. u \in Procs /\ u # p
    BY TurnArithmetic
  <1>7. /\ key \in sent[u] /\ m.count = saleCount[u][key]
        /\ \A j \in 1..Len(wire[p]) :
             IsCount(wire[p][j]) /\ wire[p][j].key = key => j = 1
    BY <1>3, <1>4, <1>5 DEF ChainInv, CountsPlaced, CountsOn
  <1>8. key \in DOMAIN saleCount[u] /\ m.count \in Nat
    BY <1>1, <1>6, <1>7 DEF CountsInv
  <1>9. finish_index[p] < Turn(p) /\ sent[p] = {}
    BY <1>3, <1>4, CountsEarly DEF ChainInv
  <1>10. /\ saleCount'[p] = Merged(saleCount[p], key, m.count)
         /\ \A q \in Procs \ {p} : saleCount'[q] = saleCount[q]
    BY <1>1, <1>3, <1>5 DEF CountsInv
  <1>11. \A q \in Procs : Counted(q)' = Counted(q)
    BY <1>3 DEF Counted, InPhase
  <1>12. ASSUME NEW q \in Procs, NEW d \in {0, 1}, d = IF q = p THEN 1 ELSE 0
         PROVE  /\ CountsOn(q)'
                /\ \A k : OnTheWay(q, k)' <=>
                     \E i \in 1..Len(wire[q]) :
                       i > d /\ IsCount(wire[q][i]) /\ wire[q][i].key = k
    <2>1. Kept(q, d) /\ NoNewCount(q, d)
      BY <1>1, <1>3, <1>12, AnnouncedQuiet, KeptRead
    <2>2. \A k \in sent[Up(q)] : saleCount'[Up(q)][k] = saleCount[Up(q)][k]
      BY <1>9, <1>10, TurnArithmetic
    <2>3. Len(wire[q]) \in Nat /\ Len(wire'[q]) \in Nat
      <3>1. Next
        BY DEF Next, Serve
      <3> QED
        BY <1>4, <3>1, NextStreams, StreamLengths DEF Streams
    <2> QED
      BY <1>3, <2>1, <2>2, <2>3, CountsMoved DEF ChainInv, CountsPlaced
  <1>13. CountsPlaced'
    <2> SUFFICES ASSUME NEW q \in Procs PROVE CountsOn(q)'
      BY DEF CountsPlaced
    <2>1. PICK d \in {0, 1} : d = IF q = p THEN 1 ELSE 0
      OBVIOUS
    <2> QED
      BY <1>12, <2>1
  <1>14. \A q \in Procs \ {p} : \A k : OnTheWay(q, k)' <=> OnTheWay(q, k)
    <2> SUFFICES ASSUME NEW q \in Procs \ {p}, NEW k
                 PROVE  OnTheWay(q, k)' <=> OnTheWay(q, k)
      OBVIOUS
    <2>1. OnTheWay(q, k)' <=>
            \E i \in 1..Len(wire[q]) :
              i > 0 /\ IsCount(wire[q][i]) /\ wire[q][i].key = k
      BY <1>12
    <2>2. \A i \in 1..Len(wire[q]) : i > 0
      BY <1>4
    <2> QED
      BY <2>1, <2>2 DEF OnTheWay
  <1>15. \A k : OnTheWay(p, k)' <=> OnTheWay(p, k) /\ k # key
    <2> SUFFICES ASSUME NEW k
                 PROVE  OnTheWay(p, k)' <=> OnTheWay(p, k) /\ k # key
      OBVIOUS
    <2>1. OnTheWay(p, k)' <=>
            \E i \in 1..Len(wire[p]) :
              i > 1 /\ IsCount(wire[p][i]) /\ wire[p][i].key = k
      BY <1>12
    <2>2. \A i \in 1..Len(wire[p]) : i > 1 \/ i = 1
      BY <1>4
    <2>3. \A i \in 1..Len(wire[p]) :
            i > 1 /\ IsCount(wire[p][i]) => wire[p][i].key # key
      BY <1>4, <1>7
    <2>4. wire[p][1].key = key
      BY <1>4, <1>5
    <2> QED
      BY <2>1, <2>2, <2>3, <2>4 DEF OnTheWay
  <1>16. /\ Came(p)' = Came(p) \cup {key} /\ key \notin Came(p)
         /\ \A q \in Procs \ {p} : Came(q)' = Came(q)
    <2>1. OnTheWay(p, key)
      BY <1>3, <1>4, <1>5 DEF OnTheWay
    <2> QED
      BY <1>3, <1>7, <1>14, <1>15, <2>1 DEF Came
  <1>17. SentInTurn'
    <2>1. \A q \in Procs : q # p => saleCount'[q] = saleCount[q]
      BY <1>10
    <2>2. Turn(p) \in Nat /\ finish_index[p] \in Nat
      BY <1>1, TurnArithmetic, NAssumption DEF ControlType
    <2>3. ~ (finish_index[p] >= Turn(p)) /\ ~ (finish_index[p] > Turn(p))
      BY <1>9, <2>2
    <2> QED
      BY <1>3, <1>9, <2>1, <2>3 DEF ChainInv, SentInTurn
  <1>18. ASSUME NEW q \in Procs \ {p} PROVE CountsAre(q)'
    <2>1. \A k \in Came(q) : saleCount'[Up(q)][k] = saleCount[Up(q)][k]
      BY <1>9, <1>10, TurnArithmetic DEF Came
    <2>2. CountsAre(q) /\ saleCount'[q] = saleCount[q]
      BY <1>10 DEF ChainInv, CountsAdd
    <2> QED
      BY <1>11, <1>16, <2>1, <2>2 DEF CountsAre
  <1>19. CountsAre(p)'
    <2>1. CountsAre(p) /\ CountsAre(u)
      BY <1>6 DEF ChainInv, CountsAdd
    <2>2. key = <<key[2], key[2]>>
      BY <1>8, <2>1 DEF CountsAre
    <2>3. /\ DOMAIN saleCount'[p] = DOMAIN saleCount[p] \cup {key}
          /\ saleCount'[p][key] = m.count
               + (IF key \in DOMAIN saleCount[p] THEN saleCount[p][key] ELSE 0)
          /\ \A k \in DOMAIN saleCount[p] \ {key} :
               saleCount'[p][k] = saleCount[p][k]
      <3>1. PICK f : f = saleCount[p]
        OBVIOUS
      <3>2. PICK n : n = m.count
        OBVIOUS
      <3>3. saleCount'[p] = Merged(f, key, n)
        BY <1>10, <3>1, <3>2
      <3>4. /\ DOMAIN Merged(f, key, n) = DOMAIN f \cup {key}
            /\ Merged(f, key, n)[key] = n + (IF key \in DOMAIN f THEN f[key] ELSE 0)
            /\ \A k \in DOMAIN f \ {key} : Merged(f, key, n)[k] = f[k]
        BY DEF Merged, WithEntry
      <3> QED
        BY <3>1, <3>2, <3>3, <3>4
    <2>4. DOMAIN saleCount'[p] = OwnKeys(p, c) \cup Came(p)'
      BY <1>16, <2>1, <2>3 DEF CountsAre
    <2>5. saleCount'[u] = saleCount[u]
      BY <1>6, <1>10
    <2>6. ASSUME NEW k \in DOMAIN saleCount'[p]
          PROVE  /\ k = <<k[2], k[2]>>
                 /\ saleCount'[p][k] = Sales(p, c, k[2])
                      + IF k \in Came(p)' THEN saleCount[u][k] ELSE 0
      <3>1. CASE k # key
        <4>1. k \in DOMAIN saleCount[p] /\ saleCount'[p][k] = saleCount[p][k]
          BY <2>3, <3>1
        <4>2. k \in Came(p)' <=> k \in Came(p)
          BY <1>16, <3>1
        <4> QED
          BY <2>1, <4>1, <4>2 DEF CountsAre
      <3>2. CASE k = key
        <4>1. k \in Came(p)' /\ k \notin Came(p)
          BY <1>16, <3>2
        <4>2. Sales(p, c, k[2]) \in Nat
          BY SalesType
        <4>3. CASE key \in DOMAIN saleCount[p]
          <5>1. saleCount[p][key] = Sales(p, c, key[2]) + 0
            BY <1>16, <2>1, <4>3 DEF CountsAre
          <5>2. saleCount'[p][key] = m.count + saleCount[p][key]
            BY <2>3, <4>3
          <5> QED
            BY <1>7, <1>8, <2>2, <3>2, <4>1, <4>2, <5>1, <5>2
        <4>4. CASE key \notin DOMAIN saleCount[p]
          <5>1. key \notin OwnKeys(p, c)
            BY <2>1, <4>4 DEF CountsAre
          <5>2. Sales(p, c, key[2]) = 0
            BY <2>2, <5>1, SalesNone
          <5>3. saleCount'[p][key] = m.count + 0
            BY <2>3, <4>4
          <5> QED
            BY <1>7, <1>8, <2>2, <3>2, <4>1, <5>2, <5>3
        <4> QED
          BY <4>3, <4>4
      <3> QED
        BY <3>1, <3>2
    <2> QED
      BY <1>11, <2>4, <2>5, <2>6 DEF CountsAre
  <1> QED
    BY <1>13, <1>17, <1>18, <1>19 DEF ChainInv, CountsAdd

\* A main thread enters or leaves a barrier.
LEMMA BarrierChain ==
  ASSUME Inv, SentInTurn, UNCHANGED <<saleCount, sent>>,
         NEW p \in Procs, EnterBarrier(p) \/ LeaveBarrier(p)
  PROVE  SentInTurn' /\ \A q \in Procs : Counted(q)' = Counted(q)
  <1>1. ControlType
    BY DEF Inv, ControlInv
  <1>2. Turn(p) \in 2..N + 1 /\ (Turn(p) = N + 1 <=> p = select_idx)
    BY TurnArithmetic
  <1>3. CASE EnterBarrier(p)
    <2>1. /\ pc[p] = "run" /\ pc' = [pc EXCEPT ![p] = "entered"]
          /\ UNCHANGED <<finish_index, step>> /\ PhaseDone(p)
      BY <1>3 DEF EnterBarrier, Ring!EnterBarrier, advancedVars
    <2>2. p # select_idx /\ finish_index[p] = Turn(p) =>
            sent[p] = DOMAIN saleCount[p]
      <3>1. SUFFICES ASSUME p # select_idx, finish_index[p] = Turn(p)
                     PROVE  sent[p] = DOMAIN saleCount[p]
        OBVIOUS
      <3>2. Turn(p) \in 2..N /\ Turn(p) # 0 /\ Turn(p) # 1
        BY <1>2, <3>1, NAssumption
      <3>3. Now(Turn(p)) = p
        BY <3>2, NowIs
      <3> QED
        BY <2>1, <3>1, <3>2, <3>3 DEF PhaseDone
    <2>3. SentInTurn'
      BY <1>1, <2>1, <2>2 DEF SentInTurn, ControlType
    <2>4. finish_index[p] = 1 => step[p] = Len(Orders[p]) + 1
      BY <2>1 DEF PhaseDone
    <2>5. \A q \in Procs : Counted(q)' = Counted(q)
      BY <1>1, <2>1, <2>4, OwnOrder DEF Counted, InPhase, ControlType
    <2> QED
      BY <2>3, <2>5
  <1>4. CASE LeaveBarrier(p)
    <2>1. /\ pc[p] = "woken" /\ pc' = [pc EXCEPT ![p] = "run"]
          /\ finish_index' = [finish_index EXCEPT ![p] = @ + 1]
          /\ step' = [step EXCEPT ![p] = 0]
      BY <1>4 DEF LeaveBarrier, Ring!LeaveBarrier
    <2>2. SentInTurn'
      BY <1>1, <1>2, <2>1 DEF SentInTurn, ControlType
    <2>3. \A q \in Procs : Counted(q)' = Counted(q)
      BY <1>1, <2>1, OwnOrder DEF Counted, InPhase, ControlType
    <2> QED
      BY <2>2, <2>3
  <1> QED
    BY <1>3, <1>4

LEMMA InitChain == Init => ChainInv
  <1> SUFFICES ASSUME Init PROVE ChainInv
    OBVIOUS
  <1>1. /\ wire = [p \in Procs |-> << >>]
        /\ finish_index = [p \in Procs |-> 0]
        /\ pc = [p \in Procs |-> "run"]
        /\ sent = [p \in Procs |-> {}] /\ saleCount = [p \in Procs |-> << >>]
    BY DEF Init, Ring!Init, Procs
  <1>2. \A p \in Procs : Up(p) \in Procs /\ Turn(p) \in 2..N + 1
    BY TurnArithmetic
  <1>3. CountsPlaced
    BY <1>1 DEF CountsPlaced, CountsOn
  <1>4. SentInTurn
    BY <1>1, <1>2, NAssumption DEF SentInTurn
  <1>5. ASSUME NEW p \in Procs PROVE CountsAre(p)
    <2>1. Counted(p) = 0 /\ Came(p) = {}
      BY <1>1, <1>2 DEF Counted, Came
    <2>2. OwnKeys(p, 0) = {}
      BY DEF OwnKeys
    <2>3. DOMAIN saleCount[p] = {}
      BY <1>1
    <2> QED
      BY <2>1, <2>2, <2>3 DEF CountsAre
  <1> QED
    BY <1>3, <1>4, <1>5 DEF ChainInv, CountsAdd

LEMMA NextChain == Inv /\ ChainInv /\ [Next]_vars => ChainInv'
  <1> SUFFICES ASSUME Inv, ChainInv, [Next]_vars PROVE ChainInv'
    OBVIOUS
  <1>1. ASSUME NEW p \in Procs, SolveOrder(p) PROVE ChainInv'
    BY <1>1, SolveOrderChain
  <1>2. ASSUME NEW p \in Procs, SendPartData(p) PROVE ChainInv'
    BY <1>2, SendPartDataChain
  <1>3. ASSUME NEW p \in Procs, ReceivePartData(p) PROVE ChainInv'
    BY <1>3, ReceivePartDataChain
  <1>4. CASE \A q \in Procs : /\ ~ SendPartData(q) /\ ~ ReceivePartData(q)
                              /\ ~ SolveOrder(q)
    <2>1. /\ UNCHANGED <<saleCount, sent>> /\ CountsPlaced'
          /\ \A p \in Procs : \A k : OnTheWay(p, k)' <=> OnTheWay(p, k)
      BY <1>4, QuietChain
    <2>2. SentInTurn' /\ \A p \in Procs : Counted(p)' = Counted(p)
      <3>1. ASSUME NEW q \in Procs, EnterBarrier(q) \/ LeaveBarrier(q)
            PROVE  SentInTurn' /\ \A p \in Procs : Counted(p)' = Counted(p)
        BY <2>1, <3>1, BarrierChain DEF ChainInv
      <3>2. ASSUME UNCHANGED finish_index,
                   \A p \in Procs : pc'[p] = "run" <=> pc[p] = "run",
                   \A p \in Procs : finish_index[p] = 1 =>
                     step'[p] = step[p] \/ (step[p] = 0 /\ step'[p] = 1)
            PROVE  SentInTurn' /\ \A p \in Procs : Counted(p)' = Counted(p)
        <4>1. SentInTurn'
          BY <2>1, <3>2, QuietControl DEF ChainInv
        <4>2. ASSUME NEW p \in Procs PROVE Counted(p)' = Counted(p)
          BY <3>2 DEF Counted, InPhase
        <4> QED
          BY <4>1, <4>2
      <3>3. UNCHANGED <<pc, finish_index, step>>
            => SentInTurn' /\ \A p \in Procs : Counted(p)' = Counted(p)
        BY <3>2
      <3>4. ASSUME NEW q \in Procs,
                   ReadSize(q) \/ SendPart(q) \/ SetPartCount(q)
                   \/ CalculateUnderSale(q)
            PROVE  SentInTurn' /\ \A p \in Procs : Counted(p)' = Counted(p)
        <4>1. ControlType
          BY DEF Inv, ControlInv
        <4>2. /\ UNCHANGED <<pc, finish_index>>
              /\ step' = [step EXCEPT ![q] = @ + 1]
              /\ finish_index[q] = 1 => step[q] = 0
          <5>1. finish_index[q] # 1 \/ step[q] = 0
            <6>1. CASE ReadSize(q) \/ SendPart(q) \/ SetPartCount(q)
              BY <6>1 DEF ReadSize, SendPart, SetPartCount, InPhase
            <6>2. CASE CalculateUnderSale(q)
              <7>1. finish_index[q] = N + 2
                BY <6>2 DEF CalculateUnderSale, InPhase
              <7> QED
                BY <7>1, NAssumption
            <6> QED
              BY <3>4, <6>1, <6>2
          <5>2. CASE ReadSize(q) \/ SendPart(q)
            BY <5>1, <5>2 DEF ReadSize, SendPart, Advance, mainVars
          <5>3. CASE SetPartCount(q) \/ CalculateUnderSale(q)
            BY <5>1, <5>3 DEF SetPartCount, CalculateUnderSale, Advance, mainVars
          <5> QED
            BY <3>4, <5>2, <5>3
        <4> QED
          BY <3>2, <4>1, <4>2 DEF ControlType
      <3>5. ASSUME NEW q \in Procs, Ring!SendFinish(q) \/ Ring!Wait(q),
                   UNCHANGED advancedVars
            PROVE  SentInTurn' /\ \A p \in Procs : Counted(p)' = Counted(p)
        <4>1. ControlType
          BY DEF Inv, ControlInv
        <4>2. /\ UNCHANGED <<finish_index, step>>
              /\ pc[q] # "run"
              /\ \E v : v # "run" /\ pc' = [pc EXCEPT ![q] = v]
          BY <3>5 DEF Ring!SendFinish, Ring!Wait, Ring!mainVars, advancedVars
        <4> QED
          BY <3>2, <4>1, <4>2 DEF ControlType
      <3>6. ASSUME NEW q \in Procs, Ring!Notify(q), UNCHANGED advancedVars
            PROVE  SentInTurn' /\ \A p \in Procs : Counted(p)' = Counted(p)
        <4>1. ControlType
          BY DEF Inv, ControlInv
        <4>2. /\ UNCHANGED <<finish_index, step>>
              /\ \/ UNCHANGED pc
                 \/ pc[q] = "wait" /\ pc' = [pc EXCEPT ![q] = "woken"]
          BY <3>6 DEF Ring!Notify, advancedVars
        <4> QED
          BY <3>2, <4>1, <4>2 DEF ControlType
      <3>7. ASSUME NEW q \in Procs,
                   Close(q) \/ ReceiveFinish(q) \/ ReceivePart(q) \/ Forward(q)
            PROVE  UNCHANGED <<pc, finish_index, step>>
        BY <3>7 DEF Close, ReceiveFinish, ReceivePart, Forward, mainVars,
                    Ring!HandleFinish, Ring!DropToken, Ring!PassToken,
                    Ring!CompleteToken, Ring!mainVars, advancedVars
      <3>8. CASE UNCHANGED vars
        BY <3>3, <3>8 DEF vars, Ring!vars, advancedVars
      <3>9. CASE Next
        BY <1>4, <3>1, <3>3, <3>4, <3>5, <3>6, <3>7, <3>9
        DEF Next, Calculate, Synchronise, Serve
      <3> QED
        BY <3>8, <3>9
    <2>3. CountsAdd'
      BY <2>1, <2>2, CountsQuiet DEF ChainInv, CountsAdd
    <2> QED
      BY <2>1, <2>2, <2>3 DEF ChainInv
  <1> QED
    BY <1>1, <1>2, <1>3, <1>4

\* The counts are functions.
CountsMap ==
  \A p \in Procs : saleCount[p] = [k \in DOMAIN saleCount[p] |-> saleCount[p][k]]

LEMMA InitMap == Init => CountsMap
  <1> SUFFICES ASSUME Init, NEW p \in Procs
               PROVE  saleCount[p] = [k \in DOMAIN saleCount[p] |-> saleCount[p][k]]
    BY DEF CountsMap
  <1>1. saleCount[p] = << >>
    BY DEF Init
  <1> QED
    BY <1>1

LEMMA NextMap == Inv /\ CountsMap /\ [Next]_vars => CountsMap'
  <1> SUFFICES ASSUME Inv, CountsMap, [Next]_vars PROVE CountsMap'
    OBVIOUS
  <1>1. CASE UNCHANGED saleCount
    BY <1>1 DEF CountsMap
  <1>2. ASSUME NEW p \in Procs, NEW k, NEW n,
               saleCount' = [saleCount EXCEPT ![p] = Merged(@, k, n)]
        PROVE  CountsMap'
    <2>1. /\ saleCount'[p] = Merged(saleCount[p], k, n)
          /\ \A q \in Procs \ {p} : saleCount'[q] = saleCount[q]
      BY <1>2 DEF Inv, CountsInv
    <2>2. PICK f : f = saleCount[p]
      OBVIOUS
    <2>3. PICK g : g = Merged(f, k, n)
      OBVIOUS
    <2>4. g = [j \in DOMAIN g |-> g[j]]
      BY <2>3 DEF Merged, WithEntry
    <2>5. saleCount'[p] = g
      BY <2>1, <2>2, <2>3
    <2>6. ASSUME NEW q \in Procs
          PROVE  saleCount'[q] = [j \in DOMAIN saleCount'[q] |-> saleCount'[q][j]]
      <3>1. CASE q = p
        BY <2>4, <2>5, <3>1
      <3>2. CASE q # p
        BY <2>1, <3>2 DEF CountsMap
      <3> QED
        BY <3>1, <3>2
    <2> QED
      BY <2>6 DEF CountsMap
  <1>3. ASSUME NEW p \in Procs, SolveOrder(p) PROVE CountsMap'
    <2>1. PICK k, n : saleCount' = [saleCount EXCEPT ![p] = Merged(@, k, n)]
      BY <1>3 DEF SolveOrder
    <2> QED
      BY <1>2, <2>1
  <1>4. ASSUME NEW p \in Procs, ReceivePartData(p) PROVE CountsMap'
    <2>1. PICK k, n : saleCount' = [saleCount EXCEPT ![p] = Merged(@, k, n)]
      BY <1>4 DEF ReceivePartData
    <2> QED
      BY <1>2, <2>1
  <1>5. \/ UNCHANGED saleCount
        \/ \E p \in Procs : SolveOrder(p) \/ ReceivePartData(p)
    BY DEF Next, Calculate, Synchronise, Serve, ReadSize, SendPart, SetPartCount,
           SendPartData, CalculateUnderSale, Close, EnterBarrier, LeaveBarrier,
           ReceiveFinish, ReceivePart, Forward, vars, advancedVars, countVars
  <1> QED
    BY <1>1, <1>3, <1>4, <1>5

LEMMA AlwaysChain == Spec => [](Inv /\ ChainInv /\ CountsMap)
  <1>1. Init => Inv /\ ChainInv /\ CountsMap
    BY InitInv, InitChain, InitMap
  <1>2. Inv /\ ChainInv /\ CountsMap /\ [Next]_vars
        => (Inv /\ ChainInv /\ CountsMap)'
    BY NextInv, NextChain, NextMap
  <1> QED
    BY <1>1, <1>2, PTL DEF Spec

-------------------------------------------------------------------------------
(***************************************************************************)
(* The sums the counts come to.                                            *)
(***************************************************************************)

\* What the orders of the instances in S come to, for a part.
Share(S, key) == Total([p \in 1..N |-> IF p \in S THEN Ordered(p, key) ELSE 0])

LEMMA OrderedIs ==
  ASSUME NEW p \in Procs, NEW key
  PROVE  /\ Sales(p, Len(Orders[p]), key) = Ordered(p, key)
         /\ Ordered(p, key) \in Nat
         /\ <<key, key>> \notin OwnKeys(p, Len(Orders[p])) => Ordered(p, key) = 0
  <1>1. Len(Orders[p]) \in Nat /\ DOMAIN Orders[p] = 1..Len(Orders[p])
    BY OwnOrder
  <1>2. [i \in DOMAIN Orders[p] |->
           IF i <= Len(Orders[p]) /\ Orders[p][i].lPartkey = key
             THEN Orders[p][i].lQuantity ELSE 0]
        = [i \in DOMAIN Orders[p] |->
             IF Orders[p][i].lPartkey = key THEN Orders[p][i].lQuantity ELSE 0]
    BY <1>1
  <1>3. Sales(p, Len(Orders[p]), key) = Ordered(p, key)
    BY <1>2 DEF Sales, Ordered
  <1> QED
    BY <1>3, SalesType, SalesNone

LEMMA ShareSeq ==
  ASSUME NEW S, NEW key
  PROVE  /\ [p \in 1..N |-> IF p \in S THEN Ordered(p, key) ELSE 0] \in Seq(Nat)
         /\ Len([p \in 1..N |-> IF p \in S THEN Ordered(p, key) ELSE 0]) = N
  <1>1. \A p \in 1..N : Ordered(p, key) \in Nat
    BY OrderedIs DEF Procs, Ring!Procs
  <1> QED
    BY <1>1, NAssumption

LEMMA ShareAdd ==
  ASSUME NEW S, NEW p \in Procs, p \notin S, NEW key
  PROVE  /\ Share(S \cup {p}, key) = Share(S, key) + Ordered(p, key)
         /\ Share(S, key) \in Nat
  <1> DEFINE F(T) == [q \in 1..N |-> IF q \in T THEN Ordered(q, key) ELSE 0]
  <1>1. PICK s : s = F(S)
    OBVIOUS
  <1>2. PICK t : t = F(S \cup {p})
    OBVIOUS
  <1>3. s \in Seq(Nat) /\ t \in Seq(Nat) /\ Len(s) = N /\ Len(t) = N
    BY <1>1, <1>2, ShareSeq
  <1>4. p \in 1..N
    BY DEF Procs, Ring!Procs
  <1>5. s[p] = 0 /\ t[p] = Ordered(p, key) /\ \A q \in 1..N : q # p => t[q] = s[q]
    BY <1>1, <1>2, <1>4
  <1>6. s \in Seq(Int) /\ t \in Seq(Int)
    BY <1>3
  <1>7. Total(t) = Total(s) - s[p] + t[p]
    BY <1>3, <1>4, <1>5, <1>6, TotalReplaced
  <1>8. Total(s) \in Nat /\ Ordered(p, key) \in Nat
    BY <1>3, TotalNat, OrderedIs
  <1>9. Share(S, key) = Total(s) /\ Share(S \cup {p}, key) = Total(t)
    BY <1>1, <1>2 DEF Share
  <1> QED
    BY <1>5, <1>7, <1>8, <1>9

LEMMA ShareNone ==
  ASSUME NEW S, NEW key,
         \A p \in Procs \cap S : <<key, key>> \notin OwnKeys(p, Len(Orders[p]))
  PROVE  Share(S, key) = 0
  <1>1. PICK s : s = [p \in 1..N |-> IF p \in S THEN Ordered(p, key) ELSE 0]
    OBVIOUS
  <1>2. s \in Seq(Int) /\ Len(s) = N
    <2>1. s \in Seq(Nat) /\ Len(s) = N
      BY <1>1, ShareSeq
    <2> QED
      BY <2>1
  <1>3. \A p \in 1..N : s[p] = 0
    BY <1>1, OrderedIs DEF Procs, Ring!Procs
  <1>4. Total(s) = 0
    BY <1>2, <1>3, TotalZero
  <1> QED
    BY <1>1, <1>4 DEF Share

\* The parts some instances have orders of.
LEMMA SumOfIs ==
  ASSUME NEW S \in SUBSET Procs
  PROVE  /\ SumOf(S) = [k \in DOMAIN SumOf(S) |-> Share(S, k[2])]
         /\ \A k : k \in DOMAIN SumOf(S) <=>
                     \E p \in S : k \in OwnKeys(p, Len(Orders[p]))
  <1>1. \A p \in S : Range(Orders[p]) = {Orders[p][i] : i \in 1..Len(Orders[p])}
    BY OwnOrder DEF Range
  <1>2. DOMAIN SumOf(S) = {<<o.lPartkey, o.lPartkey>> :
                             o \in UNION {Range(Orders[p]) : p \in S}}
    BY DEF SumOf
  <1>3. ASSUME NEW k
        PROVE  k \in DOMAIN SumOf(S) <=>
                 \E p \in S : k \in OwnKeys(p, Len(Orders[p]))
    <2>1. k \in DOMAIN SumOf(S) <=>
            \E p \in S : \E o \in Range(Orders[p]) : k = <<o.lPartkey, o.lPartkey>>
      BY <1>2
    <2>2. ASSUME NEW p \in S
          PROVE  (\E o \in Range(Orders[p]) : k = <<o.lPartkey, o.lPartkey>>)
                 <=> k \in OwnKeys(p, Len(Orders[p]))
      <3>1. k \in OwnKeys(p, Len(Orders[p])) <=>
              \E i \in 1..Len(Orders[p]) :
                k = <<Orders[p][i].lPartkey, Orders[p][i].lPartkey>>
        BY DEF OwnKeys
      <3>2. \A o : o \in Range(Orders[p]) <=>
              \E i \in 1..Len(Orders[p]) : o = Orders[p][i]
        BY <1>1
      <3> QED
        BY <3>1, <3>2
    <2> QED
      BY <2>1, <2>2
  <1>4. SumOf(S) = [k \in DOMAIN SumOf(S) |-> Share(S, k[2])]
    BY DEF SumOf, Share
  <1> QED
    BY <1>3, <1>4

\* The counts f are the own ones of p and the sums over S.
AddsUp(f, S, p) ==
  /\ f = [k \in DOMAIN f |-> f[k]]
  /\ DOMAIN f = OwnKeys(p, Len(Orders[p])) \cup DOMAIN SumOf(S)
  /\ \A k \in DOMAIN f :
       /\ k = <<k[2], k[2]>>
       /\ f[k] = Ordered(p, k[2])
                 + IF k \in DOMAIN SumOf(S) THEN SumOf(S)[k] ELSE 0

\* Another instance is added.
LEMMA SumOfAdd ==
  ASSUME NEW S \in SUBSET Procs, NEW p \in Procs \ S, NEW f, AddsUp(f, S, p)
  PROVE  f = SumOf(S \cup {p})
  <1> USE DEF AddsUp
  <1>1. PICK T : T = S \cup {p}
    OBVIOUS
  <1>2. T \in SUBSET Procs
    BY <1>1
  <1>3. DOMAIN f = DOMAIN SumOf(T)
    <2>1. \A k : k \in DOMAIN SumOf(T) <=>
                   \E q \in T : k \in OwnKeys(q, Len(Orders[q]))
      BY <1>2, SumOfIs
    <2>2. \A k : k \in DOMAIN SumOf(S) <=>
                   \E q \in S : k \in OwnKeys(q, Len(Orders[q]))
      BY SumOfIs
    <2>3. \A k : k \in DOMAIN f <=> k \in DOMAIN SumOf(T)
      BY <1>1, <2>1, <2>2
    <2> QED
      BY <2>3
  <1>4. ASSUME NEW k \in DOMAIN f PROVE f[k] = Share(T, k[2])
    <2>1. /\ Share(T, k[2]) = Share(S, k[2]) + Ordered(p, k[2])
          /\ Share(S, k[2]) \in Nat /\ Ordered(p, k[2]) \in Nat
      <3>1. PICK j : j = k[2]
        OBVIOUS
      <3>2. p \in Procs /\ p \notin S
        OBVIOUS
      <3>3. /\ Share(S \cup {p}, j) = Share(S, j) + Ordered(p, j)
            /\ Share(S, j) \in Nat
        BY <3>2, ShareAdd
      <3>4. Ordered(p, j) \in Nat
        BY <3>2, OrderedIs
      <3> QED
        BY <1>1, <3>1, <3>3, <3>4
    <2>2. CASE k \in DOMAIN SumOf(S)
      <3>1. SumOf(S)[k] = Share(S, k[2])
        BY <2>2, SumOfIs
      <3> QED
        BY <2>1, <2>2, <3>1
    <2>3. CASE k \notin DOMAIN SumOf(S)
      <3>1. \A q \in S : k \notin OwnKeys(q, Len(Orders[q]))
        BY <2>3, SumOfIs
      <3>2. \A q \in Procs \cap S :
              <<k[2], k[2]>> \notin OwnKeys(q, Len(Orders[q]))
        BY <3>1
      <3>3. Share(S, k[2]) = 0
        BY <3>2, ShareNone
      <3> QED
        BY <2>1, <2>3, <3>3
    <2> QED
      BY <2>2, <2>3
  <1>5. SumOf(T) = [k \in DOMAIN SumOf(T) |-> Share(T, k[2])]
    BY <1>2, SumOfIs
  <1>6. f = [k \in DOMAIN f |-> Share(T, k[2])]
    BY <1>4
  <1> QED
    BY <1>1, <1>3, <1>5, <1>6

LEMMA SumOfNobody == DOMAIN SumOf({}) = {}
  BY SumOfIs

\* The instances before p in the order of the turns.
LEMMA UntilIs ==
  ASSUME NEW p \in Procs
  PROVE  /\ Up(p) = select_idx => Until(p) = {} \cup {p}
         /\ Up(p) # select_idx =>
              /\ Until(p) = Until(Up(p)) \cup {p}
              /\ p \notin Until(Up(p))
  <1>1. N \in Nat /\ N >= 2 /\ p \in 1..N /\ select_idx \in 1..N /\ Procs = 1..N
    BY NAssumption, SelectAssumption DEF Procs, Ring!Procs
  <1>2. \A q \in Procs : Turn(q) \in Nat /\ (Turn(q) = Turn(p) => q = p)
                         /\ Turn(q) >= 2
    BY <1>1, TurnIs
  <1>3. Up(p) \in Procs /\ Turn(Up(p)) \in Nat
    BY <1>2, TurnArithmetic
  <1>4. CASE Up(p) = select_idx
    <2>1. Turn(p) = 2
      BY <1>4, TurnArithmetic
    <2>2. \A q \in Procs : Turn(q) <= Turn(p) <=> q = p
      BY <1>2, <2>1
    <2> QED
      BY <1>4, <2>2 DEF Until
  <1>5. CASE Up(p) # select_idx
    <2>1. Turn(p) = Turn(Up(p)) + 1
      BY <1>5, TurnArithmetic
    <2>2. \A q \in Procs : Turn(q) <= Turn(p) <=> Turn(q) <= Turn(Up(p)) \/ q = p
      BY <1>2, <1>3, <2>1
    <2>3. ~ (Turn(p) <= Turn(Up(p)))
      BY <1>3, <2>1
    <2> QED
      BY <1>5, <2>2, <2>3 DEF Until
  <1> QED
    BY <1>4, <1>5

\* What an instance has when its turn has come: its own counts and what its
\* neighbour has, which has had its turn.
LEMMA WhenItsTurnComes ==
  ASSUME Inv, ChainInv, NEW p \in Procs, finish_index[p] >= Turn(p)
  PROVE  /\ Counted(p) = Len(Orders[p])
         /\ Up(p) = select_idx => Came(p) = {}
         /\ Up(p) # select_idx => /\ finish_index[Up(p)] >= Turn(Up(p))
                                  /\ Came(p) = DOMAIN saleCount[Up(p)]
  <1> DEFINE u == Up(p)
  <1>1. ControlInv /\ ControlType
    BY DEF Inv, ControlInv
  <1>2. u \in Procs /\ Turn(p) \in 2..N + 1 /\ Turn(u) \in 2..N + 1
    BY TurnArithmetic
  <1>3. finish_index[p] \in Nat /\ finish_index[u] \in Nat
        /\ Turn(p) \in Nat /\ Turn(u) \in Nat /\ Turn(p) >= 2
    BY <1>1, <1>2, NAssumption DEF ControlType
  <1>4. Counted(p) = Len(Orders[p])
    BY <1>3 DEF Counted, InPhase
  <1>5. ~ (finish_index[p] < Turn(p))
    BY <1>3
  <1>6. Came(p) = sent[u]
    <2>1. \A k : ~ OnTheWay(p, k)
      BY <1>5, CountsEarly DEF OnTheWay, ChainInv
    <2> QED
      BY <2>1 DEF Came
  <1>7. CASE u = select_idx
    BY <1>2, <1>4, <1>6, <1>7 DEF ChainInv, SentInTurn
  <1>8. CASE u # select_idx
    <2>1. Turn(p) = Turn(u) + 1
      BY <1>8, TurnArithmetic
    <2>2. Turn(u) < finish_index[p]
      BY <1>3, <2>1
    <2>3. Turn(u) \in is_finished[u]
      BY <1>1, <1>2, <1>3, <2>2 DEF ControlInv, LeftAnnounced, AnnouncedByAll,
                                    Announced
    <2>4. Turn(u) < finish_index[u]
          \/ (Turn(u) = finish_index[u] /\ Ring!Inside(u))
      BY <1>1, <1>2, <1>3, <2>3 DEF ControlInv, FinishedIsPrefix
    <2>5. pc[u] # "run" \/ Turn(u) < finish_index[u]
      BY <2>4 DEF Ring!Inside
    <2>6. finish_index[u] >= Turn(u)
          /\ (finish_index[u] > Turn(u)
              \/ (finish_index[u] = Turn(u) /\ pc[u] # "run"))
      BY <1>3, <2>4, <2>5
    <2>7. sent[u] = DOMAIN saleCount[u]
      BY <1>2, <1>8, <2>6 DEF ChainInv, SentInTurn
    <2> QED
      BY <1>4, <1>6, <1>8, <2>6, <2>7
  <1> QED
    BY <1>7, <1>8

LEMMA Chain ==
  ASSUME Inv, ChainInv, CountsMap
  PROVE  ChainComplete
  <1> DEFINE Right(p) ==
               finish_index[p] >= Turn(p) => saleCount[p] = SumOf(Until(p))
             S == {n \in Nat : \A p \in Procs : Turn(p) = n + 2 => Right(p)}
  <1>1. ASSUME NEW p \in Procs, Up(p) # select_idx => Right(Up(p))
        PROVE  Right(p)
    <2>1. SUFFICES ASSUME finish_index[p] >= Turn(p)
                   PROVE  saleCount[p] = SumOf(Until(p))
      OBVIOUS
    <2>2. PICK u \in Procs : u = Up(p)
      BY TurnArithmetic
    <2>3. PICK T : T = IF u = select_idx THEN {} ELSE Until(u)
      OBVIOUS
    <2>4. T \in SUBSET Procs /\ p \notin T /\ Until(p) = T \cup {p}
      BY <2>2, <2>3, UntilIs DEF Until
    <2>5. /\ Counted(p) = Len(Orders[p])
          /\ Came(p) = DOMAIN SumOf(T)
          /\ u # select_idx => saleCount[u] = SumOf(T)
      <3>1. CASE u = select_idx
        BY <2>1, <2>2, <2>3, <3>1, WhenItsTurnComes, SumOfNobody
      <3>2. CASE u # select_idx
        <4>1. /\ Counted(p) = Len(Orders[p]) /\ Came(p) = DOMAIN saleCount[u]
              /\ finish_index[u] >= Turn(u)
          BY <2>1, <2>2, <3>2, WhenItsTurnComes
        <4>2. saleCount[u] = SumOf(T)
          BY <1>1, <2>2, <2>3, <3>2, <4>1
        <4> QED
          BY <4>1, <4>2
      <3> QED
        BY <3>1, <3>2
    <2>6. PICK f : f = saleCount[p]
      OBVIOUS
    <2>7. CountsAre(p)
      BY DEF ChainInv, CountsAdd
    <2>8. /\ f = [k \in DOMAIN f |-> f[k]]
          /\ DOMAIN f = OwnKeys(p, Len(Orders[p])) \cup DOMAIN SumOf(T)
      BY <2>5, <2>6, <2>7 DEF CountsMap, CountsAre
    <2>9. ASSUME NEW k \in DOMAIN f
          PROVE  /\ k = <<k[2], k[2]>>
                 /\ f[k] = Ordered(p, k[2])
                           + IF k \in DOMAIN SumOf(T) THEN SumOf(T)[k] ELSE 0
      <3>1. /\ k = <<k[2], k[2]>>
            /\ f[k] = Sales(p, Counted(p), k[2])
                      + IF k \in Came(p) THEN saleCount[u][k] ELSE 0
        BY <2>2, <2>6, <2>7 DEF CountsAre
      <3>2. Sales(p, Counted(p), k[2]) = Ordered(p, k[2])
        BY <2>5, OrderedIs
      <3>3. k \in Came(p) => saleCount[u][k] = SumOf(T)[k]
        BY <2>3, <2>5, SumOfNobody
      <3> QED
        BY <2>5, <3>1, <3>2, <3>3
    <2>10. f = SumOf(T \cup {p})
      <3>1. p \in Procs \ T /\ T \in SUBSET Procs
        BY <2>4
      <3>2. AddsUp(f, T, p)
        BY <2>8, <2>9 DEF AddsUp
      <3> QED
        BY <3>1, <3>2, SumOfAdd
    <2> QED
      BY <2>4, <2>6, <2>10
  <1>2. \A p \in Procs : /\ Turn(p) \in Nat /\ Turn(p) >= 2 /\ Up(p) \in Procs
                         /\ Up(p) # select_idx => Turn(p) = Turn(Up(p)) + 1
                         /\ Turn(Up(p)) \in Nat /\ Turn(Up(p)) >= 2
    <2>1. \A p \in Procs : Turn(p) \in Nat /\ Turn(p) >= 2
      BY TurnArithmetic, NAssumption
    <2> QED
      BY <2>1, TurnArithmetic
  <1> HIDE DEF Right
  <1>3. 0 \in S
    <2>1. ASSUME NEW p \in Procs, Turn(p) = 0 + 2 PROVE Right(p)
      <3>1. Up(p) = select_idx
        BY <1>2, <2>1
      <3> QED
        BY <1>1, <3>1
    <2> QED
      BY <2>1
  <1>4. ASSUME NEW n \in Nat, n \in S PROVE n + 1 \in S
    <2>1. ASSUME NEW p \in Procs, Turn(p) = (n + 1) + 2 PROVE Right(p)
      <3>1. Up(p) # select_idx => Turn(Up(p)) = n + 2
        BY <1>2, <2>1
      <3> QED
        BY <1>1, <1>2, <1>4, <3>1
    <2> QED
      BY <2>1
  <1>5. ASSUME NEW p \in Procs PROVE Right(p)
    <2>1. PICK n \in Nat : Turn(p) = n + 2
      <3>1. Turn(p) - 2 \in Nat /\ Turn(p) = (Turn(p) - 2) + 2
        BY <1>2
      <3> QED
        BY <3>1
    <2> HIDE DEF S
    <2>2. n \in S
      BY <1>3, <1>4, InductiveSet
    <2> QED
      BY <2>1, <2>2 DEF S
  <1> QED
    BY <1>5 DEF ChainComplete, Right

\* When its turn comes an instance has received all the counts of those before
\* it, each once, and they do not change while it sends: what it passes on along
\* the ring is the sum over all of them and itself.
THEOREM ChainsAreComplete == Spec => []ChainComplete
  <1>1. Inv /\ ChainInv /\ CountsMap => ChainComplete
    BY Chain
  <1> QED
    BY <1>1, AlwaysChain, PTL

-------------------------------------------------------------------------------
(***************************************************************************)
(* The answer.  What is asked for at the end is the sum over everything    *)
(* the keys are of, and that is what all the orders come to.               *)
(***************************************************************************)

\* What p's orders of the parts in s come to; a part is named by its key.
Within(p, s) ==
  Total([i \in DOMAIN Orders[p] |->
           IF <<Orders[p][i].lPartkey, Orders[p][i].lPartkey>> \in s
             THEN Orders[p][i].lQuantity ELSE 0])

WithinAll(s) == Total([p \in 1..N |-> Within(p, s)])

LEMMA WithinSeq ==
  ASSUME NEW p \in Procs, NEW s
  PROVE  /\ [i \in DOMAIN Orders[p] |->
               IF <<Orders[p][i].lPartkey, Orders[p][i].lPartkey>> \in s
                 THEN Orders[p][i].lQuantity ELSE 0] \in Seq(Nat)
         /\ Within(p, s) \in Nat
  <1>1. PICK t : t = [i \in DOMAIN Orders[p] |->
                        IF <<Orders[p][i].lPartkey, Orders[p][i].lPartkey>> \in s
                          THEN Orders[p][i].lQuantity ELSE 0]
    OBVIOUS
  <1>2. t \in Seq(Nat)
    <2>1. PICK n \in Nat : n = Len(Orders[p])
      BY OwnOrder
    <2>2. t = [i \in 1..n |-> t[i]]
      BY <1>1, <2>1, OwnOrder
    <2>3. \A i \in 1..n : t[i] \in Nat
      BY <1>1, <2>1, OwnOrder
    <2>4. t \in [1..n -> Nat]
      BY <2>2, <2>3
    <2> QED
      BY <2>1, <2>4
  <1>3. Total(t) \in Nat
    BY <1>2, TotalNat
  <1> QED
    BY <1>1, <1>2, <1>3 DEF Within

\* A part less.
LEMMA WithinWithout ==
  ASSUME NEW p \in Procs, NEW s, NEW key, <<key, key>> \in s
  PROVE  Within(p, s) = Ordered(p, key) + Within(p, s \ {<<key, key>>})
  <1>1. PICK r : r = s \ {<<key, key>>}
    OBVIOUS
  <1>2. PICK t : t = [i \in DOMAIN Orders[p] |->
                        IF <<Orders[p][i].lPartkey, Orders[p][i].lPartkey>> \in s
                          THEN Orders[p][i].lQuantity ELSE 0]
    OBVIOUS
  <1>3. PICK u : u = [i \in DOMAIN Orders[p] |->
                        IF <<Orders[p][i].lPartkey, Orders[p][i].lPartkey>> \in r
                          THEN Orders[p][i].lQuantity ELSE 0]
    OBVIOUS
  <1>4. PICK v : v = [i \in DOMAIN Orders[p] |->
                        IF Orders[p][i].lPartkey = key
                          THEN Orders[p][i].lQuantity ELSE 0]
    OBVIOUS
  <1>5. /\ Len(Orders[p]) \in Nat /\ DOMAIN Orders[p] = 1..Len(Orders[p])
        /\ \A i \in 1..Len(Orders[p]) : Orders[p][i].lQuantity \in Nat
    BY OwnOrder
  <1>6. /\ t \in Seq(Int) /\ Len(t) = Len(Orders[p])
        /\ u \in Seq(Int) /\ Len(u) = Len(Orders[p])
        /\ v \in Seq(Int) /\ Len(v) = Len(Orders[p])
    BY <1>2, <1>3, <1>4, <1>5
  <1>7. ASSUME NEW i \in 1..Len(Orders[p]) PROVE t[i] = v[i] + u[i]
    <2>1. PICK k : k = Orders[p][i].lPartkey
      OBVIOUS
    <2>2. PICK q \in Nat : q = Orders[p][i].lQuantity
      BY <1>5
    <2>3. /\ t[i] = IF <<k, k>> \in s THEN q ELSE 0
          /\ u[i] = IF <<k, k>> \in r THEN q ELSE 0
          /\ v[i] = IF k = key THEN q ELSE 0
      BY <1>2, <1>3, <1>4, <1>5, <2>1, <2>2
    <2>4. k # key => <<k, k>> # <<key, key>>
      OBVIOUS
    <2> QED
      BY <1>1, <2>3, <2>4
  <1>8. Total(t) = Total(v) + Total(u)
    BY <1>6, <1>7, TotalAdd
  <1>9. /\ Total(t) = Within(p, s) /\ Total(u) = Within(p, r)
        /\ Total(v) = Ordered(p, key)
    BY <1>2, <1>3, <1>4 DEF Within, Ordered
  <1> QED
    BY <1>1, <1>8, <1>9

LEMMA WithinAllWithout ==
  ASSUME NEW s, NEW key, <<key, key>> \in s
  PROVE  WithinAll(s) = Share(Procs, key) + WithinAll(s \ {<<key, key>>})
  <1>1. PICK r : r = s \ {<<key, key>>}
    OBVIOUS
  <1>2. PICK t : t = [p \in 1..N |-> Within(p, s)]
    OBVIOUS
  <1>3. PICK u : u = [p \in 1..N |-> Within(p, r)]
    OBVIOUS
  <1>4. PICK v : v = [p \in 1..N |-> IF p \in Procs THEN Ordered(p, key) ELSE 0]
    OBVIOUS
  <1>5. \A p \in 1..N : /\ p \in Procs /\ Within(p, s) \in Nat
                        /\ Within(p, r) \in Nat /\ Ordered(p, key) \in Nat
                        /\ Within(p, s) = Ordered(p, key) + Within(p, r)
    BY <1>1, WithinSeq, WithinWithout, OrderedIs DEF Procs, Ring!Procs
  <1>6. /\ t \in Seq(Int) /\ Len(t) = N /\ u \in Seq(Int) /\ Len(u) = N
        /\ v \in Seq(Int) /\ Len(v) = N
    BY <1>2, <1>3, <1>4, <1>5, NAssumption
  <1>7. \A p \in 1..Len(v) : t[p] = v[p] + u[p]
    BY <1>2, <1>3, <1>4, <1>5, <1>6
  <1>8. Total(t) = Total(v) + Total(u)
    BY <1>6, <1>7, TotalAdd
  <1>9. /\ Total(t) = WithinAll(s) /\ Total(u) = WithinAll(r)
        /\ Total(v) = Share(Procs, key)
    BY <1>2, <1>3, <1>4 DEF WithinAll, Share
  <1> QED
    BY <1>1, <1>8, <1>9

LEMMA WithinNothing == WithinAll({}) = 0
  <1>1. ASSUME NEW p \in Procs PROVE Within(p, {}) = 0
    <2>1. PICK t : t = [i \in DOMAIN Orders[p] |-> 0]
      OBVIOUS
    <2>2. /\ t \in Seq(Int) /\ \A i \in 1..Len(t) : t[i] = 0
      BY <2>1, OwnOrder
    <2>3. Total(t) = 0
      BY <2>2, TotalZero
    <2>4. [i \in DOMAIN Orders[p] |->
             IF <<Orders[p][i].lPartkey, Orders[p][i].lPartkey>> \in {}
               THEN Orders[p][i].lQuantity ELSE 0] = t
      BY <2>1
    <2> QED
      BY <2>3, <2>4 DEF Within
  <1>2. PICK t : t = [p \in 1..N |-> Within(p, {})]
    OBVIOUS
  <1>3. \A p \in 1..N : Within(p, {}) = 0
    BY <1>1 DEF Procs, Ring!Procs
  <1>4. t \in Seq(Int) /\ \A p \in 1..Len(t) : t[p] = 0
    BY <1>2, <1>3, NAssumption
  <1>5. Total(t) = 0
    BY <1>4, TotalZero
  <1> QED
    BY <1>2, <1>5 DEF WithinAll

\* The sum over the parts is the sum over the orders.
LEMMA GrandTotal ==
  SumOver(SumOf(Procs), DOMAIN SumOf(Procs)) = Total([p \in 1..N |-> Quantity(p)])
  <1>1. PICK f : f = SumOf(Procs)
    OBVIOUS
  <1>2. PICK D : D = DOMAIN f
    OBVIOUS
  <1>3. /\ f = [k \in D |-> Share(Procs, k[2])]
        /\ \A k : k \in D <=> \E p \in Procs : k \in OwnKeys(p, Len(Orders[p]))
    BY <1>1, <1>2, SumOfIs
  <1>4. \A k \in D : k = <<k[2], k[2]>> /\ k \in Key
    <2>1. \A p \in Procs : \A i \in 1..Len(Orders[p]) :
            Orders[p][i].lPartkey \in AllParts
      BY OwnOrder
    <2> QED
      BY <1>3, <2>1 DEF OwnKeys, Key
  <1>5. IsFiniteSet(D)
    <2>1. IsFiniteSet(Key)
      BY AllPartsFinite, FS_Product DEF Key
    <2>2. D \subseteq Key
      BY <1>4
    <2> QED
      BY <2>1, <2>2, FS_Subset
  <1>6. PICK h : h = [s \in SUBSET D |-> WithinAll(s)]
    OBVIOUS
  <1>7. h[{}] = 0
    BY <1>6, WithinNothing
  <1>8. ASSUME NEW s \in SUBSET D, NEW x \in s
        PROVE  h[s] = f[x] + h[s \ {x}]
    <2>1. PICK key : key = x[2]
      OBVIOUS
    <2>2. x = <<key, key>> /\ x \in D
      BY <1>4, <2>1
    <2>3. WithinAll(s) = Share(Procs, key) + WithinAll(s \ {<<key, key>>})
      BY <2>2, WithinAllWithout
    <2>4. f[x] = Share(Procs, key)
      BY <1>3, <2>1, <2>2
    <2>5. s \ {x} \in SUBSET D
      OBVIOUS
    <2> QED
      BY <1>6, <2>2, <2>3, <2>4, <2>5
  <1>9. SumOver(f, D) = h[D]
    BY <1>5, <1>7, <1>8, SumOverIs
  <1>10. \A p \in 1..N : Within(p, D) = Quantity(p)
    <2> SUFFICES ASSUME NEW p \in Procs PROVE Within(p, D) = Quantity(p)
      BY DEF Procs, Ring!Procs
    <2>1. \A i \in DOMAIN Orders[p] :
            <<Orders[p][i].lPartkey, Orders[p][i].lPartkey>> \in D
      BY <1>3, OwnOrder DEF OwnKeys
    <2>2. [i \in DOMAIN Orders[p] |->
             IF <<Orders[p][i].lPartkey, Orders[p][i].lPartkey>> \in D
               THEN Orders[p][i].lQuantity ELSE 0]
          = [i \in DOMAIN Orders[p] |-> Orders[p][i].lQuantity]
      BY <2>1
    <2> QED
      BY <2>2 DEF Within, Quantity
  <1>11. [p \in 1..N |-> Within(p, D)] = [p \in 1..N |-> Quantity(p)]
    BY <1>10
  <1>12. h[D] = Total([p \in 1..N |-> Quantity(p)])
    BY <1>6, <1>11 DEF WithinAll
  <1> QED
    BY <1>1, <1>2, <1>9, <1>12

\* The last phase has no barrier.
Ends ==
  \A p \in Procs : finish_index[p] < N + 2
                   \/ (finish_index[p] = N + 2 /\ pc[p] = "run")

\* The number of the parts is that of the whole table.
PartsCounted ==
  \A p \in Procs :
    \/ finish_index[p] > 1
    \/ finish_index[p] = 1 /\ (pc[p] # "run" \/ step[p] # 0)
    => partCount[p] = Cardinality(AllParts)

Answered == finish_index[select_idx] = N + 2 /\ step[select_idx] # 0

AnswerInv ==
  /\ Ends /\ PartsCounted
  /\ underSale[select_idx] = IF Answered THEN Undersold ELSE {}

\* What the instance asked for the answer makes of its counts.
LEMMA CalculateUnderSaleAnswers ==
  ASSUME Inv, ChainInv, CountsMap, AnswerInv, NEW p \in Procs,
         CalculateUnderSale(p)
  PROVE  p = select_idx /\ underSale'[p] = Undersold
  <1>1. /\ finish_index[p] = N + 2 /\ step[p] = 0 /\ p = select_idx
        /\ N \in Nat /\ N >= 2
    BY NAssumption DEF CalculateUnderSale, InPhase
  <1>2. partCount[p] = Cardinality(AllParts) /\ underSale[p] = {}
    BY <1>1 DEF AnswerInv, PartsCounted, Answered
  <1>3. Until(p) = Procs
    <2>1. \A q \in Procs : Turn(q) <= Turn(p)
      BY <1>1, TurnArithmetic
    <2> QED
      BY <2>1 DEF Until
  <1>4. saleCount[p] = SumOf(Procs)
    <2>1. finish_index[p] >= Turn(p)
      BY <1>1, TurnArithmetic
    <2> QED
      BY <1>3, <2>1, Chain DEF ChainComplete
  <1>5. PICK n : n = Total([q \in 1..N |-> Quantity(q)])
    OBVIOUS
  <1>6. SumOver(saleCount[p], DOMAIN saleCount[p]) = n
    BY <1>4, <1>5, GrandTotal
  <1>7. underSale'[p] = underSale[p] \cup
          {[key |-> k, count |-> saleCount[p][k]] :
             k \in {j \in DOMAIN saleCount[p] :
                      SellsBadly(saleCount[p][j],
                                 SumOver(saleCount[p], DOMAIN saleCount[p]),
                                 partCount[p])}}
    <2>1. underSale \in [Procs -> SUBSET [key : Key, count : Nat]]
      BY DEF Inv, CountsInv
    <2> QED
      BY <2>1 DEF CalculateUnderSale, SumOver
  <1>8. Undersold = {[key |-> k, count |-> SumOf(Procs)[k]] :
                       k \in {j \in DOMAIN SumOf(Procs) :
                                SellsBadly(SumOf(Procs)[j], n,
                                           Cardinality(AllParts))}}
    BY <1>5 DEF Undersold
  <1> HIDE DEF SellsBadly
  <1> QED
    BY <1>1, <1>2, <1>4, <1>6, <1>7, <1>8

LEMMA InitAnswer == Init => AnswerInv
  <1> SUFFICES ASSUME Init PROVE AnswerInv
    OBVIOUS
  <1>1. /\ finish_index = [p \in Procs |-> 0] /\ pc = [p \in Procs |-> "run"]
        /\ step = [p \in Procs |-> 0] /\ underSale = [p \in Procs |-> {}]
    BY DEF Init, Ring!Init, Procs
  <1> QED
    BY <1>1, NAssumption, SelectAssumption
    DEF AnswerInv, Ends, PartsCounted, Answered

\* Where the answer and the number of parts stay as they are.
LEMMA AnswerQuiet ==
  ASSUME AnswerInv, ControlType, UNCHANGED <<answerVars, finish_index>>,
         \A p \in Procs : pc'[p] = "run" <=> pc[p] = "run",
         \A p \in Procs : step'[p] = step[p]
                          \/ finish_index[p] = 0
                          \/ (finish_index[p] = 1 /\ step[p] # 0)
  PROVE  AnswerInv'
  <1>1. N \in Nat /\ N + 2 # 0 /\ N + 2 # 1
    BY NAssumption
  <1>2. Ends'
    BY DEF AnswerInv, Ends
  <1>3. PartsCounted'
    BY DEF AnswerInv, PartsCounted, answerVars, ControlType
  <1>4. Answered' <=> Answered
    BY <1>1, SelectAssumption DEF Answered
  <1>5. Undersold' = Undersold
    BY DEF Undersold
  <1> QED
    BY <1>2, <1>3, <1>4, <1>5 DEF AnswerInv, answerVars

LEMMA NextAnswer ==
  Inv /\ ChainInv /\ CountsMap /\ AnswerInv /\ [Next]_vars => AnswerInv'
  <1> SUFFICES ASSUME Inv, ChainInv, CountsMap, AnswerInv, [Next]_vars
               PROVE  AnswerInv'
    OBVIOUS
  <1>1. ControlType /\ CountsInv /\ TablesInv /\ N \in Nat /\ N >= 2
    BY NAssumption DEF Inv, ControlInv
  <1>2. Undersold' = Undersold /\ select_idx \in Procs
    BY SelectAssumption DEF Undersold
  <1>3. ASSUME NEW p \in Procs, CalculateUnderSale(p) PROVE AnswerInv'
    <2>1. /\ p = select_idx /\ finish_index[p] = N + 2 /\ step[p] = 0
          /\ step' = [step EXCEPT ![p] = @ + 1]
          /\ UNCHANGED <<pc, finish_index, partCount>>
      BY <1>3 DEF CalculateUnderSale, InPhase, Advance, mainVars
    <2>2. underSale'[p] = Undersold
      BY <1>3, CalculateUnderSaleAnswers
    <2>3. Answered'
      BY <1>1, <2>1 DEF Answered, ControlType
    <2>4. Ends' /\ PartsCounted'
      BY <1>1, <2>1 DEF AnswerInv, Ends, PartsCounted, ControlType
    <2> QED
      BY <1>2, <2>1, <2>2, <2>3, <2>4 DEF AnswerInv
  <1>4. ASSUME NEW p \in Procs, SetPartCount(p) PROVE AnswerInv'
    <2>1. /\ finish_index[p] = 1 /\ pc[p] = "run" /\ step[p] = 0
          /\ step' = [step EXCEPT ![p] = @ + 1]
          /\ partCount' = [partCount EXCEPT ![p] = Len(parts[p])]
          /\ UNCHANGED <<pc, finish_index, underSale>>
      BY <1>4 DEF SetPartCount, InPhase, Advance, mainVars
    <2>2. Len(parts[p]) = Cardinality(AllParts)
      <3>1. Known(p) = AllParts
        BY <2>1, Complete DEF Inv
      <3>2. Range(parts[p]) = AllParts
        BY <1>1, <3>1, TableEntries
      <3> QED
        BY <1>1, <3>2, TableLength
    <2>3. Ends' /\ PartsCounted'
      BY <1>1, <2>1, <2>2 DEF AnswerInv, Ends, PartsCounted, ControlType, CountsInv
    <2>4. Answered' <=> Answered
      BY <1>1, <2>1 DEF Answered, ControlType
    <2> QED
      BY <1>2, <2>1, <2>3, <2>4 DEF AnswerInv
  <1>5. ASSUME NEW p \in Procs, EnterBarrier(p) PROVE AnswerInv'
    <2>1. /\ pc[p] = "run" /\ pc' = [pc EXCEPT ![p] = "entered"]
          /\ finish_index[p] < N + 2 /\ PhaseDone(p)
          /\ UNCHANGED <<finish_index, step, partCount, underSale>>
      BY <1>5 DEF EnterBarrier, Ring!EnterBarrier, advancedVars, answerVars
    <2>2. finish_index[p] = 1 => step[p] # 0
      <3>1. finish_index[p] = 1 => step[p] = Len(Orders[p]) + 1
        BY <2>1 DEF PhaseDone
      <3> QED
        BY <3>1, OwnOrder
    <2>3. Ends' /\ PartsCounted'
      BY <1>1, <2>1, <2>2 DEF AnswerInv, Ends, PartsCounted, ControlType
    <2>4. Answered' <=> Answered
      BY <2>1 DEF Answered
    <2> QED
      BY <1>2, <2>1, <2>3, <2>4 DEF AnswerInv
  <1>6. ASSUME NEW p \in Procs, LeaveBarrier(p) PROVE AnswerInv'
    <2>1. /\ pc[p] = "woken" /\ pc' = [pc EXCEPT ![p] = "run"]
          /\ finish_index' = [finish_index EXCEPT ![p] = @ + 1]
          /\ step' = [step EXCEPT ![p] = 0]
          /\ UNCHANGED <<partCount, underSale>>
      BY <1>6 DEF LeaveBarrier, Ring!LeaveBarrier, answerVars
    <2>2. finish_index[p] < N + 2
      BY <2>1 DEF AnswerInv, Ends
    <2>3. Ends'
      BY <1>1, <2>1, <2>2 DEF AnswerInv, Ends, ControlType
    <2>4. PartsCounted'
      BY <1>1, <2>1 DEF AnswerInv, PartsCounted, ControlType
    <2>5. Answered' <=> Answered
      BY <1>1, <1>2, <2>1, <2>2 DEF Answered, ControlType
    <2> QED
      BY <1>2, <2>1, <2>3, <2>4, <2>5 DEF AnswerInv
  <1>7. ASSUME NEW p \in Procs, ReadSize(p) \/ SendPart(p) \/ SolveOrder(p)
        PROVE  AnswerInv'
    <2>1. /\ UNCHANGED <<pc, finish_index, answerVars>>
          /\ step' = [step EXCEPT ![p] = @ + 1]
      BY <1>7 DEF ReadSize, SendPart, SolveOrder, Advance, mainVars
    <2>2. finish_index[p] = 0 \/ (finish_index[p] = 1 /\ step[p] # 0)
      BY <1>7 DEF ReadSize, SendPart, SolveOrder, InPhase
    <2> QED
      BY <1>1, <2>1, <2>2, AnswerQuiet DEF ControlType
  <1>8. ASSUME NEW p \in Procs, Ring!SendFinish(p) \/ Ring!Wait(p) \/ Ring!Notify(p),
               UNCHANGED advancedVars
        PROVE  AnswerInv'
    <2>1. /\ UNCHANGED <<finish_index, step, answerVars>>
          /\ \/ UNCHANGED pc
             \/ pc[p] # "run" /\ \E v : v # "run" /\ pc' = [pc EXCEPT ![p] = v]
      BY <1>8 DEF Ring!SendFinish, Ring!Wait, Ring!Notify, advancedVars
    <2> QED
      BY <1>1, <2>1, AnswerQuiet DEF ControlType
  <1>9. CASE UNCHANGED <<pc, finish_index, step, answerVars>>
    BY <1>1, <1>9, AnswerQuiet
  <1>10. ASSUME NEW p \in Procs,
                \/ SendPartData(p) \/ Close(p) \/ ReceiveFinish(p)
                \/ ReceivePart(p) \/ ReceivePartData(p) \/ Forward(p)
         PROVE  UNCHANGED <<pc, finish_index, step, answerVars>>
    BY <1>10 DEF SendPartData, Close, ReceiveFinish, ReceivePart,
                 ReceivePartData, Forward, mainVars, Ring!HandleFinish,
                 Ring!DropToken, Ring!PassToken, Ring!CompleteToken,
                 Ring!mainVars, advancedVars
  <1>11. CASE UNCHANGED vars
    BY <1>9, <1>11 DEF vars, Ring!vars, advancedVars
  <1>12. CASE Next
    BY <1>3, <1>4, <1>5, <1>6, <1>7, <1>8, <1>9, <1>10, <1>12
    DEF Next, Calculate, Synchronise, Serve
  <1> QED
    BY <1>11, <1>12

\* The answer is the one a single instance with all parts and orders would give:
\* when calculateUnderSale has run, the parts listed are those that have sold
\* badly in all the orders together, with their whole counts.
THEOREM AnswersAreRight == Spec => []AnswerIsRight
  <1> DEFINE I == Inv /\ ChainInv /\ CountsMap /\ AnswerInv
  <1>1. Init => I
    BY InitInv, InitChain, InitMap, InitAnswer
  <1>2. I /\ [Next]_vars => I'
    BY NextInv, NextChain, NextMap, NextAnswer
  <1>3. I => AnswerIsRight
    BY DEF AnswerInv, Answered, AnswerIsRight
  <1> QED
    BY <1>1, <1>2, <1>3, PTL DEF Spec

===============================================================================
