--------------------------- MODULE FinalQueryProofs ---------------------------
(***************************************************************************)
(* Proofs about FinalQuery, for any number of instances, any matching      *)
(* parts and any orders: PhaseFlush (a barrier is also a flush),           *)
(* EverybodyKnows (the matching parts reach everybody), ImplementsRing     *)
(* (without the data the streams are those of RingBarrier), TypeOK,        *)
(* SumsAgree (the merged sums are those of all orders) and AnswerIsRight   *)
(* (the answer gathers every share once).                                  *)
(*                                                                         *)
(* A message that goes round the ring is followed from its origin: the     *)
(* instance in the header of finalPart, for partKey an owner of the part   *)
(* that knows it.  The invariant relates it to the tokens of its phase: a  *)
(* token that carries the digit of the origin has been stamped after the   *)
(* message was sent, so it is behind it, and has not come back to the      *)
(* origin (Clear); the notification of a server comes from a token that    *)
(* carries all digits, so the message has passed that server (Passed).     *)
(*                                                                         *)
(* The sums are a matter of conservation.  CollectInv: partData weighs     *)
(* what the scanned orders and the merged sums weigh.  FlowInv: what p has *)
(* received and what is still due at it weigh what the others have sent.   *)
(* Behind the barrier nothing is due and everybody has sent everything.    *)
(* StopInv: what a stop has and what is in its stream are its share and,   *)
(* once the stop above has sent, what that one has gathered.               *)
(***************************************************************************)
EXTENDS FinalQuery, TotalsProofs, SequenceTheorems, WellFoundedInduction, TLAPS

\* Hops of a message of origin q that is at instance s, N at q itself.
Hops(q, s) == IF s < q THEN q - s ELSE q - s + N

\* The server of p has notified its main thread of barrier k, or is about to.
Announced(p, k) == k \in has_notify[p] \/ notifying[p] = k

IsToken(m) == m.head = "finish"
IsData(m) == m.head \in {"partKey", "finalPart"}

\* The messages that the barrier of phase k has to flush: an answer is sent in
\* the phase of the instance above the one that it comes to.
Phases == {0, 2} \cup 4..N + 2

Kind(k) ==
  IF k = 0 THEN "partKey" ELSE IF k = 2 THEN "finalPart" ELSE "finalAns"

Belongs(m, k, s) == m.head = Kind(k) /\ (k >= 4 => s = Stop(k - 3))

\* The barriers an instance has reached, read off finish_index.
FinishedIsPrefix ==
  \A p \in Procs : \A k \in Nat :
    k \in is_finished[p] <=> \/ k < finish_index[p]
                             \/ k = finish_index[p] /\ Ring!Inside(p)

AnnouncedByAll ==
  \A p, q \in Procs : \A k \in Nat : Announced(p, k) => k \in is_finished[q]

WakeIsCurrent ==
  \A p \in Procs : notifying[p] # Ring!None =>
    /\ notifying[p] = finish_index[p]
    /\ notifying[p] \notin has_notify[p]
    /\ pc[p] # "woken"

\* Nobody leaves a barrier that its own server has not announced.
LeftAnnounced ==
  \A p \in Procs :
    /\ \A k \in Nat : k < finish_index[p] => k \in has_notify[p]
    /\ pc[p] = "woken" => finish_index[p] \in has_notify[p]

ControlType ==
  /\ pc \in [Procs -> {"run", "entered", "sent", "wait", "woken"}]
  /\ finish_index \in [Procs -> Nat]
  /\ is_finished \in [Procs -> SUBSET Nat]
  /\ has_notify \in [Procs -> SUBSET Nat]
  /\ notifying \in [Procs -> Nat \cup {Ring!None}]
  /\ step \in [Procs -> Nat]
  /\ partKeyMap \in [Procs -> SUBSET AllKeys]

ControlInv ==
  ControlType /\ FinishedIsPrefix /\ AnnouncedByAll /\ WakeIsCurrent
  /\ LeftAnnounced

\* What may be in a stream.  A digit that is set names an instance that has
\* reached the barrier.
Sound(m) ==
  \/ /\ m \in Ring!Token
     /\ \A q \in Procs : m.cnt[q] # 0 => m.idx \in is_finished[q]
  \/ m.head = "partKey" /\ m.key \in AllKeys
  \/ m.head = "finalPart" /\ m.from \in Procs
  \/ m.head = "finalAns"

\* What the server thread may have in its hands.
Held(S) == {Idle} \cup [rest : {"forward", "ans"}, msg : {m \in S : IsData(m)}]

\* The values of the sums do not matter: the messages are from some set S.
Streams ==
  \E S : /\ wire \in [Procs -> Seq(S)]
         /\ handling \in [Procs -> Held(S)]
         /\ \A m \in S : Sound(m)

\* The parts of q that q knows to match.
Known(q) == Range(Parts[q]) \cap partKeyMap[q]

\* The message m of phase k may have come from q.
From(m, k, q) ==
  IF k = 0 THEN m.key \in Known(q)
           ELSE IF k = 2 THEN m.from = q ELSE q = Stop(k - 4)

\* The i-th place of the stream of s is ahead of the j-th of that of r, for what
\* comes from q; place 0 are the hands of the server thread.
Ahead(q, s, i, r, j) == Hops(q, s) > Hops(q, r) \/ (s = r /\ i < j)

\* A message of q's phase k, in place i at s, is not overtaken by the token t, in
\* place j at r.
NotOvertaken(t, k, q, s, i, r, j) ==
  IsToken(t) /\ t.idx = k /\ t.cnt[q] # 0 =>
    t.cnt[q] = 1 /\ Ahead(q, s, i, r, j)

Clear(w, k, q, s, i) ==
  \A r \in Procs : \A j \in 1..Len(w[r]) :
    NotOvertaken(w[r][j], k, q, s, i, r, j)

Passed(k, q, s) == \A p \in Procs : Announced(p, k) => Hops(q, s) > Hops(q, p)

Placed(k, q, s, i) ==
  /\ i = 0 => s # q
  /\ Clear(wire, k, q, s, i)
  /\ Passed(k, q, s)

DataInv ==
  \A s \in Procs : \A k \in Phases :
    /\ \A i \in 1..Len(wire[s]) : Belongs(wire[s][i], k, s) =>
         \E q \in Procs : From(wire[s][i], k, q) /\ Placed(k, q, s, i)
    /\ handling[s] # Idle /\ Belongs(handling[s].msg, k, s) =>
         \E q \in Procs : From(handling[s].msg, k, q) /\ Placed(k, q, s, 0)

\* The parts preprocess has come to are known, all of them when it is done.
OwnKeys ==
  \A p \in Procs : \A i \in 1..Len(Parts[p]) :
    \/ finish_index[p] = 0 /\ pc[p] = "run" /\ i > (step[p] + 1) \div 2
    \/ Parts[p][i] \in partKeyMap[p]

FlushInv == ControlInv /\ OwnKeys /\ Streams /\ DataInv

-------------------------------------------------------------------------------
(***************************************************************************)
(* The ring and the places on it.                                          *)
(***************************************************************************)

\* Positions on the ring.
LEMMA RingArithmetic ==
  ASSUME NEW q \in Procs, NEW s \in Procs
  PROVE  /\ Down(s) \in Procs /\ Down(s) # s
         /\ Hops(q, s) \in 1..N
         /\ Hops(q, s) = N <=> s = q
         /\ s # q => Hops(q, Down(s)) = Hops(q, s) + 1
         /\ Hops(s, Down(s)) = 1
         /\ \A r \in Procs : Hops(q, r) = Hops(q, s) => r = s
         /\ \A r \in Procs : Hops(q, r) \in 1..N
  BY NAssumption DEF Procs, Ring!Procs, Hops, Down, Ring!Down

LEMMA StampedType ==
  ASSUME NEW p \in Procs, NEW idx \in Nat, NEW cnt \in [Procs -> Nat]
  PROVE  Ring!Stamped(p, idx, cnt) \in Ring!Token
  BY DEF Ring!Stamped, Ring!Token, Procs

LEMMA NoDigitsType == Ring!NoDigits \in [Procs -> Nat]
  BY DEF Ring!NoDigits, Procs

\* The elements of a stream after a send.
LEMMA AppendElements ==
  ASSUME NEW S, NEW s \in Seq(S), NEW e
  PROVE  /\ Append(s, e) \in Seq(S \cup {e})
         /\ Len(s) \in Nat /\ Len(Append(s, e)) = Len(s) + 1
         /\ \A i \in 1..Len(s) : Append(s, e)[i] = s[i]
         /\ Append(s, e)[Len(s) + 1] = e
  <1>1. s \in Seq(S \cup {e})
    BY SeqMonotonic
  <1> QED
    BY <1>1, AppendProperties, LenProperties

\* The elements of a stream after a read.
LEMMA TailElements ==
  ASSUME NEW S, NEW s \in Seq(S), s # << >>
  PROVE  /\ Tail(s) \in Seq(S) /\ Head(s) \in S /\ Head(s) = s[1]
         /\ Len(s) \in Nat \ {0} /\ Len(Tail(s)) = Len(s) - 1
         /\ \A i \in 1..Len(Tail(s)) : Tail(s)[i] = s[i + 1]
  BY HeadTailProperties, LenProperties, EmptySeq

\* The first message is read: what is behind it moves up by one place.
LEMMA ClearTail ==
  ASSUME NEW S, NEW w \in [Procs -> Seq(S)], NEW p \in Procs, w[p] # << >>,
         NEW k, NEW q \in Procs, NEW s \in Procs, NEW i \in Nat,
         Clear(w, k, q, s, i), s = p => i >= 1
  PROVE  Clear([w EXCEPT ![p] = Tail(@)], k, q, s, IF s = p THEN i - 1 ELSE i)
  <1> DEFINE w2 == [w EXCEPT ![p] = Tail(@)]
             i2 == IF s = p THEN i - 1 ELSE i
  <1> SUFFICES ASSUME NEW r \in Procs, NEW j \in 1..Len(w2[r])
               PROVE  NotOvertaken(w2[r][j], k, q, s, i2, r, j)
    BY DEF Clear
  <1>1. CASE r = p
    <2>1. j + 1 \in 1..Len(w[r]) /\ w2[r][j] = w[r][j + 1]
      BY <1>1, TailElements
    <2>2. NotOvertaken(w[r][j + 1], k, q, s, i, r, j + 1)
      BY <2>1 DEF Clear
    <2>3. Ahead(q, s, i, r, j + 1) => Ahead(q, s, i2, r, j)
      BY <1>1 DEF Ahead
    <2> QED
      BY <2>1, <2>2, <2>3 DEF NotOvertaken
  <1>2. CASE r # p
    <2>1. w2[r] = w[r]
      BY <1>2
    <2>2. NotOvertaken(w[r][j], k, q, s, i, r, j)
      BY <2>1 DEF Clear
    <2>3. Ahead(q, s, i, r, j) => Ahead(q, s, i2, r, j)
      BY <1>2 DEF Ahead
    <2> QED
      BY <2>1, <2>2, <2>3 DEF NotOvertaken
  <1> QED
    BY <1>1, <1>2

\* A message is sent that does not overtake.
LEMMA ClearSend ==
  ASSUME NEW S, NEW w \in [Procs -> Seq(S)], NEW d \in Procs, NEW e,
         NEW k, NEW q \in Procs, NEW s \in Procs, NEW i \in Nat,
         Clear(w, k, q, s, i),
         NotOvertaken(e, k, q, s, i, d, Len(w[d]) + 1)
  PROVE  Clear([w EXCEPT ![d] = Append(@, e)], k, q, s, i)
  <1> DEFINE w2 == [w EXCEPT ![d] = Append(@, e)]
  <1> SUFFICES ASSUME NEW r \in Procs, NEW j \in 1..Len(w2[r])
               PROVE  NotOvertaken(w2[r][j], k, q, s, i, r, j)
    BY DEF Clear
  <1>1. CASE r = d
    <2>1. /\ j \in 1..Len(w[r]) => w2[r][j] = w[r][j]
          /\ j \notin 1..Len(w[r]) => j = Len(w[r]) + 1 /\ w2[r][j] = e
      BY <1>1, AppendElements
    <2> QED
      BY <1>1, <2>1 DEF Clear
  <1>2. CASE r # d
    BY <1>2 DEF Clear
  <1> QED
    BY <1>1, <1>2

\* What a server has in its hands is ahead when it is sent on.
LEMMA ClearAdvance ==
  ASSUME NEW w, NEW k, NEW q \in Procs, NEW p \in Procs, NEW i \in Nat,
         Clear(w, k, q, p, 0), p # q
  PROVE  Clear(w, k, q, Down(p), i)
  <1> SUFFICES ASSUME NEW r \in Procs, NEW j \in 1..Len(w[r])
               PROVE  NotOvertaken(w[r][j], k, q, Down(p), i, r, j)
    BY DEF Clear
  <1>1. NotOvertaken(w[r][j], k, q, p, 0, r, j)
    BY DEF Clear
  <1>2. /\ Hops(q, Down(p)) = Hops(q, p) + 1
        /\ Hops(q, p) \in 1..N /\ Hops(q, r) \in 1..N
    BY RingArithmetic
  <1>3. Ahead(q, p, 0, r, j) => Ahead(q, Down(p), i, r, j)
    BY <1>2, NAssumption DEF Ahead
  <1> QED
    BY <1>1, <1>3 DEF NotOvertaken

\* A token that an instance starts is behind all its own messages.
LEMMA FreshBehind ==
  ASSUME NEW p \in Procs, NEW idx \in Nat, NEW k,
         NEW q \in Procs, NEW s \in Procs, NEW i \in Nat, NEW last \in Nat,
         s = Down(p) => i < last
  PROVE  NotOvertaken(Ring!Stamped(p, idx, Ring!NoDigits), k, q, s, i,
                      Down(p), last)
  <1> DEFINE u == Ring!Stamped(p, idx, Ring!NoDigits)
  <1>1. \A r \in Procs : u.cnt[r] = IF r = p THEN 1 ELSE 0
    BY DEF Ring!Stamped, Ring!NoDigits, Procs
  <1> HIDE DEF u
  <1>2. q = p => Ahead(q, s, i, Down(p), last)
    BY RingArithmetic, NAssumption DEF Ahead
  <1> QED
    BY <1>1, <1>2 DEF NotOvertaken, u

\* A token that is read and passed on overtakes nothing: what comes from its
\* origins was ahead of it, and nothing was left in the hands of the server.
LEMMA StampBehind ==
  ASSUME NEW p \in Procs, NEW t \in Ring!Token, NEW k,
         NEW q \in Procs, NEW s \in Procs, NEW i \in Nat, NEW i2 \in Nat,
         NEW last \in Nat,
         NotOvertaken(t, k, q, s, i, p, 1),
         s = p => i >= 1, s = Down(p) => i2 < last
  PROVE  NotOvertaken(Ring!Stamped(p, t.idx, t.cnt), k, q, s, i2, Down(p), last)
  <1> DEFINE u == Ring!Stamped(p, t.idx, t.cnt)
  <1>1. /\ t.cnt \in [Procs -> Nat] /\ t.head = "finish"
        /\ u.idx = t.idx
        /\ u.cnt[q] = IF q = p THEN t.cnt[p] + 1 ELSE t.cnt[q]
    BY DEF Ring!Stamped, Ring!Token, Procs
  <1> HIDE DEF u
  <1> SUFFICES ASSUME u.idx = k, u.cnt[q] # 0
               PROVE  u.cnt[q] = 1 /\ Ahead(q, s, i2, Down(p), last)
    BY DEF NotOvertaken, u
  <1>2. t.cnt[q] # 0 => t.cnt[q] = 1 /\ Hops(q, s) > Hops(q, p)
    BY <1>1, NAssumption DEF NotOvertaken, IsToken, Ahead
  <1>3. CASE q = p
    <2>1. t.cnt[q] = 0
      BY <1>2, <1>3, RingArithmetic, NAssumption
    <2>2. Ahead(q, s, i2, Down(p), last)
      BY <1>3, RingArithmetic, NAssumption DEF Ahead
    <2> QED
      BY <1>1, <1>3, <2>1, <2>2
  <1>4. CASE q # p
    <2>1. t.cnt[q] = 1 /\ Hops(q, s) > Hops(q, p)
      BY <1>1, <1>2, <1>4
    <2>2. Ahead(q, s, i2, Down(p), last)
      BY <1>4, <2>1, RingArithmetic, NAssumption DEF Ahead
    <2> QED
      BY <1>1, <1>4, <2>1, <2>2
  <1> QED
    BY <1>3, <1>4

-------------------------------------------------------------------------------
(***************************************************************************)
(* The way of the answer.                                                  *)
(***************************************************************************)

LEMMA ModIs ==
  ASSUME NEW a \in Nat, a < N
  PROVE  a % N = a
  BY NAssumption

LEMMA ModOfNegative ==
  ASSUME NEW a \in Int, a < 0, a + N >= 0
  PROVE  a % N = a + N
  BY NAssumption

LEMMA StopIs ==
  ASSUME NEW d \in 0..N - 1
  PROVE  Stop(d) = IF d < SelectIdx - 1 THEN SelectIdx - 1 - d
                                        ELSE SelectIdx - 1 - d + N
  <1>1. N \in Nat /\ N >= 2 /\ SelectIdx \in 1..N
    BY NAssumption, SelectAssumption DEF Procs, Ring!Procs
  <1>2. CASE d < SelectIdx - 1
    <2>1. SelectIdx - 2 - d \in Nat /\ SelectIdx - 2 - d < N
      BY <1>1, <1>2
    <2> QED
      BY <1>1, <1>2, <2>1, ModIs DEF Stop
  <1>3. CASE ~ (d < SelectIdx - 1)
    <2>1. SelectIdx - 2 - d \in Int /\ SelectIdx - 2 - d < 0
      BY <1>1, <1>3
    <2>2. SelectIdx - 2 - d + N >= 0
      BY <1>1
    <2> QED
      BY <1>1, <1>3, <2>1, <2>2, ModOfNegative DEF Stop
  <1> QED
    BY <1>2, <1>3

LEMMA StopArithmetic ==
  /\ \A d \in 0..N - 1 : Stop(d) \in Procs
  /\ \A d, e \in 0..N - 1 : Stop(d) = Stop(e) => d = e
  /\ \A d \in 0..N - 2 : Down(Stop(d)) = Stop(d + 1)
  /\ \A d \in 0..N - 1 : Down(Stop(d)) = Stop(0) => d = N - 1
  <1>1. N \in Nat /\ N >= 2 /\ SelectIdx \in 1..N
    BY NAssumption, SelectAssumption DEF Procs, Ring!Procs
  <1>2. \A d \in 0..N - 1 : Stop(d) \in Procs
    BY <1>1, StopIs DEF Procs, Ring!Procs
  <1>3. \A d, e \in 0..N - 1 : Stop(d) = Stop(e) => d = e
    BY <1>1, StopIs
  <1>4. ASSUME NEW d \in 0..N - 2 PROVE Down(Stop(d)) = Stop(d + 1)
    <2>1. d \in 0..N - 1 /\ d + 1 \in 0..N - 1
      BY <1>1
    <2> QED
      BY <1>1, <2>1, StopIs DEF Down, Ring!Down
  <1>5. ASSUME NEW d \in 0..N - 1, Down(Stop(d)) = Stop(0) PROVE d = N - 1
    <2>1. 0 \in 0..N - 1
      BY <1>1
    <2> QED
      BY <1>1, <1>5, <2>1, StopIs DEF Down, Ring!Down
  <1> QED
    BY <1>2, <1>3, <1>4, <1>5

LEMMA PhaseNumbers == Phases \subseteq Nat
  BY NAssumption DEF Phases

\* The data of the first phases belongs to its phase wherever it is.
LEMMA DataPhase ==
  ASSUME NEW m, IsData(m), NEW k \in Phases, m.head = Kind(k)
  PROVE  k \in {0, 2} /\ \A s : Belongs(m, k, s)
  <1>1. k \in {0, 2}
    BY DEF IsData, Kind, Phases
  <1> QED
    BY <1>1 DEF Belongs

\* The loop of mergeQueryAns stops where the chain does.
LEMMA NowIsStop == \A d \in 0..N - 2 : Now[d] = Stop(d)
  <1>1. N \in Nat /\ N >= 2 /\ SelectIdx \in 1..N
    BY NAssumption, SelectAssumption DEF Procs, Ring!Procs
  <1>2. ASSUME NEW d \in 0..N - 2 PROVE Now[d] = Stop(d)
    <2>1. TurnOf(d, SelectIdx, N) = IF d < SelectIdx - 1 THEN SelectIdx - 1 - d
                                                         ELSE SelectIdx - 1 - d + N
      BY <1>1, LoopIsRing
    <2>2. Stop(d) = IF d < SelectIdx - 1 THEN SelectIdx - 1 - d
                                         ELSE SelectIdx - 1 - d + N
      BY <1>1, StopIs
    <2> QED
      BY <2>1, <2>2 DEF Now
  <1> QED
    BY <1>2

\* An instance sends the answer in the phase of its turn.
LEMMA SendersTurn ==
  ASSUME NEW p \in Procs, step[p] \in Nat, finish_index[p] \in 4..N + 2,
         step[p] < Work(p)
  PROVE  p = Stop(finish_index[p] - 4) /\ step[p] = 0 /\ Work(p) = 1
  <1>1. PICK k \in 4..N + 2 : finish_index[p] = k
    OBVIOUS
  <1>2. N \in Nat /\ k \in Nat /\ k >= 4
    BY NAssumption
  <1>3. Work(p) = IF p = Now[k - 4] THEN 1 ELSE 0
    BY <1>1, <1>2 DEF Work
  <1>4. k - 4 \in 0..N - 2
    BY <1>2
  <1>5. Now[k - 4] = Stop(k - 4)
    BY <1>4, NowIsStop
  <1> QED
    BY <1>1, <1>3, <1>5

\* What comes to the next instance belongs to that phase and no other.
LEMMA AnswerPhase ==
  ASSUME NEW j \in 4..N + 2, NEW k \in 4..N + 2, Down(Stop(j - 4)) = Stop(k - 3)
  PROVE  k = j
  <1>1. N \in Nat /\ N >= 2
    BY NAssumption
  <1>2. j - 4 \in 0..N - 2 /\ k - 3 \in 0..N - 1 /\ j - 4 + 1 \in 0..N - 1
    BY <1>1
  <1>3. Stop(j - 4 + 1) = Stop(k - 3)
    BY <1>2, StopArithmetic
  <1>4. j - 4 + 1 = k - 3
    BY <1>2, <1>3, StopArithmetic
  <1> QED
    BY <1>4

-------------------------------------------------------------------------------
(***************************************************************************)
(* The barrier.                                                            *)
(***************************************************************************)

\* The first message of a stream is sound.
LEMMA HeadSound ==
  ASSUME Streams, NEW p \in Procs, wire[p] # << >>
  PROVE  Sound(Head(wire[p]))
  <1>1. PICK S : /\ wire \in [Procs -> Seq(S)]
                 /\ handling \in [Procs -> Held(S)]
                 /\ \A m \in S : Sound(m)
    BY DEF Streams
  <1>2. Head(wire[p]) \in S
    BY <1>1, TailElements
  <1> QED
    BY <1>1, <1>2

\* A sound message with the header of a token is one, and an honest one.
LEMMA TokenSound ==
  ASSUME NEW m, Sound(m), m.head = "finish"
  PROVE  /\ m \in Ring!Token
         /\ m.idx \in Nat /\ m.cnt \in [Procs -> Nat]
         /\ \A q \in Procs : m.cnt[q] # 0 => m.idx \in is_finished[q]
  BY DEF Sound, Ring!Token, Procs

\* The keys of an instance's parts.
LEMMA OwnKey ==
  ASSUME NEW p \in Procs, NEW i \in 1..Len(Parts[p])
  PROVE  Parts[p][i] \in Range(Parts[p]) /\ Parts[p][i] \in AllKeys
  <1>1. Parts[p] \in Seq(Nat)
    BY PartsAssumption
  <1>2. Parts[p][i] \in Range(Parts[p])
    BY <1>1, LenProperties DEF Range
  <1> QED
    BY <1>2 DEF AllKeys

\* The first loop of preprocess is within Parts[p].
LEMMA LoopIndex ==
  ASSUME ControlType, NEW p \in Procs, InPhase(p, 0)
  PROVE  /\ finish_index[p] = 0 /\ pc[p] = "run"
         /\ step[p] \in Nat /\ step[p] < 2 * Len(Parts[p])
         /\ Len(Parts[p]) \in Nat
         /\ step[p] \div 2 + 1 \in 1..Len(Parts[p])
  <1>1. Len(Parts[p]) \in Nat
    BY PartsAssumption, LenProperties
  <1>2. finish_index[p] = 0 /\ pc[p] = "run" /\ step[p] < Work(p)
    BY DEF InPhase
  <1>3. Work(p) = 2 * Len(Parts[p])
    BY <1>2 DEF Work
  <1>4. step[p] \in Nat
    BY DEF ControlType
  <1>5. step[p] \div 2 + 1 \in 1..Len(Parts[p])
    BY <1>1, <1>2, <1>3, <1>4
  <1> QED
    BY <1>1, <1>2, <1>3, <1>4, <1>5

\* The shared variables of the barrier are left alone.
LEMMA ControlQuiet ==
  ASSUME ControlInv, UNCHANGED <<mainVars, serverVars>>,
         step' \in [Procs -> Nat], partKeyMap' \in [Procs -> SUBSET AllKeys]
  PROVE  ControlInv'
  <1> USE DEF ControlInv, mainVars, serverVars
  <1>1. ControlType'
    BY DEF ControlType
  <1>2. FinishedIsPrefix' /\ WakeIsCurrent' /\ LeftAnnounced'
    BY DEF FinishedIsPrefix, Ring!Inside, WakeIsCurrent, LeftAnnounced
  <1>3. AnnouncedByAll'
    BY DEF AnnouncedByAll, Announced
  <1> QED
    BY <1>1, <1>2, <1>3

\* What the main thread calculates.
LEMMA CalculateControl ==
  ASSUME FlushInv, NEW p \in Procs, Calculate(p)
  PROVE  ControlInv'
  <1>1. ControlType /\ ControlInv
    BY DEF FlushInv, ControlInv
  <1>2. UNCHANGED <<mainVars, serverVars>>
    BY DEF Calculate, AddPartKey, SendPartKey, CollectOrder, SendPartSaleData,
           MergeData, GetLocalUnderSale, SendFinalAns
  <1>6. Advance(p)
    BY DEF Calculate, AddPartKey, SendPartKey, CollectOrder, SendPartSaleData,
           MergeData, GetLocalUnderSale, SendFinalAns
  <1>3. step' \in [Procs -> Nat]
    BY <1>1, <1>6 DEF Advance, ControlType
  <1>4. CASE AddPartKey(p)
    <2>1. Parts[p][step[p] \div 2 + 1] \in AllKeys
      BY <1>1, <1>4, LoopIndex, OwnKey DEF AddPartKey
    <2>2. partKeyMap' \in [Procs -> SUBSET AllKeys]
      BY <1>1, <1>4, <2>1 DEF AddPartKey, ControlType
    <2> QED
      BY <1>1, <1>2, <1>3, <2>2, ControlQuiet
  <1>5. CASE ~ AddPartKey(p)
    <2>1. UNCHANGED partKeyMap
      BY <1>5 DEF Calculate, SendPartKey, CollectOrder, SendPartSaleData,
                  MergeData, GetLocalUnderSale, SendFinalAns, dataVars
    <2>2. partKeyMap' \in [Procs -> SUBSET AllKeys]
      BY <1>1, <2>1 DEF ControlType
    <2> QED
      BY <1>1, <1>2, <1>3, <2>2, ControlQuiet
  <1> QED
    BY <1>4, <1>5

\* doAsync.
LEMMA SynchroniseControl ==
  ASSUME ControlInv, NEW p \in Procs, Synchronise(p)
  PROVE  ControlInv'
  <1> USE DEF ControlInv, ControlType, queryVars, dataVars, Ring!mainVars,
              Ring!serverVars, Procs
  <1>1. CASE EnterBarrier(p)
    <2>1. Ring!EnterBarrier(p) /\ UNCHANGED queryVars
      BY <1>1 DEF EnterBarrier
    <2>2. ControlType'
      BY <2>1 DEF Ring!EnterBarrier
    <2>3. FinishedIsPrefix'
      BY <2>1 DEF Ring!EnterBarrier, FinishedIsPrefix, Ring!Inside
    <2>4. AnnouncedByAll'
      BY <2>1 DEF Ring!EnterBarrier, AnnouncedByAll, Announced
    <2>5. WakeIsCurrent' /\ LeftAnnounced'
      BY <2>1 DEF Ring!EnterBarrier, WakeIsCurrent, LeftAnnounced
    <2> QED
      BY <2>2, <2>3, <2>4, <2>5
  <1>2. CASE LeaveBarrier(p)
    <2>1. /\ Ring!LeaveBarrier(p)
          /\ step' = [step EXCEPT ![p] = 0]
          /\ UNCHANGED <<dataVars, handling>>
      BY <1>2 DEF LeaveBarrier
    <2>2. ControlType'
      BY <2>1 DEF Ring!LeaveBarrier
    <2>3. FinishedIsPrefix'
      BY <2>1 DEF Ring!LeaveBarrier, FinishedIsPrefix, Ring!Inside
    <2>4. AnnouncedByAll'
      BY <2>1 DEF Ring!LeaveBarrier, AnnouncedByAll, Announced
    <2>5. WakeIsCurrent'
      BY <2>1 DEF Ring!LeaveBarrier, WakeIsCurrent
    <2>6. LeftAnnounced'
      <3>1. /\ UNCHANGED has_notify
            /\ finish_index' = [finish_index EXCEPT ![p] = @ + 1]
            /\ pc' = [pc EXCEPT ![p] = "run"] /\ pc[p] = "woken"
        BY <2>1 DEF Ring!LeaveBarrier
      <3>2. \A q \in Procs \ {p} : finish_index'[q] = finish_index[q]
                                 /\ pc'[q] = pc[q]
        BY <3>1
      <3>3. \A k \in Nat : k < finish_index'[p] => k \in has_notify[p]
        BY <3>1 DEF LeftAnnounced
      <3>4. pc'[p] # "woken"
        BY <3>1
      <3> QED
        BY <3>1, <3>2, <3>3, <3>4 DEF LeftAnnounced
    <2> QED
      BY <2>2, <2>3, <2>4, <2>5, <2>6
  <1>3. CASE (Ring!SendFinish(p) \/ Ring!Wait(p)) /\ UNCHANGED queryVars
    <2> USE <1>3 DEF Ring!SendFinish, Ring!Wait
    <2>1. ControlType'
      OBVIOUS
    <2>2. FinishedIsPrefix'
      BY DEF FinishedIsPrefix, Ring!Inside
    <2>3. AnnouncedByAll'
      BY DEF AnnouncedByAll, Announced
    <2>4. WakeIsCurrent' /\ LeftAnnounced'
      BY DEF WakeIsCurrent, LeftAnnounced
    <2> QED
      BY <2>1, <2>2, <2>3, <2>4
  <1> QED
    BY <1>1, <1>2, <1>3 DEF Synchronise

\* The server thread, but for the announcement of a barrier.
LEMMA ServeControl ==
  ASSUME FlushInv, NEW p \in Procs,
         \/ ReceivePartKey(p) \/ ReceiveFinalPart(p) \/ ReceiveFinalAns(p)
         \/ Forward(p) \/ FallThrough(p)
         \/ (Ring!DropToken(p) \/ Ring!PassToken(p)) /\ UNCHANGED queryVars
  PROVE  ControlInv'
  <1>1. ControlInv /\ ControlType /\ Streams
    BY DEF FlushInv, ControlInv
  <1>2. UNCHANGED <<mainVars, serverVars, step>>
    BY DEF ReceivePartKey, ReceiveFinalPart, ReceiveFinalAns, Forward,
           FallThrough, Ring!DropToken, Ring!PassToken, Ring!mainVars,
           Ring!serverVars, mainVars, serverVars, queryVars, dataVars
  <1>3. partKeyMap' \in [Procs -> SUBSET AllKeys]
    <2>1. CASE ReceivePartKey(p)
      <3>1. Sound(Head(wire[p])) /\ Head(wire[p]).head = "partKey"
        BY <1>1, <2>1, HeadSound DEF ReceivePartKey, Reads, Ring!Receives
      <3>2. Head(wire[p]).key \in AllKeys
        BY <3>1 DEF Sound, Ring!Token
      <3> QED
        BY <1>1, <2>1, <3>2 DEF ReceivePartKey, ControlType
    <2>2. CASE ~ ReceivePartKey(p)
      BY <1>1, <2>2 DEF ReceiveFinalPart, ReceiveFinalAns, Forward, FallThrough,
                        queryVars, dataVars, ControlType
    <2> QED
      BY <2>1, <2>2
  <1> QED
    BY <1>1, <1>2, <1>3, ControlQuiet DEF ControlType

\* A server sees a complete token: everybody has reached the barrier.
LEMMA CompleteControl ==
  ASSUME FlushInv, NEW p \in Procs, Reads(p, "finish"), Ring!CompleteToken(p),
         UNCHANGED queryVars
  PROVE  ControlInv'
  <1> DEFINE t == Head(wire[p])
  <1>1. /\ UNCHANGED <<mainVars, has_notify>>
        /\ notifying' = [notifying EXCEPT ![p] = t.idx]
        /\ notifying[p] = Ring!None
        /\ t.idx \notin has_notify[p]
        /\ Ring!Current(p, t) /\ Ring!CheckFinish(t)
    BY DEF Ring!CompleteToken, Ring!mainVars, mainVars, Ring!Receives
  <1>2. Sound(t) /\ t.head = "finish"
    BY HeadSound DEF FlushInv, Reads, Ring!Receives
  <1> HIDE DEF t
  <1>3. /\ t.idx \in Nat /\ t.cnt \in [Procs -> Nat]
        /\ \A q \in Procs : t.cnt[q] # 0 => t.idx \in is_finished[q]
    BY <1>2, TokenSound
  <1>4. t.idx = finish_index[p]
    BY <1>1 DEF Ring!Current
  <1>5. \A q \in Procs : t.idx \in is_finished[q]
    BY <1>1, <1>3 DEF Ring!CheckFinish, Procs
  <1> USE DEF FlushInv, ControlInv, mainVars
  <1>6. ControlType'
    BY <1>1, <1>3 DEF ControlType, queryVars, dataVars
  <1>7. FinishedIsPrefix' /\ LeftAnnounced'
    BY <1>1 DEF FinishedIsPrefix, Ring!Inside, LeftAnnounced
  <1>8. AnnouncedByAll'
    BY <1>1, <1>5 DEF AnnouncedByAll, Announced, ControlType
  <1>9. WakeIsCurrent'
    BY <1>1, <1>4 DEF WakeIsCurrent, LeftAnnounced, ControlType
  <1> QED
    BY <1>6, <1>7, <1>8, <1>9

\* The server calls notify_one.
LEMMA NotifyControl ==
  ASSUME ControlInv, NEW p \in Procs, Ring!Notify(p), UNCHANGED queryVars
  PROVE  ControlInv'
  <1> USE DEF ControlInv, ControlType, queryVars, dataVars
  <1>1. /\ UNCHANGED <<finish_index, is_finished>>
        /\ notifying[p] # Ring!None /\ notifying[p] \in Nat
        /\ has_notify' = [has_notify EXCEPT ![p] = @ \cup {notifying[p]}]
        /\ notifying' = [notifying EXCEPT ![p] = Ring!None]
    BY DEF Ring!Notify
  <1>2. /\ \A q \in Procs \ {p} : pc'[q] = pc[q]
        /\ \/ pc'[p] = pc[p]
           \/ pc[p] = "wait" /\ pc'[p] = "woken"
        /\ pc' \in [Procs -> {"run", "entered", "sent", "wait", "woken"}]
    BY DEF Ring!Notify
  <1>3. ControlType'
    BY <1>1, <1>2
  <1>4. FinishedIsPrefix'
    BY <1>1, <1>2 DEF FinishedIsPrefix, Ring!Inside
  <1>5. \A q \in Procs : \A k \in Nat : Announced(q, k)' => Announced(q, k)
    BY <1>1 DEF Announced, Ring!None
  <1>6. AnnouncedByAll'
    BY <1>1, <1>5 DEF AnnouncedByAll
  <1>7. WakeIsCurrent'
    BY <1>1, <1>2 DEF WakeIsCurrent
  <1>8. LeftAnnounced'
    BY <1>1, <1>2 DEF LeftAnnounced, WakeIsCurrent
  <1> QED
    BY <1>3, <1>4, <1>6, <1>7, <1>8

LEMMA NextControl == FlushInv /\ [Next]_vars => ControlInv'
  <1> SUFFICES ASSUME FlushInv, [Next]_vars PROVE ControlInv'
    OBVIOUS
  <1>1. ControlInv /\ ControlType
    BY DEF FlushInv, ControlInv
  <1>2. CASE UNCHANGED vars
    <2>1. UNCHANGED <<mainVars, serverVars, step, partKeyMap>>
      BY <1>2 DEF vars, queryVars, dataVars, Ring!vars, mainVars, serverVars
    <2> QED
      BY <1>1, <2>1, ControlQuiet DEF ControlType
  <1>3. CASE Next
    <2>1. PICK p \in Procs : Calculate(p) \/ Synchronise(p) \/ Serve(p)
      BY <1>3 DEF Next
    <2>2. CASE Serve(p)
      <3>1. \/ \/ ReceivePartKey(p) \/ ReceiveFinalPart(p) \/ ReceiveFinalAns(p)
               \/ Forward(p) \/ FallThrough(p)
               \/ (Ring!DropToken(p) \/ Ring!PassToken(p)) /\ UNCHANGED queryVars
            \/ /\ Reads(p, "finish") /\ Ring!CompleteToken(p)
               /\ UNCHANGED queryVars
            \/ Ring!Notify(p) /\ UNCHANGED queryVars
        BY <2>2 DEF Serve, ReceiveFinish, Ring!HandleFinish
      <3> QED
        BY <1>1, <3>1, ServeControl, CompleteControl, NotifyControl
    <2> QED
      BY <1>1, <2>1, <2>2, CalculateControl, SynchroniseControl
  <1> QED
    BY <1>2, <1>3

-------------------------------------------------------------------------------
(***************************************************************************)
(* What is in the streams.                                                 *)
(***************************************************************************)

\* Instances only ever reach more barriers.
LEMMA FinishedGrows ==
  ASSUME ControlType, [Next]_vars
  PROVE  \A q \in Procs : is_finished[q] \subseteq is_finished'[q]
  <1> USE DEF mainVars, serverVars, queryVars, Ring!mainVars, Ring!serverVars
  <1>1. CASE UNCHANGED is_finished
    BY <1>1
  <1>2. ASSUME NEW p \in Procs, EnterBarrier(p)
        PROVE  \A q \in Procs : is_finished[q] \subseteq is_finished'[q]
    BY <1>2 DEF EnterBarrier, Ring!EnterBarrier, ControlType
  <1>3. \/ UNCHANGED is_finished
        \/ \E p \in Procs : EnterBarrier(p)
    <2>1. CASE UNCHANGED vars
      BY <2>1 DEF vars, Ring!vars
    <2>2. ASSUME NEW p \in Procs, Calculate(p) PROVE UNCHANGED is_finished
      BY <2>2 DEF Calculate, AddPartKey, SendPartKey, CollectOrder,
                  SendPartSaleData, MergeData, GetLocalUnderSale, SendFinalAns
    <2>3. ASSUME NEW p \in Procs, Synchronise(p)
          PROVE  UNCHANGED is_finished \/ EnterBarrier(p)
      BY <2>3 DEF Synchronise, LeaveBarrier, Ring!LeaveBarrier,
                  Ring!SendFinish, Ring!Wait
    <2>4. ASSUME NEW p \in Procs, Serve(p) PROVE UNCHANGED is_finished
      BY <2>4 DEF Serve, ReceiveFinish, Ring!HandleFinish, Ring!DropToken,
                  Ring!PassToken, Ring!CompleteToken, Ring!Notify,
                  ReceivePartKey, ReceiveFinalPart, ReceiveFinalAns, Forward,
                  FallThrough
    <2> QED
      BY <2>1, <2>2, <2>3, <2>4 DEF Next
  <1> QED
    BY <1>1, <1>2, <1>3

\* A message stays sound when more instances reach more barriers.
LEMMA SoundGrows ==
  ASSUME NEW m, Sound(m),
         \A q \in Procs : is_finished[q] \subseteq is_finished'[q]
  PROVE  Sound(m)'
  BY DEF Sound

\* At most one new message, a sound one.
LEMMA StreamsWith ==
  ASSUME NEW S, \A m \in S : Sound(m), NEW u, Sound(u)',
         \A q \in Procs : is_finished[q] \subseteq is_finished'[q],
         wire' \in [Procs -> Seq(S \cup {u})],
         handling' \in [Procs -> Held(S \cup {u})]
  PROVE  Streams'
  <1>1. \A m \in S \cup {u} : Sound(m)'
    BY SoundGrows
  <1> QED
    BY <1>1 DEF Streams

\* What may be in the streams may be in larger ones.
LEMMA TypesGrow ==
  ASSUME NEW S, NEW u, wire \in [Procs -> Seq(S)],
         handling \in [Procs -> Held(S)]
  PROVE  /\ wire \in [Procs -> Seq(S \cup {u})]
         /\ handling \in [Procs -> Held(S \cup {u})]
  <1>1. \A p \in Procs : wire[p] \in Seq(S \cup {u})
    BY SeqMonotonic
  <1>2. \A p \in Procs : handling[p] \in Held(S \cup {u})
    BY DEF Held
  <1> QED
    BY <1>1, <1>2

\* Nothing is sent or read.
LEMMA StreamsQuiet ==
  ASSUME Streams, NEW p \in Procs,
         \A q \in Procs : is_finished[q] \subseteq is_finished'[q],
         wire' = wire,
         handling' = handling \/ handling' = [handling EXCEPT ![p] = Idle]
  PROVE  Streams'
  <1>1. PICK S : /\ wire \in [Procs -> Seq(S)]
                 /\ handling \in [Procs -> Held(S)]
                 /\ \A m \in S : Sound(m)
    BY DEF Streams
  <1>2. handling' \in [Procs -> Held(S)]
    BY <1>1 DEF Held
  <1>3. \A m \in S : Sound(m)'
    BY <1>1, SoundGrows
  <1> QED
    BY <1>1, <1>2, <1>3 DEF Streams

\* A sound message is sent.
LEMMA StreamsSend ==
  ASSUME Streams, NEW p \in Procs,
         \A q \in Procs : is_finished[q] \subseteq is_finished'[q],
         NEW u, Sound(u)',
         wire' = [wire EXCEPT ![Down(p)] = Append(@, u)],
         handling' = handling
  PROVE  Streams'
  <1>1. PICK S : /\ wire \in [Procs -> Seq(S)]
                 /\ handling \in [Procs -> Held(S)]
                 /\ \A m \in S : Sound(m)
    BY DEF Streams
  <1>2. /\ wire \in [Procs -> Seq(S \cup {u})]
        /\ handling \in [Procs -> Held(S \cup {u})]
    BY <1>1, TypesGrow
  <1>3. Append(wire[Down(p)], u) \in Seq(S \cup {u})
    BY <1>1, RingArithmetic, AppendElements
  <1>4. wire' \in [Procs -> Seq(S \cup {u})]
    BY <1>2, <1>3
  <1> QED
    BY <1>1, <1>2, <1>4, StreamsWith

\* The first message is read, and perhaps kept for the next steps.
LEMMA StreamsRead ==
  ASSUME Streams, NEW p \in Procs, wire[p] # << >>,
         \A q \in Procs : is_finished[q] \subseteq is_finished'[q],
         wire' = [wire EXCEPT ![p] = Tail(@)],
         \/ handling' = handling
         \/ IsData(Head(wire[p])) /\ GoOn(p, "forward")
  PROVE  Streams'
  <1>1. PICK S : /\ wire \in [Procs -> Seq(S)]
                 /\ handling \in [Procs -> Held(S)]
                 /\ \A m \in S : Sound(m)
    BY DEF Streams
  <1>2. Tail(wire[p]) \in Seq(S) /\ Head(wire[p]) \in S
    BY <1>1, TailElements
  <1>3. wire' \in [Procs -> Seq(S)]
    BY <1>1, <1>2
  <1>4. handling' \in [Procs -> Held(S)]
    BY <1>1, <1>2 DEF Held, GoOn
  <1>5. \A m \in S : Sound(m)'
    BY <1>1, SoundGrows
  <1> QED
    BY <1>3, <1>4, <1>5 DEF Streams

\* What a server has in its hands.
LEMMA HandType ==
  ASSUME Streams, NEW p \in Procs, handling[p] # Idle
  PROVE  /\ handling[p].rest \in {"forward", "ans"}
         /\ handling[p] = [rest |-> handling[p].rest, msg |-> handling[p].msg]
         /\ IsData(handling[p].msg) /\ Sound(handling[p].msg)
  <1>1. PICK S : /\ wire \in [Procs -> Seq(S)]
                 /\ handling \in [Procs -> Held(S)]
                 /\ \A m \in S : Sound(m)
    BY DEF Streams
  <1>2. handling[p] \in [rest : {"forward", "ans"}, msg : {m \in S : IsData(m)}]
    BY <1>1 DEF Held
  <1> QED
    BY <1>1, <1>2

\* A server that has something to forward does not have empty hands.
LEMMA BusyHands ==
  ASSUME NEW p \in Procs, handling[p].rest \in {"forward", "ans"}
  PROVE  handling[p] # Idle
  BY DEF Idle

\* What was in the hands is sent on; of finalPart something is left to do.
LEMMA StreamsForward ==
  ASSUME Streams, NEW p \in Procs, Forward(p),
         \A q \in Procs : is_finished[q] \subseteq is_finished'[q]
  PROVE  Streams'
  <1>1. PICK S : /\ wire \in [Procs -> Seq(S)]
                 /\ handling \in [Procs -> Held(S)]
                 /\ \A m \in S : Sound(m)
    BY DEF Streams
  <1>2. handling[p] \in [rest : {"forward", "ans"}, msg : {m \in S : IsData(m)}]
    BY <1>1, BusyHands DEF Held, Forward
  <1>3. handling[p].msg \in S
    BY <1>2
  <1>4. S \cup {handling[p].msg} = S
    BY <1>3
  <1>5. Append(wire[Down(p)], handling[p].msg) \in Seq(S)
    BY <1>1, <1>4, RingArithmetic, AppendElements
  <1>6. wire' \in [Procs -> Seq(S)]
    BY <1>1, <1>5 DEF Forward, Send
  <1>7. handling' \in [Procs -> Held(S)]
    <2>1. [handling[p] EXCEPT !.rest = "ans"] \in Held(S)
      BY <1>2 DEF Held
    <2>2. Idle \in Held(S)
      BY DEF Held
    <2> QED
      BY <1>1, <2>1, <2>2 DEF Forward
  <1>8. \A m \in S : Sound(m)'
    BY <1>1, SoundGrows
  <1> QED
    BY <1>6, <1>7, <1>8 DEF Streams

\* A token is passed on.
LEMMA StreamsRelay ==
  ASSUME Streams, NEW p \in Procs, wire[p] # << >>,
         \A q \in Procs : is_finished[q] \subseteq is_finished'[q],
         NEW u, Sound(u)',
         wire' = [wire EXCEPT ![p] = Tail(@), ![Down(p)] = Append(@, u)],
         handling' = handling
  PROVE  Streams'
  <1>1. PICK S : /\ wire \in [Procs -> Seq(S)]
                 /\ handling \in [Procs -> Held(S)]
                 /\ \A m \in S : Sound(m)
    BY DEF Streams
  <1>2. /\ wire \in [Procs -> Seq(S \cup {u})]
        /\ handling \in [Procs -> Held(S \cup {u})]
    BY <1>1, TypesGrow
  <1>3. /\ Append(wire[Down(p)], u) \in Seq(S \cup {u})
        /\ Down(p) # p
    BY <1>1, RingArithmetic, AppendElements
  <1>4. Tail(wire[p]) \in Seq(S \cup {u})
    BY <1>2, TailElements
  <1>5. wire' \in [Procs -> Seq(S \cup {u})]
    BY <1>2, <1>3, <1>4
  <1> QED
    BY <1>1, <1>2, <1>5, StreamsWith

-------------------------------------------------------------------------------
(***************************************************************************)
(* Where the data messages are.                                            *)
(***************************************************************************)

\* A message keeps its origin when more keys are known.
LEMMA FromStays ==
  ASSUME NEW m, NEW k, NEW q \in Procs, From(m, k, q),
         partKeyMap[q] \subseteq partKeyMap'[q]
  PROVE  From(m, k, q)'
  BY DEF From, Known

\* What DataInv says after a step, for any message.
LEMMA DataIntro ==
  ASSUME ASSUME NEW s \in Procs, NEW k \in Phases, NEW i \in 1..Len(wire'[s]),
                NEW m, m = wire'[s][i], Belongs(m, k, s)
         PROVE  \E q \in Procs : From(m, k, q)' /\ Placed(k, q, s, i)',
         ASSUME NEW s \in Procs, NEW k \in Phases, handling'[s] # Idle,
                NEW m, m = handling'[s].msg, Belongs(m, k, s)
         PROVE  \E q \in Procs : From(m, k, q)' /\ Placed(k, q, s, 0)'
  PROVE  DataInv'
  <1>1. ASSUME NEW s \in Procs, NEW k \in Phases
        PROVE  /\ \A i \in 1..Len(wire'[s]) : Belongs(wire'[s][i], k, s) =>
                    \E q \in Procs :
                      From(wire[s][i], k, q)' /\ Placed(k, q, s, i)'
               /\ handling'[s] # Idle /\ Belongs(handling'[s].msg, k, s) =>
                    \E q \in Procs :
                      From(handling[s].msg, k, q)' /\ Placed(k, q, s, 0)'
    BY DEF From
  <1> QED
    BY <1>1 DEF DataInv

\* At most a message is sent, which overtakes nothing and, if it is data, has
\* its place; the servers have nothing new in their hands.
LEMMA DataSend ==
  ASSUME Streams, DataInv, NEW d \in Procs, NEW e, NEW last,
         last = Len(wire[d]) + 1,
         wire' = [wire EXCEPT ![d] = Append(@, e)],
         \A s \in Procs : handling'[s] # Idle =>
           handling[s] # Idle /\ handling'[s].msg = handling[s].msg,
         \A q \in Procs : partKeyMap[q] \subseteq partKeyMap'[q],
         \A p \in Procs : \A k \in Phases : Announced(p, k)' => Announced(p, k),
         \A k \in Phases : \A q, s \in Procs : \A i \in Nat :
           (s = d => i < last) => NotOvertaken(e, k, q, s, i, d, last),
         \A k \in Phases : Belongs(e, k, d) =>
           \E q \in Procs : From(e, k, q)' /\ Placed(k, q, d, last)'
  PROVE  DataInv'
  <1>1. PICK S : wire \in [Procs -> Seq(S)]
    BY DEF Streams
  <1>2. \A s \in Procs : Len(wire[s]) \in Nat
    BY <1>1, LenProperties
  <1>3. ASSUME NEW k \in Phases, NEW q \in Procs, NEW s \in Procs, NEW i \in Nat,
               s = d => i < last, Placed(k, q, s, i)
        PROVE  Placed(k, q, s, i)'
    <2>1. Clear(wire, k, q, s, i)
      BY <1>3 DEF Placed
    <2>2. NotOvertaken(e, k, q, s, i, d, Len(wire[d]) + 1)
      BY <1>3
    <2>3. Clear(wire', k, q, s, i)
      BY <1>1, <2>1, <2>2, ClearSend
    <2>4. Passed(k, q, s)'
      BY <1>3 DEF Placed, Passed
    <2> QED
      BY <1>3, <2>3, <2>4 DEF Placed
  <1>4. ASSUME NEW s \in Procs, NEW k \in Phases, NEW i \in 1..Len(wire'[s]),
               NEW m, m = wire'[s][i], Belongs(m, k, s)
        PROVE  \E q \in Procs : From(m, k, q)' /\ Placed(k, q, s, i)'
    <2>1. \/ i \in 1..Len(wire[s]) /\ m = wire[s][i]
          \/ s = d /\ i = last /\ m = e
      BY <1>1, <1>4, AppendElements
    <2>2. CASE i \in 1..Len(wire[s]) /\ m = wire[s][i]
      <3>1. PICK q \in Procs : From(m, k, q) /\ Placed(k, q, s, i)
        BY <1>4, <2>2 DEF DataInv
      <3>2. i \in Nat /\ (s = d => i < last)
        BY <1>2, <2>2
      <3>3. Placed(k, q, s, i)'
        BY <1>3, <3>1, <3>2
      <3> QED
        BY <3>1, <3>3, FromStays
    <2>3. CASE s = d /\ i = last /\ m = e
      BY <1>4, <2>3
    <2> QED
      BY <2>1, <2>2, <2>3
  <1>5. ASSUME NEW s \in Procs, NEW k \in Phases, handling'[s] # Idle,
               NEW m, m = handling'[s].msg, Belongs(m, k, s)
        PROVE  \E q \in Procs : From(m, k, q)' /\ Placed(k, q, s, 0)'
    <2>1. handling[s] # Idle /\ m = handling[s].msg
      BY <1>5
    <2>2. PICK q \in Procs : From(m, k, q) /\ Placed(k, q, s, 0)
      BY <1>5, <2>1 DEF DataInv
    <2>3. Placed(k, q, s, 0)'
      BY <1>2, <1>3, <2>2
    <2> QED
      BY <2>2, <2>3, FromStays
  <1> QED
    BY <1>4, <1>5, DataIntro

\* No message moves, but the hands of a server may be emptied.
LEMMA DataQuiet ==
  ASSUME DataInv, wire' = wire,
         \A s \in Procs : handling'[s] # Idle =>
           handling[s] # Idle /\ handling'[s].msg = handling[s].msg,
         \A q \in Procs : partKeyMap[q] \subseteq partKeyMap'[q],
         \A p \in Procs : \A k \in Phases : Announced(p, k)' => Announced(p, k)
  PROVE  DataInv'
  <1>1. ASSUME NEW k \in Phases, NEW q \in Procs, NEW s \in Procs, NEW i,
               Placed(k, q, s, i)
        PROVE  Placed(k, q, s, i)'
    BY <1>1 DEF Placed, Passed, Clear
  <1>2. ASSUME NEW s \in Procs, NEW k \in Phases, NEW i \in 1..Len(wire'[s]),
               NEW m, m = wire'[s][i], Belongs(m, k, s)
        PROVE  \E q \in Procs : From(m, k, q)' /\ Placed(k, q, s, i)'
    <2>1. PICK q \in Procs : From(m, k, q) /\ Placed(k, q, s, i)
      BY <1>2 DEF DataInv
    <2> QED
      BY <1>1, <2>1, FromStays
  <1>3. ASSUME NEW s \in Procs, NEW k \in Phases, handling'[s] # Idle,
               NEW m, m = handling'[s].msg, Belongs(m, k, s)
        PROVE  \E q \in Procs : From(m, k, q)' /\ Placed(k, q, s, 0)'
    <2>1. handling[s] # Idle /\ m = handling[s].msg
      BY <1>3
    <2>2. PICK q \in Procs : From(m, k, q) /\ Placed(k, q, s, 0)
      BY <1>3, <2>1 DEF DataInv
    <2> QED
      BY <1>1, <2>2, FromStays
  <1> QED
    BY <1>2, <1>3, DataIntro

\* The first message of a stream is read, and perhaps kept for the next steps,
\* if it is data that comes from elsewhere.
LEMMA DataRead ==
  ASSUME Streams, DataInv, NEW p \in Procs, wire[p] # << >>, handling[p] = Idle,
         wire' = [wire EXCEPT ![p] = Tail(@)],
         \/ handling' = handling
         \/ /\ GoOn(p, "forward")
            /\ \A k \in Phases : Belongs(Head(wire[p]), k, p) =>
                 ~ From(Head(wire[p]), k, p),
         \A q \in Procs : partKeyMap[q] \subseteq partKeyMap'[q],
         \A q \in Procs : \A k \in Phases : Announced(q, k)' => Announced(q, k)
  PROVE  DataInv'
  <1>1. PICK S : wire \in [Procs -> Seq(S)] /\ handling \in [Procs -> Held(S)]
    BY DEF Streams
  <1>2. /\ \A i \in 1..Len(wire'[p]) : /\ i + 1 \in 1..Len(wire[p])
                                       /\ wire'[p][i] = wire[p][i + 1]
        /\ \A s \in Procs \ {p} : wire'[s] = wire[s]
        /\ 1 \in 1..Len(wire[p]) /\ Head(wire[p]) = wire[p][1]
        /\ \A s \in Procs : Len(wire[s]) \in Nat
    BY <1>1, TailElements, LenProperties
  <1>3. ASSUME NEW k \in Phases, NEW q \in Procs, NEW s \in Procs, NEW i \in Nat,
               s = p => i >= 1, Placed(k, q, s, i),
               NEW i2 \in Nat, i2 = (IF s = p THEN i - 1 ELSE i),
               i2 = 0 => s # q
        PROVE  Placed(k, q, s, i2)'
    <2>1. Clear(wire, k, q, s, i)
      BY <1>3 DEF Placed
    <2>2. Clear([wire EXCEPT ![p] = Tail(@)], k, q, s, i2)
      BY <1>1, <1>3, <2>1, ClearTail
    <2>3. Passed(k, q, s)'
      BY <1>3 DEF Placed, Passed
    <2> QED
      BY <1>3, <2>2, <2>3 DEF Placed
  <1>4. ASSUME NEW s \in Procs, NEW k \in Phases, NEW i \in 1..Len(wire'[s]),
               NEW m, m = wire'[s][i], Belongs(m, k, s)
        PROVE  \E q \in Procs : From(m, k, q)' /\ Placed(k, q, s, i)'
    <2>1. CASE s = p
      <3>1. i + 1 \in 1..Len(wire[s]) /\ m = wire[s][i + 1]
        BY <1>2, <1>4, <2>1
      <3>2. PICK q \in Procs : From(m, k, q) /\ Placed(k, q, s, i + 1)
        BY <1>4, <3>1 DEF DataInv
      <3>3. /\ i \in Nat /\ i # 0 /\ i + 1 \in Nat
            /\ i = IF s = p THEN i + 1 - 1 ELSE i + 1
        BY <1>2, <2>1, <3>1
      <3>4. Placed(k, q, s, i)'
        BY <1>3, <3>2, <3>3
      <3> QED
        BY <3>2, <3>4, FromStays
    <2>2. CASE s # p
      <3>1. i \in 1..Len(wire[s]) /\ m = wire[s][i]
        BY <1>2, <1>4, <2>2
      <3>2. PICK q \in Procs : From(m, k, q) /\ Placed(k, q, s, i)
        BY <1>4, <3>1 DEF DataInv
      <3>3. Placed(k, q, s, i)'
        BY <1>2, <1>3, <2>2, <3>1, <3>2
      <3> QED
        BY <3>2, <3>3, FromStays
    <2> QED
      BY <2>1, <2>2
  <1>5. ASSUME NEW s \in Procs, NEW k \in Phases, handling'[s] # Idle,
               NEW m, m = handling'[s].msg, Belongs(m, k, s)
        PROVE  \E q \in Procs : From(m, k, q)' /\ Placed(k, q, s, 0)'
    <2>1. CASE handling'[s] = handling[s]
      <3>1. handling[s] # Idle /\ m = handling[s].msg /\ s # p
        BY <1>5, <2>1
      <3>2. PICK q \in Procs : From(m, k, q) /\ Placed(k, q, s, 0)
        BY <1>5, <3>1 DEF DataInv
      <3>3. s # q
        BY <3>2 DEF Placed
      <3>4. Placed(k, q, s, 0)'
        BY <1>3, <3>1, <3>2, <3>3
      <3> QED
        BY <3>2, <3>4, FromStays
    <2>2. CASE handling'[s] # handling[s]
      <3>1. s = p /\ m = Head(wire[p])
        BY <1>1, <1>5, <2>2 DEF GoOn
      <3>2. \A q \in Procs : From(m, k, q) => q # p
        BY <1>5, <2>2, <3>1
      <3>3. PICK q \in Procs : From(m, k, q) /\ Placed(k, q, s, 1)
        BY <1>2, <1>5, <3>1 DEF DataInv
      <3>4. Placed(k, q, s, 0)'
        BY <1>3, <3>1, <3>2, <3>3
      <3> QED
        BY <3>3, <3>4, FromStays
    <2> QED
      BY <2>1, <2>2
  <1> QED
    BY <1>4, <1>5, DataIntro

\* A server passes on a token; if the token is complete, it may announce the
\* barrier.
LEMMA DataRelay ==
  ASSUME Streams, DataInv, NEW p \in Procs, wire[p] # << >>, handling[p] = Idle,
         NEW t \in Ring!Token, t = Head(wire[p]),
         wire' = [wire EXCEPT ![p] = Tail(@),
                       ![Down(p)] = Append(@, Ring!Stamped(p, t.idx, t.cnt))],
         UNCHANGED <<handling, partKeyMap>>,
         \A q \in Procs : \A k \in Phases : Announced(q, k)' =>
           \/ Announced(q, k)
           \/ q = p /\ k = t.idx /\ Ring!CheckFinish(t)
  PROVE  DataInv'
  <1> DEFINE u == Ring!Stamped(p, t.idx, t.cnt)
             w2 == [wire EXCEPT ![p] = Tail(@)]
  <1>1. PICK S : wire \in [Procs -> Seq(S)] /\ handling \in [Procs -> Held(S)]
    BY DEF Streams
  <1>2. /\ w2 \in [Procs -> Seq(S)]
        /\ w2[p] = Tail(wire[p]) /\ \A s \in Procs \ {p} : w2[s] = wire[s]
        /\ Down(p) \in Procs /\ Down(p) # p
    BY <1>1, TailElements, RingArithmetic
  <1>8. \A s \in Procs : Len(wire[s]) \in Nat /\ Len(w2[s]) \in Nat
    BY <1>1, <1>2, LenProperties
  <1>9. /\ \A i \in 1..Len(w2[p]) : /\ i + 1 \in 1..Len(wire[p])
                                    /\ w2[p][i] = wire[p][i + 1]
        /\ 1 \in 1..Len(wire[p]) /\ t = wire[p][1]
    BY <1>1, <1>2, TailElements
  <1>3. wire' = [w2 EXCEPT ![Down(p)] = Append(@, u)]
    BY <1>2
  <1>4. u.head = "finish" /\ t.head = "finish" /\ t.cnt \in [Procs -> Nat]
    BY DEF Ring!Stamped, Ring!Token, Procs
  <1> HIDE DEF u, w2
  <1>5. ASSUME NEW k \in Phases, NEW q \in Procs, NEW s \in Procs, NEW i \in Nat,
               s = p => i >= 1, Placed(k, q, s, i),
               NEW i2 \in Nat, i2 = (IF s = p THEN i - 1 ELSE i),
               i2 = 0 => s # q, i2 <= Len(w2[s])
        PROVE  Placed(k, q, s, i2)'
    <2>1. Clear(wire, k, q, s, i)
      BY <1>5 DEF Placed
    <2>2. Clear(w2, k, q, s, i2)
      BY <1>1, <1>5, <2>1, ClearTail DEF w2
    <2>3. NotOvertaken(t, k, q, s, i, p, 1)
      BY <1>9, <2>1 DEF Clear
    <2>4. NotOvertaken(u, k, q, s, i2, Down(p), Len(w2[Down(p)]) + 1)
      <3>1. s = Down(p) => i2 < Len(w2[Down(p)]) + 1
        BY <1>5, <1>8
      <3>2. Len(w2[Down(p)]) + 1 \in Nat
        BY <1>2, <1>8
      <3> QED
        BY <1>5, <2>3, <3>1, <3>2, StampBehind DEF u
    <2>5. Clear(wire', k, q, s, i2)
      <3>1. Clear([w2 EXCEPT ![Down(p)] = Append(@, u)], k, q, s, i2)
        BY <1>2, <1>5, <2>2, <2>4, ClearSend
      <3> QED
        BY <1>3, <3>1
    <2>6. Passed(k, q, s)'
      <3> SUFFICES ASSUME NEW r \in Procs, Announced(r, k)'
                   PROVE  Hops(q, s) > Hops(q, r)
        BY DEF Passed
      <3>1. CASE Announced(r, k)
        BY <1>5, <3>1 DEF Placed, Passed
      <3>2. CASE r = p /\ k = t.idx /\ Ring!CheckFinish(t)
        <4>1. t.cnt[q] # 0
          BY <1>4, <3>2 DEF Ring!CheckFinish, Procs
        <4>2. Ahead(q, s, i, p, 1)
          BY <1>4, <2>3, <3>2, <4>1 DEF NotOvertaken, IsToken
        <4> QED
          BY <1>5, <3>2, <4>2 DEF Ahead
      <3> QED
        BY <3>1, <3>2
    <2> QED
      BY <1>5, <2>5, <2>6 DEF Placed
  <1>6. ASSUME NEW s \in Procs, NEW k \in Phases, NEW i \in 1..Len(wire'[s]),
               NEW m, m = wire'[s][i], Belongs(m, k, s)
        PROVE  \E q \in Procs : From(m, k, q)' /\ Placed(k, q, s, i)'
    <2>1. m # u
      BY <1>4, <1>6 DEF Belongs, Kind
    <2>2. i \in 1..Len(w2[s]) /\ m = w2[s][i]
      BY <1>2, <1>3, <1>6, <2>1, AppendElements
    <2>3. CASE s = p
      <3>1. i + 1 \in 1..Len(wire[s]) /\ m = wire[s][i + 1]
        BY <1>9, <2>2, <2>3
      <3>2. PICK q \in Procs : From(m, k, q) /\ Placed(k, q, s, i + 1)
        BY <1>6, <3>1 DEF DataInv
      <3>3. i \in Nat /\ i # 0 /\ i + 1 >= 1 /\ i = (i + 1) - 1
        OBVIOUS
      <3>4. Placed(k, q, s, i)'
        BY <1>5, <1>8, <2>2, <2>3, <3>2, <3>3
      <3> QED
        BY <3>2, <3>4, FromStays
    <2>4. CASE s # p
      <3>1. i \in 1..Len(wire[s]) /\ m = wire[s][i]
        BY <1>2, <2>2, <2>4
      <3>2. PICK q \in Procs : From(m, k, q) /\ Placed(k, q, s, i)
        BY <1>6, <3>1 DEF DataInv
      <3>3. i \in Nat /\ i # 0
        OBVIOUS
      <3>4. Placed(k, q, s, i)'
        BY <1>5, <1>8, <2>2, <2>4, <3>2, <3>3
      <3> QED
        BY <3>2, <3>4, FromStays
    <2> QED
      BY <2>3, <2>4
  <1>7. ASSUME NEW s \in Procs, NEW k \in Phases, handling'[s] # Idle,
               NEW m, m = handling'[s].msg, Belongs(m, k, s)
        PROVE  \E q \in Procs : From(m, k, q)' /\ Placed(k, q, s, 0)'
    <2>1. handling[s] # Idle /\ m = handling[s].msg /\ s # p
      BY <1>7
    <2>2. PICK q \in Procs : From(m, k, q) /\ Placed(k, q, s, 0)
      BY <1>7, <2>1 DEF DataInv
    <2>3. s # q
      BY <2>2 DEF Placed
    <2>4. Placed(k, q, s, 0)'
      BY <1>5, <1>8, <2>1, <2>2, <2>3
    <2> QED
      BY <2>2, <2>4, FromStays
  <1> QED
    BY <1>6, <1>7, DataIntro

-------------------------------------------------------------------------------
(***************************************************************************)
(* The steps.                                                              *)
(***************************************************************************)

\* A token that carries the digit of an instance is of a barrier it has
\* reached: none can be behind what the instance sends in its phase.
LEMMA OwnClear ==
  ASSUME FlushInv, NEW p \in Procs, pc[p] = "run",
         NEW k \in Nat, finish_index[p] = k, NEW s \in Procs, NEW i
  PROVE  Clear(wire, k, p, s, i) /\ Passed(k, p, s)
  <1>1. k \notin is_finished[p]
    BY DEF FlushInv, ControlInv, FinishedIsPrefix, Ring!Inside
  <1>2. PICK S : wire \in [Procs -> Seq(S)] /\ \A m \in S : Sound(m)
    BY DEF FlushInv, Streams
  <1>3. ASSUME NEW r \in Procs, NEW j \in 1..Len(wire[r])
        PROVE  NotOvertaken(wire[r][j], k, p, s, i, r, j)
    <2>1. Sound(wire[r][j])
      BY <1>2, ElementOfSeq
    <2>2. /\ wire[r][j].head = "finish" /\ wire[r][j].cnt[p] # 0
          => wire[r][j].idx \in is_finished[p]
      BY <2>1, TokenSound
    <2> QED
      BY <1>1, <2>2 DEF NotOvertaken, IsToken
  <1>4. Passed(k, p, s)
    BY <1>1 DEF FlushInv, ControlInv, AnnouncedByAll, Passed
  <1> QED
    BY <1>3, <1>4 DEF Clear

\* The main thread sends a message of its own.
LEMMA SendOwn ==
  ASSUME FlushInv, NEW p \in Procs, pc[p] = "run", NEW e,
         Sound(e), e.head # "finish",
         \A k \in Phases : Belongs(e, k, Down(p)) =>
           finish_index[p] = k /\ From(e, k, p),
         wire' = [wire EXCEPT ![Down(p)] = Append(@, e)],
         UNCHANGED <<mainVars, serverVars, partKeyMap, handling>>
  PROVE  Streams' /\ DataInv'
  <1>1. Streams /\ DataInv
    BY DEF FlushInv
  <1>2. UNCHANGED <<is_finished, has_notify, notifying, partKeyMap, handling>>
    BY DEF mainVars, serverVars
  <1>3. Sound(e)'
    BY <1>2, SoundGrows
  <1>4. Streams'
    BY <1>1, <1>2, <1>3, StreamsSend
  <1>5. PICK S : wire \in [Procs -> Seq(S)]
    BY <1>1 DEF Streams
  <1>6. Down(p) \in Procs /\ Down(p) # p
    BY RingArithmetic
  <1>7. PICK last : last = Len(wire[Down(p)]) + 1
    OBVIOUS
  <1>8. last \in Nat /\ last # 0
    BY <1>5, <1>6, <1>7, LenProperties
  <1>9. \A k, q, s, i : NotOvertaken(e, k, q, s, i, Down(p), last)
    BY DEF NotOvertaken, IsToken
  <1>10. ASSUME NEW k \in Phases, Belongs(e, k, Down(p))
         PROVE  \E q \in Procs : From(e, k, q)' /\ Placed(k, q, Down(p), last)'
    <2>1. finish_index[p] = k /\ From(e, k, p)
      BY <1>10
    <2>2. Clear(wire, k, p, Down(p), last) /\ Passed(k, p, Down(p))
      BY <1>6, <2>1, OwnClear, PhaseNumbers
    <2>3. Clear([wire EXCEPT ![Down(p)] = Append(@, e)], k, p, Down(p), last)
      BY <1>5, <1>6, <1>8, <1>9, <1>7, <2>2, ClearSend
    <2>4. Placed(k, p, Down(p), last)'
      BY <1>2, <1>8, <2>2, <2>3 DEF Placed, Passed, Announced
    <2>5. From(e, k, p)'
      BY <1>2, <2>1, FromStays
    <2> QED
      BY <2>4, <2>5
  <1>11. \A q \in Procs : \A k \in Phases : Announced(q, k)' => Announced(q, k)
    BY <1>2 DEF Announced
  <1>12. DataInv'
    BY <1>1, <1>2, <1>6, <1>7, <1>9, <1>10, <1>11, DataSend
  <1> QED
    BY <1>4, <1>12

\* What the main thread calculates.
LEMMA CalculateFlush ==
  ASSUME FlushInv, NEW p \in Procs, Calculate(p)
  PROVE  Streams' /\ DataInv'
  <1>1. ControlType /\ Streams /\ DataInv /\ OwnKeys
    BY DEF FlushInv, ControlInv
  <1>2. CASE AddPartKey(p) \/ CollectOrder(p) \/ MergeData(p)
               \/ GetLocalUnderSale(p)
    <2>1. UNCHANGED <<mainVars, serverVars, wire, handling>>
      BY <1>2 DEF AddPartKey, CollectOrder, MergeData, GetLocalUnderSale
    <2>2. \A q \in Procs : partKeyMap[q] \subseteq partKeyMap'[q]
      BY <1>1, <1>2 DEF AddPartKey, CollectOrder, MergeData,
                        GetLocalUnderSale, ControlType
    <2>3. /\ \A q \in Procs : is_finished[q] \subseteq is_finished'[q]
          /\ \A q \in Procs : \A k \in Phases :
               Announced(q, k)' => Announced(q, k)
      BY <2>1 DEF mainVars, serverVars, Announced
    <2>4. Streams'
      BY <1>1, <2>1, <2>3, StreamsQuiet
    <2>5. DataInv'
      BY <1>1, <2>1, <2>2, <2>3, DataQuiet
    <2> QED
      BY <2>4, <2>5
  <1>3. CASE SendPartKey(p)
    <2>1. PICK i : i = step[p] \div 2 + 1
      OBVIOUS
    <2>2. /\ i \in 1..Len(Parts[p])
          /\ finish_index[p] = 0 /\ pc[p] = "run"
          /\ step[p] \in Nat /\ step[p] % 2 = 1
      BY <1>1, <1>3, <2>1, LoopIndex DEF SendPartKey
    <2>3. PICK e : e = PartKey(Parts[p][i])
      OBVIOUS
    <2>4. i <= (step[p] + 1) \div 2
      BY <2>1, <2>2
    <2>5. Parts[p][i] \in partKeyMap[p]
      BY <1>1, <2>2, <2>4 DEF OwnKeys
    <2>6. Parts[p][i] \in AllKeys /\ Parts[p][i] \in Range(Parts[p])
      BY <2>2, OwnKey
    <2>7. e.head = "partKey" /\ e.key = Parts[p][i]
      BY <2>3 DEF PartKey
    <2>8. Sound(e)
      BY <2>6, <2>7 DEF Sound
    <2>9. \A k \in Phases : Belongs(e, k, Down(p)) =>
            finish_index[p] = k /\ From(e, k, p)
      BY <2>2, <2>5, <2>6, <2>7 DEF Belongs, Kind, From, Known, Phases
    <2>10. wire' = [wire EXCEPT ![Down(p)] = Append(@, e)]
      BY <1>3, <2>1, <2>3 DEF SendPartKey, Send
    <2>11. UNCHANGED <<mainVars, serverVars, partKeyMap, handling>>
      BY <1>3 DEF SendPartKey
    <2> QED
      BY <2>2, <2>7, <2>8, <2>9, <2>10, <2>11, SendOwn
  <1>4. CASE SendPartSaleData(p)
    <2>1. PICK e : e = [head |-> "finalPart",
                        sale |-> partData[p][step[p] + 1], from |-> p]
      OBVIOUS
    <2>2. e.head = "finalPart" /\ e.from = p
      BY <2>1
    <2>3. finish_index[p] = 2 /\ pc[p] = "run"
      BY <1>4 DEF SendPartSaleData, InPhase
    <2>4. Sound(e)
      BY <2>2 DEF Sound
    <2>5. \A k \in Phases : Belongs(e, k, Down(p)) =>
            finish_index[p] = k /\ From(e, k, p)
      BY <2>2, <2>3 DEF Belongs, Kind, From, Phases
    <2>6. wire' = [wire EXCEPT ![Down(p)] = Append(@, e)]
      BY <1>4, <2>1 DEF SendPartSaleData, Send
    <2>7. UNCHANGED <<mainVars, serverVars, partKeyMap, handling>>
      BY <1>4 DEF SendPartSaleData, dataVars
    <2> QED
      BY <2>2, <2>3, <2>4, <2>5, <2>6, <2>7, SendOwn
  <1>5. CASE SendFinalAns(p)
    <2>1. PICK e : e = [head |-> "finalAns", ans |-> underSales[p]]
      OBVIOUS
    <2>2. e.head = "finalAns"
      BY <2>1
    <2>3. pc[p] = "run"
      BY <1>5 DEF SendFinalAns
    <2>4. Sound(e)
      BY <2>2 DEF Sound
    <2>8. PICK j : j = finish_index[p]
      OBVIOUS
    <2>9. j \in 4..N + 2 /\ p = Stop(j - 4)
      <3>1. step[p] \in Nat
        BY <1>1 DEF ControlType
      <3>2. finish_index[p] \in 4..N + 2 /\ step[p] < Work(p)
        BY <1>5 DEF SendFinalAns
      <3>3. p = Stop(finish_index[p] - 4)
        BY <3>1, <3>2, SendersTurn
      <3> QED
        BY <2>8, <3>2, <3>3
    <2>5. \A k \in Phases : Belongs(e, k, Down(p)) =>
            finish_index[p] = k /\ From(e, k, p)
      <3> SUFFICES ASSUME NEW k \in Phases, Belongs(e, k, Down(p))
                   PROVE  k = j /\ From(e, k, p)
        BY <2>8
      <3>1. k \in 4..N + 2 /\ Down(p) = Stop(k - 3)
        BY <2>2 DEF Belongs, Kind, Phases
      <3>2. k = j
        BY <2>9, <3>1, AnswerPhase
      <3> QED
        BY <2>9, <3>1, <3>2 DEF From
    <2>6. wire' = [wire EXCEPT ![Down(p)] = Append(@, e)]
      BY <1>5, <2>1 DEF SendFinalAns, Send
    <2>7. UNCHANGED <<mainVars, serverVars, partKeyMap, handling>>
      BY <1>5 DEF SendFinalAns, dataVars
    <2> QED
      BY <2>2, <2>3, <2>4, <2>5, <2>6, <2>7, SendOwn
  <1> QED
    BY <1>2, <1>3, <1>4, <1>5 DEF Calculate

\* doAsync.
LEMMA SynchroniseFlush ==
  ASSUME FlushInv, NEW p \in Procs, Synchronise(p)
  PROVE  Streams' /\ DataInv'
  <1>1. ControlType /\ Streams /\ DataInv /\ FinishedIsPrefix
    BY DEF FlushInv, ControlInv
  <1>2. \A q \in Procs : is_finished[q] \subseteq is_finished'[q]
    BY <1>1 DEF Synchronise, EnterBarrier, LeaveBarrier, Ring!EnterBarrier,
                Ring!LeaveBarrier, Ring!SendFinish, Ring!Wait, ControlType
  <1>3. UNCHANGED <<has_notify, notifying, handling, partKeyMap>>
    BY DEF Synchronise, EnterBarrier, LeaveBarrier, Ring!EnterBarrier,
           Ring!LeaveBarrier, Ring!SendFinish, Ring!Wait, Ring!serverVars,
           queryVars, dataVars
  <1>4. \A q \in Procs : \A k \in Phases : Announced(q, k)' => Announced(q, k)
    BY <1>3 DEF Announced
  <1>5. CASE UNCHANGED wire
    <2>1. Streams'
      BY <1>1, <1>2, <1>3, <1>5, StreamsQuiet
    <2>2. DataInv'
      BY <1>1, <1>3, <1>4, <1>5, DataQuiet
    <2> QED
      BY <2>1, <2>2
  <1>6. CASE Ring!SendFinish(p)
    <2>1. PICK e : e = Ring!Stamped(p, finish_index[p], Ring!NoDigits)
      OBVIOUS
    <2>2. finish_index[p] \in Nat /\ pc[p] = "entered"
      BY <1>1, <1>6 DEF ControlType, Ring!SendFinish
    <2>3. e \in Ring!Token
      BY <2>1, <2>2, StampedType, NoDigitsType
    <2>4. /\ e.head = "finish" /\ e.idx = finish_index[p]
          /\ \A q \in Procs : e.cnt[q] = IF q = p THEN 1 ELSE 0
      BY <2>1 DEF Ring!Stamped, Ring!NoDigits, Procs
    <2>5. finish_index[p] \in is_finished[p]
      BY <1>1, <2>2 DEF FinishedIsPrefix, Ring!Inside
    <2>6. Sound(e)'
      <3>1. Sound(e)
        BY <2>3, <2>4, <2>5 DEF Sound
      <3> QED
        BY <1>2, <3>1, SoundGrows
    <2>7. wire' = [wire EXCEPT ![Down(p)] = Append(@, e)]
      BY <1>6, <2>1 DEF Ring!SendFinish, Down
    <2>8. Streams'
      BY <1>1, <1>2, <1>3, <2>6, <2>7, StreamsSend
    <2>9. PICK last : last = Len(wire[Down(p)]) + 1
      OBVIOUS
    <2>10. last \in Nat /\ Down(p) \in Procs
      BY <1>1, <2>9, RingArithmetic, LenProperties DEF Streams
    <2>11. \A k \in Phases : \A q, s \in Procs : \A i \in Nat :
             (s = Down(p) => i < last) =>
                NotOvertaken(e, k, q, s, i, Down(p), last)
      BY <2>1, <2>2, <2>10, FreshBehind
    <2>12. \A k \in Phases : ~ Belongs(e, k, Down(p))
      BY <2>4 DEF Belongs, Kind
    <2>13. DataInv'
      BY <1>1, <1>3, <1>4, <2>7, <2>9, <2>10, <2>11, <2>12, DataSend
    <2> QED
      BY <2>8, <2>13
  <1>7. UNCHANGED wire \/ Ring!SendFinish(p)
    BY DEF Synchronise, EnterBarrier, LeaveBarrier, Ring!EnterBarrier,
           Ring!LeaveBarrier, Ring!Wait
  <1> QED
    BY <1>5, <1>6, <1>7

\* The finish case.
LEMMA ReceiveFinishFlush ==
  ASSUME FlushInv, NEW p \in Procs, ReceiveFinish(p)
  PROVE  Streams' /\ DataInv'
  <1>1. ControlType /\ Streams /\ DataInv
    BY DEF FlushInv, ControlInv
  <1>2. /\ handling[p] = Idle /\ wire[p] # << >> /\ notifying[p] = Ring!None
        /\ Head(wire[p]).head = "finish"
        /\ UNCHANGED <<partKeyMap, handling>>
    BY DEF ReceiveFinish, Reads, Ring!Receives, queryVars, dataVars
  <1>3. UNCHANGED <<is_finished, has_notify>>
    BY DEF ReceiveFinish, Ring!HandleFinish, Ring!DropToken, Ring!PassToken,
           Ring!CompleteToken, Ring!mainVars, Ring!serverVars
  <1>4. CASE Ring!DropToken(p)
    <2>1. wire' = [wire EXCEPT ![p] = Tail(@)] /\ UNCHANGED notifying
      BY <1>4 DEF Ring!DropToken, Ring!serverVars
    <2>2. Streams'
      BY <1>1, <1>2, <1>3, <2>1, StreamsRead
    <2>3. \A q \in Procs : \A k \in Phases : Announced(q, k)' => Announced(q, k)
      BY <1>3, <2>1 DEF Announced
    <2>4. DataInv'
      BY <1>1, <1>2, <2>1, <2>3, DataRead
    <2> QED
      BY <2>2, <2>4
  <1>5. CASE Ring!PassToken(p) \/ Ring!CompleteToken(p)
    <2>1. PICK t : t = Head(wire[p])
      OBVIOUS
    <2>2. Sound(t) /\ t.head = "finish"
      BY <1>1, <1>2, <2>1, HeadSound
    <2>3. /\ t \in Ring!Token /\ t.idx \in Nat /\ t.cnt \in [Procs -> Nat]
          /\ \A q \in Procs : t.cnt[q] # 0 => t.idx \in is_finished[q]
      BY <2>2, TokenSound
    <2>4. PICK u : u = Ring!Stamped(p, t.idx, t.cnt)
      OBVIOUS
    <2>5. wire' = [wire EXCEPT ![p] = Tail(@), ![Down(p)] = Append(@, u)]
      BY <1>5, <2>1, <2>4 DEF Ring!PassToken, Ring!CompleteToken, Ring!Forward,
                              Down
    <2>6. t.idx \in is_finished[p]
      BY <1>5, <2>1 DEF Ring!PassToken, Ring!CompleteToken, Ring!Current
    <2>7. Sound(u)'
      <3>1. u \in Ring!Token
        BY <2>3, <2>4, StampedType
      <3>2. /\ u.idx = t.idx
            /\ \A q \in Procs :
                 u.cnt[q] = IF q = p THEN t.cnt[p] + 1 ELSE t.cnt[q]
        BY <2>3, <2>4 DEF Ring!Stamped
      <3>3. \A q \in Procs : u.cnt[q] # 0 => u.idx \in is_finished[q]
        BY <2>3, <2>6, <3>2
      <3>4. Sound(u)
        BY <3>1, <3>3 DEF Sound
      <3> QED
        BY <1>3, <3>4, SoundGrows
    <2>8. Streams'
      BY <1>1, <1>2, <1>3, <2>5, <2>7, StreamsRelay
    <2>9. \A q \in Procs : \A k \in Phases : Announced(q, k)' =>
            \/ Announced(q, k)
            \/ q = p /\ k = t.idx /\ Ring!CheckFinish(t)
      <3>1. CASE Ring!PassToken(p)
        BY <1>3, <3>1 DEF Ring!PassToken, Ring!serverVars, Announced
      <3>2. CASE Ring!CompleteToken(p)
        BY <1>1, <1>3, <2>1, <3>2
           DEF Ring!CompleteToken, Announced, ControlType
      <3> QED
        BY <1>5, <3>1, <3>2
    <2>10. DataInv'
      BY <1>1, <1>2, <2>1, <2>3, <2>4, <2>5, <2>9, DataRelay
    <2> QED
      BY <2>8, <2>10
  <1> QED
    BY <1>4, <1>5 DEF ReceiveFinish, Ring!HandleFinish

\* The first message is read by a handler that leaves the barrier alone.
LEMMA ReceiveDataFlush ==
  ASSUME FlushInv, NEW p \in Procs,
         ReceivePartKey(p) \/ ReceiveFinalPart(p) \/ ReceiveFinalAns(p)
  PROVE  Streams' /\ DataInv'
  <1>1. ControlType /\ Streams /\ DataInv
    BY DEF FlushInv, ControlInv
  <1>2. /\ handling[p] = Idle /\ wire[p] # << >>
        /\ wire' = [wire EXCEPT ![p] = Tail(@)]
        /\ UNCHANGED <<is_finished, has_notify, notifying>>
    BY DEF ReceivePartKey, ReceiveFinalPart, ReceiveFinalAns, Reads, Consume,
           Ring!Receives, mainVars, serverVars
  <1>3. /\ \A q \in Procs : is_finished[q] \subseteq is_finished'[q]
        /\ \A q \in Procs : \A k \in Phases : Announced(q, k)' => Announced(q, k)
    BY <1>2 DEF Announced
  <1>4. \A q \in Procs : partKeyMap[q] \subseteq partKeyMap'[q]
    BY <1>1 DEF ReceivePartKey, ReceiveFinalPart, ReceiveFinalAns, ControlType
  <1>5. \/ handling' = handling
        \/ /\ GoOn(p, "forward")
           /\ IsData(Head(wire[p]))
           /\ \A k \in Phases : Belongs(Head(wire[p]), k, p) =>
                ~ From(Head(wire[p]), k, p)
    <2>1. CASE ReceivePartKey(p)
      <3>1. Head(wire[p]).head = "partKey"
        BY <2>1 DEF ReceivePartKey, Reads
      <3>2. Head(wire[p]).key \notin partKeyMap[p] =>
              ~ From(Head(wire[p]), 0, p)
        BY DEF From, Known
      <3> QED
        BY <2>1, <3>1, <3>2
           DEF ReceivePartKey, IsData, Belongs, Kind, Phases
    <2>2. CASE ReceiveFinalPart(p)
      <3>1. Head(wire[p]).head = "finalPart"
        BY <2>2 DEF ReceiveFinalPart, Reads
      <3> QED
        BY <2>2, <3>1
           DEF ReceiveFinalPart, IsData, From, Belongs, Kind, Phases
    <2>3. CASE ReceiveFinalAns(p)
      BY <2>3 DEF ReceiveFinalAns
    <2> QED
      BY <2>1, <2>2, <2>3
  <1>6. Streams'
    BY <1>1, <1>2, <1>3, <1>5, StreamsRead
  <1>7. DataInv'
    BY <1>1, <1>2, <1>3, <1>4, <1>5, DataRead
  <1> QED
    BY <1>6, <1>7

\* The rest of a handler.
LEMMA ForwardFlush ==
  ASSUME FlushInv, NEW p \in Procs, Forward(p)
  PROVE  Streams' /\ DataInv'
  <1>1. ControlType /\ Streams /\ DataInv
    BY DEF FlushInv, ControlInv
  <1>2. UNCHANGED <<is_finished, has_notify, notifying, partKeyMap>>
    BY DEF Forward, mainVars, serverVars, dataVars
  <1>3. PICK e : e = handling[p].msg
    OBVIOUS
  <1>4. wire' = [wire EXCEPT ![Down(p)] = Append(@, e)]
    BY <1>3 DEF Forward, Send
  <1>5. /\ handling[p] # Idle
        /\ IsData(e)
        /\ handling[p] = [rest |-> handling[p].rest, msg |-> e]
    BY <1>1, <1>3, BusyHands, HandType DEF Forward
  <1>6. \A s \in Procs : handling'[s] # Idle =>
          handling[s] # Idle /\ handling'[s].msg = handling[s].msg
    <2>1. PICK S : handling \in [Procs -> Held(S)]
      BY <1>1 DEF Streams
    <2>2. [handling[p] EXCEPT !.rest = "ans"].msg = e
      BY <1>5
    <2> QED
      BY <1>3, <1>5, <2>1, <2>2 DEF Forward
  <1>7. Streams'
    BY <1>1, <1>2, StreamsForward
  <1>8. PICK S : wire \in [Procs -> Seq(S)]
    BY <1>1 DEF Streams
  <1>9. PICK last : last = Len(wire[Down(p)]) + 1
    OBVIOUS
  <1>10. last \in Nat /\ last # 0 /\ Down(p) \in Procs
    <2>1. Down(p) \in Procs
      BY RingArithmetic
    <2> QED
      BY <1>8, <1>9, <2>1, LenProperties
  <1>11. \A k, q, s, i : NotOvertaken(e, k, q, s, i, Down(p), last)
    BY <1>5 DEF NotOvertaken, IsToken, IsData
  <1>12. \A q \in Procs : \A k \in Phases : Announced(q, k)' => Announced(q, k)
    BY <1>2 DEF Announced
  <1>13. ASSUME NEW k \in Phases, Belongs(e, k, Down(p))
         PROVE  \E q \in Procs : From(e, k, q)' /\ Placed(k, q, Down(p), last)'
    <2>1. PICK q \in Procs : From(e, k, q) /\ Placed(k, q, p, 0)
      BY <1>1, <1>3, <1>5, <1>13, DataPhase DEF DataInv, Belongs
    <2>2. p # q /\ Clear(wire, k, q, p, 0) /\ Passed(k, q, p)
      BY <2>1 DEF Placed
    <2>3. Clear(wire, k, q, Down(p), last)
      BY <1>10, <2>2, ClearAdvance
    <2>4. Clear([wire EXCEPT ![Down(p)] = Append(@, e)], k, q, Down(p), last)
      BY <1>8, <1>9, <1>10, <1>11, <2>3, ClearSend
    <2>5. Passed(k, q, Down(p))
      <3>1. Hops(q, Down(p)) = Hops(q, p) + 1 /\ Hops(q, p) \in 1..N
        BY <2>2, RingArithmetic
      <3>2. \A r \in Procs : Hops(q, r) \in 1..N
        BY RingArithmetic
      <3> QED
        BY <2>2, <3>1, <3>2, NAssumption DEF Passed
    <2>6. Placed(k, q, Down(p), last)'
      BY <1>2, <1>4, <1>10, <2>4, <2>5 DEF Placed, Passed, Announced
    <2> QED
      BY <1>2, <2>1, <2>6, FromStays
  <1>14. DataInv'
    BY <1>1, <1>2, <1>4, <1>6, <1>9, <1>10, <1>11, <1>12, <1>13, DataSend
  <1> QED
    BY <1>7, <1>14

\* The last step of a handler, and a notification: no message moves.
LEMMA EndHandlerFlush ==
  ASSUME FlushInv, NEW p \in Procs,
         FallThrough(p) \/ (Ring!Notify(p) /\ UNCHANGED queryVars)
  PROVE  Streams' /\ DataInv'
  <1>1. ControlType /\ Streams /\ DataInv
    BY DEF FlushInv, ControlInv
  <1>2. /\ UNCHANGED <<is_finished, partKeyMap, wire>>
        /\ handling' = handling \/ handling' = [handling EXCEPT ![p] = Idle]
    BY DEF FallThrough, Ring!Notify, mainVars, queryVars, dataVars
  <1>3. \A q \in Procs : \A k \in Phases : Announced(q, k)' => Announced(q, k)
    <2>1. CASE FallThrough(p)
      BY <2>1 DEF FallThrough, serverVars, Announced
    <2>2. CASE Ring!Notify(p)
      BY <1>1, <2>2, PhaseNumbers
         DEF Ring!Notify, Announced, ControlType, Ring!None
    <2> QED
      BY <2>1, <2>2
  <1>4. \A s \in Procs : handling'[s] # Idle =>
          handling[s] # Idle /\ handling'[s].msg = handling[s].msg
    <2>1. PICK S : handling \in [Procs -> Held(S)]
      BY <1>1 DEF Streams
    <2> QED
      BY <1>2, <2>1
  <1>5. Streams'
    BY <1>1, <1>2, StreamsQuiet
  <1>6. DataInv'
    BY <1>1, <1>2, <1>3, <1>4, DataQuiet
  <1> QED
    BY <1>5, <1>6

\* The keys of an instance's own parts.
LEMMA NextOwnKeys ==
  ASSUME FlushInv, [Next]_vars
  PROVE  OwnKeys'
  <1>1. ControlType /\ OwnKeys /\ FinishedIsPrefix
    BY DEF FlushInv, ControlInv
  <1>2. \A p \in Procs : Len(Parts[p]) \in Nat
    BY PartsAssumption, LenProperties
  <1>3. ASSUME \A q \in Procs : partKeyMap[q] \subseteq partKeyMap'[q],
               \A q \in Procs :
                 finish_index[q] = 0 /\ pc[q] = "run" =>
                   /\ finish_index'[q] = 0 /\ pc'[q] = "run"
                   /\ (step'[q] + 1) \div 2 = (step[q] + 1) \div 2
        PROVE  OwnKeys'
    BY <1>1, <1>3 DEF OwnKeys
  <1>4. ASSUME UNCHANGED <<finish_index, pc, step>>,
               \A q \in Procs : partKeyMap[q] \subseteq partKeyMap'[q]
        PROVE  OwnKeys'
    BY <1>3, <1>4
  <1>5. CASE UNCHANGED vars
    BY <1>4, <1>5 DEF vars, Ring!vars, queryVars, dataVars
  <1>6. ASSUME NEW p \in Procs, AddPartKey(p) PROVE OwnKeys'
    <2>1. PICK j : j = step[p] \div 2 + 1
      OBVIOUS
    <2>2. /\ j \in 1..Len(Parts[p]) /\ finish_index[p] = 0 /\ pc[p] = "run"
          /\ step[p] \in Nat /\ step[p] % 2 = 0
      BY <1>1, <1>6, <2>1, LoopIndex DEF AddPartKey
    <2>3. /\ UNCHANGED <<finish_index, pc>>
          /\ partKeyMap' = [partKeyMap EXCEPT ![p] = @ \cup {Parts[p][j]}]
          /\ step' = [step EXCEPT ![p] = @ + 1]
      BY <1>6, <2>1 DEF AddPartKey, Advance, mainVars
    <2>4. \A i \in Nat : i > (step[p] + 1) \div 2 =>
            i = j \/ i > (step'[p] + 1) \div 2
      BY <1>1, <2>1, <2>2, <2>3 DEF ControlType
    <2>5. /\ Parts[p][j] \in partKeyMap'[p]
          /\ \A q \in Procs : partKeyMap[q] \subseteq partKeyMap'[q]
          /\ \A q \in Procs \ {p} : step'[q] = step[q]
      BY <1>1, <2>3 DEF ControlType
    <2> SUFFICES ASSUME NEW q \in Procs, NEW i \in 1..Len(Parts[q]),
                        Parts[q][i] \notin partKeyMap'[q]
                 PROVE  /\ finish_index'[q] = 0 /\ pc'[q] = "run"
                        /\ i > (step'[q] + 1) \div 2
      BY DEF OwnKeys
    <2>6. /\ finish_index[q] = 0 /\ pc[q] = "run"
          /\ i > (step[q] + 1) \div 2
      BY <1>1, <2>5 DEF OwnKeys
    <2>7. i > (step'[q] + 1) \div 2
      <3>1. CASE q = p
        <4>1. i # j
          BY <2>5, <3>1
        <4> QED
          BY <1>2, <2>4, <2>6, <3>1, <4>1
      <3>2. CASE q # p
        BY <2>5, <2>6, <3>2
      <3> QED
        BY <3>1, <3>2
    <2> QED
      BY <2>3, <2>6, <2>7
  <1>7. ASSUME NEW p \in Procs, SendPartKey(p) PROVE OwnKeys'
    <2>1. step[p] \in Nat /\ step[p] % 2 = 1
      BY <1>1, <1>7 DEF SendPartKey, ControlType
    <2>2. UNCHANGED <<finish_index, pc, partKeyMap>>
      BY <1>7 DEF SendPartKey, mainVars
    <2>3. step' = [step EXCEPT ![p] = @ + 1]
      BY <1>7 DEF SendPartKey, Advance
    <2>4. \A q \in Procs : (step'[q] + 1) \div 2 = (step[q] + 1) \div 2
      BY <1>1, <2>1, <2>3 DEF ControlType
    <2> QED
      BY <1>3, <2>2, <2>4
  <1>8. ASSUME NEW p \in Procs,
               \/ CollectOrder(p) \/ SendPartSaleData(p)
               \/ MergeData(p) \/ GetLocalUnderSale(p) \/ SendFinalAns(p)
        PROVE  OwnKeys'
    <2>1. finish_index[p] # 0
      BY <1>8 DEF CollectOrder, SendPartSaleData, MergeData, GetLocalUnderSale,
                  SendFinalAns, InPhase
    <2>2. UNCHANGED <<finish_index, pc, partKeyMap>>
      BY <1>8 DEF CollectOrder, SendPartSaleData, MergeData, GetLocalUnderSale,
                  SendFinalAns, mainVars, dataVars
    <2>3. \A q \in Procs \ {p} : step'[q] = step[q]
      BY <1>1, <1>8 DEF CollectOrder, SendPartSaleData, MergeData,
                        GetLocalUnderSale, SendFinalAns, Advance, ControlType
    <2> QED
      BY <1>3, <2>1, <2>2, <2>3
  <1>9. ASSUME NEW p \in Procs, EnterBarrier(p) PROVE OwnKeys'
    <2>1. step[p] = Work(p) /\ Ring!EnterBarrier(p) /\ UNCHANGED queryVars
      BY <1>9 DEF EnterBarrier
    <2>2. UNCHANGED <<finish_index, partKeyMap, step>>
      BY <2>1 DEF Ring!EnterBarrier, queryVars, dataVars
    <2>3. \A q \in Procs \ {p} : pc'[q] = pc[q]
      BY <1>1, <2>1 DEF Ring!EnterBarrier, ControlType
    <2>4. finish_index[p] = 0 => step[p] = 2 * Len(Parts[p])
      BY <2>1 DEF Work
    <2>5. finish_index[p] = 0 => (step[p] + 1) \div 2 = Len(Parts[p])
      BY <1>2, <2>4
    <2>6. \A i \in 1..Len(Parts[p]) : Parts[p][i] \in partKeyMap[p]
      BY <1>1, <1>2, <2>5 DEF OwnKeys
    <2> QED
      BY <1>1, <2>2, <2>3, <2>6 DEF OwnKeys
  <1>10. ASSUME NEW p \in Procs, LeaveBarrier(p) PROVE OwnKeys'
    <2>1. pc[p] = "woken" /\ Ring!LeaveBarrier(p) /\ UNCHANGED partKeyMap
      BY <1>10 DEF LeaveBarrier, Ring!LeaveBarrier, dataVars
    <2>2. \A q \in Procs \ {p} : /\ pc'[q] = pc[q] /\ step'[q] = step[q]
                                 /\ finish_index'[q] = finish_index[q]
      BY <1>1, <1>10, <2>1 DEF LeaveBarrier, Ring!LeaveBarrier, ControlType
    <2> QED
      BY <1>3, <2>1, <2>2
  <1>11. ASSUME NEW p \in Procs,
                (Ring!SendFinish(p) \/ Ring!Wait(p)) /\ UNCHANGED queryVars
         PROVE  OwnKeys'
    <2>1. pc[p] # "run" /\ UNCHANGED <<finish_index, step, partKeyMap>>
      BY <1>11 DEF Ring!SendFinish, Ring!Wait, queryVars, dataVars
    <2>2. \A q \in Procs \ {p} : pc'[q] = pc[q]
      BY <1>1, <1>11 DEF Ring!SendFinish, Ring!Wait, ControlType
    <2> QED
      BY <1>3, <2>1, <2>2
  <1>12. ASSUME NEW p \in Procs, Ring!Notify(p) /\ UNCHANGED queryVars
         PROVE  OwnKeys'
    <2>1. UNCHANGED <<finish_index, step, partKeyMap>>
      BY <1>12 DEF Ring!Notify, queryVars, dataVars
    <2>2. \A q \in Procs : pc[q] = "run" => pc'[q] = "run"
      BY <1>1, <1>12 DEF Ring!Notify, ControlType
    <2> QED
      BY <1>3, <2>1, <2>2
  <1>13. ASSUME NEW p \in Procs,
                \/ ReceiveFinish(p) \/ ReceivePartKey(p) \/ ReceiveFinalPart(p)
                \/ ReceiveFinalAns(p) \/ Forward(p) \/ FallThrough(p)
         PROVE  OwnKeys'
    <2>1. UNCHANGED <<finish_index, pc, step>>
      BY <1>13 DEF ReceiveFinish, Ring!HandleFinish, Ring!DropToken,
                   Ring!PassToken, Ring!CompleteToken, Ring!mainVars,
                   ReceivePartKey, ReceiveFinalPart, ReceiveFinalAns, Forward,
                   FallThrough, mainVars, queryVars
    <2>2. \A q \in Procs : partKeyMap[q] \subseteq partKeyMap'[q]
      BY <1>1, <1>13 DEF ReceiveFinish, ReceivePartKey, ReceiveFinalPart,
                         ReceiveFinalAns, Forward, FallThrough, queryVars,
                         dataVars, ControlType
    <2> QED
      BY <1>4, <2>1, <2>2
  <1>14. CASE Next
    <2> PICK p \in Procs : Calculate(p) \/ Synchronise(p) \/ Serve(p)
      BY <1>14 DEF Next
    <2> QED
      BY <1>6, <1>7, <1>8, <1>9, <1>10, <1>11, <1>12, <1>13
         DEF Calculate, Synchronise, Serve
  <1> QED
    BY <1>5, <1>14

LEMMA InitFlush == Init => FlushInv
  <1> SUFFICES ASSUME Init PROVE FlushInv
    OBVIOUS
  <1> USE DEF Init, Ring!Init, Procs
  <1>1. ControlType
    BY DEF ControlType
  <1>2. FinishedIsPrefix /\ LeftAnnounced
    BY DEF FinishedIsPrefix, Ring!Inside, LeftAnnounced
  <1>3. AnnouncedByAll /\ WakeIsCurrent
    BY DEF AnnouncedByAll, Announced, WakeIsCurrent, Ring!None
  <1>4. OwnKeys
    BY DEF OwnKeys
  <1>5. Streams
    <2>1. << >> \in Seq({})
      BY EmptySeq
    <2>2. wire \in [Procs -> Seq({})] /\ handling \in [Procs -> Held({})]
      BY <2>1 DEF Held
    <2> QED
      BY <2>2 DEF Streams
  <1>6. \A p \in Procs : Len(wire[p]) = 0 /\ handling[p] = Idle
    BY EmptySeq
  <1>7. DataInv
    BY <1>6 DEF DataInv
  <1> QED
    BY <1>1, <1>2, <1>3, <1>4, <1>5, <1>7 DEF FlushInv, ControlInv

\* Every step keeps the invariant.
LEMMA NextFlush == FlushInv /\ [Next]_vars => FlushInv'
  <1> SUFFICES ASSUME FlushInv, [Next]_vars PROVE FlushInv'
    OBVIOUS
  <1>1. ControlInv' /\ OwnKeys'
    BY NextControl, NextOwnKeys
  <1>2. CASE UNCHANGED vars
    <2>1. UNCHANGED <<is_finished, has_notify, notifying, partKeyMap, wire,
                      handling>>
      BY <1>2 DEF vars, Ring!vars, queryVars, dataVars
    <2>2. \A q \in Procs : \A k \in Phases : Announced(q, k)' => Announced(q, k)
      BY <2>1 DEF Announced
    <2>3. Streams' /\ DataInv'
      <3>1. Down(1) \in Procs
        BY RingArithmetic, NAssumption DEF Procs, Ring!Procs
      <3>2. Streams'
        BY <2>1, <3>1, StreamsQuiet DEF FlushInv
      <3>3. DataInv'
        BY <2>1, <2>2, DataQuiet DEF FlushInv
      <3> QED
        BY <3>2, <3>3
    <2> QED
      BY <1>1, <2>3 DEF FlushInv
  <1>3. CASE Next
    <2>1. PICK p \in Procs : Calculate(p) \/ Synchronise(p) \/ Serve(p)
      BY <1>3 DEF Next
    <2>2. Streams' /\ DataInv'
      <3>1. CASE Calculate(p)
        BY <3>1, CalculateFlush
      <3>2. CASE Synchronise(p)
        BY <3>2, SynchroniseFlush
      <3>3. CASE ReceiveFinish(p)
        BY <3>3, ReceiveFinishFlush
      <3>4. CASE \/ ReceivePartKey(p) \/ ReceiveFinalPart(p)
                 \/ ReceiveFinalAns(p)
        BY <3>4, ReceiveDataFlush
      <3>5. CASE Forward(p)
        BY <3>5, ForwardFlush
      <3>6. CASE FallThrough(p)
        BY <3>6, EndHandlerFlush
      <3>7. CASE Ring!Notify(p) /\ UNCHANGED queryVars
        BY <3>7, EndHandlerFlush
      <3> QED
        BY <2>1, <3>1, <3>2, <3>3, <3>4, <3>5, <3>6, <3>7 DEF Serve
    <2> QED
      BY <1>1, <2>2 DEF FlushInv
  <1> QED
    BY <1>2, <1>3

\* The invariant holds in every reachable state.
LEMMA AlwaysFlushInv == Spec => []FlushInv
  <1> QED
    BY InitFlush, NextFlush, PTL DEF Spec

\* What is announced at an instance has passed it.
LEMMA NothingAnnouncedComes ==
  ASSUME FlushInv, NEW p \in Procs, NEW k \in Phases, Announced(p, k)
  PROVE  /\ \A i \in 1..Len(wire[p]) : ~ Belongs(wire[p][i], k, p)
         /\ k \in {0, 2} => ~ Incoming(p, Kind(k))
  <1>1. ASSUME NEW q \in Procs, NEW i, Placed(k, q, p, i) PROVE FALSE
    <2>1. Hops(q, p) > Hops(q, p)
      BY <1>1 DEF Placed, Passed
    <2> QED
      BY <2>1, RingArithmetic, NAssumption
  <1>2. DOMAIN wire[p] = 1..Len(wire[p])
    BY LenProperties DEF FlushInv, Streams
  <1>3. /\ \A i \in 1..Len(wire[p]) : ~ Belongs(wire[p][i], k, p)
        /\ handling[p] # Idle => ~ Belongs(handling[p].msg, k, p)
    BY <1>1 DEF FlushInv, DataInv
  <1> QED
    BY <1>2, <1>3 DEF Incoming, Belongs

\* A barrier is also a flush: an instance that has left it has no message of the
\* phase left to handle, however the threads of all instances interleave.
THEOREM BarrierFlushes == Spec => []PhaseFlush
  <1>1. FlushInv => PhaseFlush
    <2> SUFFICES ASSUME FlushInv, NEW p \in Procs
                 PROVE  /\ finish_index[p] > 0 => ~ Incoming(p, "partKey")
                        /\ finish_index[p] > 2 => ~ Incoming(p, "finalPart")
      BY DEF PhaseFlush
    <2>1. \A k \in {0, 2} : finish_index[p] > k => Announced(p, k)
      BY DEF FlushInv, ControlInv, ControlType, LeftAnnounced, Announced
    <2>2. Kind(0) = "partKey" /\ Kind(2) = "finalPart"
      BY DEF Kind
    <2> QED
      BY <2>1, <2>2, NothingAnnouncedComes DEF Phases
  <1> QED
    BY <1>1, AlwaysFlushInv, PTL

-------------------------------------------------------------------------------
(***************************************************************************)
(* The matching parts reach everybody.  Whoever knows one still has to     *)
(* send it, holds the message, or has it under way to the next instance,   *)
(* unless that one knows it too.  A server that reads a key it knows sends *)
(* it no further: that this loses nothing needs the places of the messages *)
(* (Placed).                                                               *)
(***************************************************************************)

CarriesKey(m, k) == m.head = "partKey" /\ m.key = k

\* The key p has added and not yet sent.
KeyPending(p, k) ==
  /\ finish_index[p] = 0 /\ pc[p] = "run"
  /\ step[p] % 2 = 1 /\ step[p] < 2 * Len(Parts[p])
  /\ Parts[p][step[p] \div 2 + 1] = k

KeyHeld(p, k) == handling[p].rest = "forward" /\ CarriesKey(handling[p].msg, k)

KeyComes(p, k) == \E i \in 1..Len(wire[p]) : CarriesKey(wire[p][i], k)

GoesOn(p, k) ==
  \/ KeyPending(p, k) \/ KeyHeld(p, k)
  \/ KeyComes(Down(p), k) \/ k \in partKeyMap[Down(p)]

KeysGoOn == \A p \in Procs : \A k \in partKeyMap[p] : GoesOn(p, k)

KeysInv == FlushInv /\ KeysGoOn

\* What a step may do to a key that goes on.
LEMMA GoesOnIntro ==
  ASSUME KeysInv,
         \A q \in Procs : partKeyMap[q] \subseteq partKeyMap'[q],
         \A q \in Procs : \A k : k \in partKeyMap'[q] =>
           k \in partKeyMap[q] \/ KeyPending(q, k)' \/ KeyHeld(q, k)',
         \A q \in Procs : \A k : KeyPending(q, k) =>
           KeyPending(q, k)' \/ KeyComes(Down(q), k)',
         \A q \in Procs : \A k : KeyHeld(q, k) =>
           KeyHeld(q, k)' \/ KeyComes(Down(q), k)',
         \A q \in Procs : \A k : KeyComes(q, k) =>
           KeyComes(q, k)' \/ k \in partKeyMap'[q]
  PROVE  KeysGoOn'
  <1> SUFFICES ASSUME NEW p \in Procs, NEW k, k \in partKeyMap'[p]
               PROVE  GoesOn(p, k)'
    BY DEF KeysGoOn
  <1>1. Down(p) \in Procs
    BY RingArithmetic
  <1>2. CASE KeyPending(p, k)' \/ KeyHeld(p, k)'
    BY <1>2 DEF GoesOn
  <1>3. CASE k \in partKeyMap[p]
    <2>1. GoesOn(p, k)
      BY <1>3 DEF KeysInv, KeysGoOn
    <2>2. KeyComes(Down(p), k)' => GoesOn(p, k)'
      BY DEF GoesOn
    <2>3. k \in partKeyMap'[Down(p)] => GoesOn(p, k)'
      BY DEF GoesOn
    <2>4. KeyPending(p, k) => GoesOn(p, k)'
      BY <2>2 DEF GoesOn
    <2>5. KeyHeld(p, k) => GoesOn(p, k)'
      BY <2>2 DEF GoesOn
    <2>6. KeyComes(Down(p), k) => GoesOn(p, k)'
      BY <1>1, <2>2, <2>3
    <2> QED
      BY <1>1, <2>1, <2>3, <2>4, <2>5, <2>6 DEF GoesOn
  <1> QED
    BY <1>2, <1>3

\* A key that is under way stays so when something is sent.
LEMMA ComesSend ==
  ASSUME Streams, NEW d \in Procs, NEW e,
         wire' = [wire EXCEPT ![d] = Append(@, e)]
  PROVE  /\ \A q \in Procs : \A k : KeyComes(q, k) => KeyComes(q, k)'
         /\ \A k : CarriesKey(e, k) => KeyComes(d, k)'
  <1>1. PICK S : wire \in [Procs -> Seq(S)]
    BY DEF Streams
  <1>2. /\ Len(wire[d]) \in Nat /\ Len(wire'[d]) = Len(wire[d]) + 1
        /\ \A i \in 1..Len(wire[d]) : wire'[d][i] = wire[d][i]
        /\ wire'[d][Len(wire[d]) + 1] = e
        /\ \A q \in Procs \ {d} : wire'[q] = wire[q]
    BY <1>1, AppendElements
  <1>3. \A i \in 1..Len(wire[d]) : i \in 1..Len(wire'[d])
    BY <1>2
  <1>4. Len(wire[d]) + 1 \in 1..Len(wire'[d])
    BY <1>2
  <1>5. \A q \in Procs : \A k : KeyComes(q, k) => KeyComes(q, k)'
    BY <1>2, <1>3 DEF KeyComes
  <1>6. \A k : CarriesKey(e, k) => KeyComes(d, k)'
    BY <1>2, <1>4 DEF KeyComes
  <1> QED
    BY <1>5, <1>6

\* A key that is under way is read or moves up.
LEMMA ComesRead ==
  ASSUME Streams, NEW p \in Procs, wire[p] # << >>,
         wire' = [wire EXCEPT ![p] = Tail(@)]
  PROVE  \A q \in Procs : \A k : KeyComes(q, k) =>
           KeyComes(q, k)' \/ (q = p /\ CarriesKey(Head(wire[p]), k))
  <1>1. PICK S : wire \in [Procs -> Seq(S)]
    BY DEF Streams
  <1>2. /\ Len(wire[p]) \in Nat \ {0} /\ Len(wire'[p]) = Len(wire[p]) - 1
        /\ \A i \in 1..Len(wire'[p]) : wire'[p][i] = wire[p][i + 1]
        /\ Head(wire[p]) = wire[p][1]
        /\ \A q \in Procs \ {p} : wire'[q] = wire[q]
    BY <1>1, TailElements
  <1>3. ASSUME NEW k, NEW i \in 1..Len(wire[p]), CarriesKey(wire[p][i], k)
        PROVE  KeyComes(p, k)' \/ CarriesKey(Head(wire[p]), k)
    <2>1. CASE i = 1
      BY <1>2, <1>3, <2>1
    <2>2. CASE i # 1
      <3>1. i - 1 \in 1..Len(wire'[p]) /\ i - 1 + 1 = i
        BY <1>2, <2>2
      <3>2. wire'[p][i - 1] = wire[p][i]
        BY <1>2, <3>1
      <3> QED
        BY <1>3, <3>1, <3>2 DEF KeyComes
    <2> QED
      BY <2>1, <2>2
  <1> QED
    BY <1>2, <1>3 DEF KeyComes

\* A token is passed on: every key moves up.
LEMMA ComesRelay ==
  ASSUME Streams, NEW p \in Procs, wire[p] # << >>,
         Head(wire[p]).head = "finish", NEW e,
         wire' = [wire EXCEPT ![p] = Tail(@), ![Down(p)] = Append(@, e)]
  PROVE  \A q \in Procs : \A k : KeyComes(q, k) => KeyComes(q, k)'
  <1>1. PICK S : wire \in [Procs -> Seq(S)]
    BY DEF Streams
  <1>2. /\ Len(wire[p]) \in Nat \ {0} /\ Len(Tail(wire[p])) = Len(wire[p]) - 1
        /\ \A i \in 1..Len(Tail(wire[p])) : Tail(wire[p])[i] = wire[p][i + 1]
        /\ Head(wire[p]) = wire[p][1]
    BY <1>1, TailElements
  <1>3. Down(p) \in Procs /\ Down(p) # p
    BY RingArithmetic
  <1>4. /\ Len(wire[Down(p)]) \in Nat
        /\ Len(wire'[Down(p)]) = Len(wire[Down(p)]) + 1
        /\ \A i \in 1..Len(wire[Down(p)]) :
             wire'[Down(p)][i] = wire[Down(p)][i]
    BY <1>1, <1>3, AppendElements
  <1>5. /\ wire'[p] = Tail(wire[p])
        /\ \A q \in Procs : q # p /\ q # Down(p) => wire'[q] = wire[q]
    BY <1>1, <1>3
  <1>6. ASSUME NEW k, NEW i \in 1..Len(wire[p]), CarriesKey(wire[p][i], k)
        PROVE  KeyComes(p, k)'
    <2>1. i # 1
      BY <1>2, <1>6 DEF CarriesKey
    <2>2. Len(wire'[p]) = Len(wire[p]) - 1
      BY <1>2, <1>5
    <2>3. i - 1 \in 1..Len(wire'[p]) /\ i - 1 + 1 = i
      BY <1>2, <2>1, <2>2
    <2>4. wire'[p][i - 1] = wire[p][i]
      BY <1>2, <1>5, <2>3
    <2> QED
      BY <1>6, <2>3, <2>4 DEF KeyComes
  <1>7. ASSUME NEW k, NEW i \in 1..Len(wire[Down(p)]),
               CarriesKey(wire[Down(p)][i], k)
        PROVE  KeyComes(Down(p), k)'
    <2>1. i \in 1..Len(wire'[Down(p)])
      BY <1>4
    <2> QED
      BY <1>4, <1>7, <2>1 DEF KeyComes
  <1> QED
    BY <1>5, <1>6, <1>7 DEF KeyComes

\* The main thread: a key is added, and then sent.
LEMMA CalculateKeys ==
  ASSUME KeysInv, NEW p \in Procs, Calculate(p)
  PROVE  KeysGoOn'
  <1>1. ControlType /\ Streams
    BY DEF KeysInv, FlushInv, ControlInv
  <1>2. /\ UNCHANGED <<pc, finish_index, handling>>
        /\ step' = [step EXCEPT ![p] = @ + 1]
        /\ step[p] \in Nat /\ step[p] < Work(p) /\ pc[p] = "run"
    BY <1>1 DEF Calculate, AddPartKey, SendPartKey, CollectOrder,
                SendPartSaleData, MergeData, GetLocalUnderSale, SendFinalAns,
                Advance, InPhase, mainVars, dataVars, ControlType
  <1>3. \A q \in Procs \ {p} : step'[q] = step[q]
    BY <1>1, <1>2 DEF ControlType
  <1>4. \A q \in Procs : \A k : KeyHeld(q, k) => KeyHeld(q, k)'
    BY <1>2 DEF KeyHeld
  <1>5. \A q \in Procs \ {p} : \A k : KeyPending(q, k) => KeyPending(q, k)'
    BY <1>2, <1>3 DEF KeyPending
  <1>6. CASE AddPartKey(p)
    <2>1. PICK j : j = step[p] \div 2 + 1
      OBVIOUS
    <2>2. /\ UNCHANGED wire /\ step[p] % 2 = 0
          /\ partKeyMap' = [partKeyMap EXCEPT ![p] = @ \cup {Parts[p][j]}]
      BY <1>6, <2>1 DEF AddPartKey
    <2>3. /\ finish_index[p] = 0 /\ step[p] < 2 * Len(Parts[p])
          /\ Len(Parts[p]) \in Nat
      BY <1>1, <1>6, LoopIndex DEF AddPartKey
    <2>4. /\ step'[p] = step[p] + 1 /\ step'[p] % 2 = 1
          /\ step'[p] < 2 * Len(Parts[p]) /\ step'[p] \div 2 + 1 = j
      BY <1>1, <1>2, <2>1, <2>2, <2>3 DEF ControlType
    <2>5. \A k : k = Parts[p][j] => KeyPending(p, k)'
      BY <1>2, <2>3, <2>4 DEF KeyPending
    <2>6. /\ \A q \in Procs : partKeyMap[q] \subseteq partKeyMap'[q]
          /\ \A q \in Procs : \A k : k \in partKeyMap'[q] =>
               k \in partKeyMap[q] \/ KeyPending(q, k)'
      BY <1>1, <2>2, <2>5 DEF ControlType
    <2>7. \A k : ~ KeyPending(p, k)
      BY <1>2, <2>2 DEF KeyPending
    <2>8. \A q \in Procs : \A k : KeyComes(q, k) => KeyComes(q, k)'
      BY <2>2 DEF KeyComes
    <2> QED
      BY <1>4, <1>5, <2>6, <2>7, <2>8, GoesOnIntro
  <1>7. CASE SendPartKey(p)
    <2>1. PICK e : e = PartKey(Parts[p][step[p] \div 2 + 1])
      OBVIOUS
    <2>2. UNCHANGED partKeyMap /\ wire' = [wire EXCEPT ![Down(p)] = Append(@, e)]
      BY <1>7, <2>1 DEF SendPartKey, Send
    <2>3. \A k : KeyPending(p, k) => CarriesKey(e, k)
      BY <2>1 DEF KeyPending, CarriesKey, PartKey
    <2>4. /\ \A q \in Procs : \A k : KeyComes(q, k) => KeyComes(q, k)'
          /\ \A k : CarriesKey(e, k) => KeyComes(Down(p), k)'
      BY <1>1, <2>2, RingArithmetic, ComesSend
    <2>5. \A k : KeyPending(p, k) => KeyComes(Down(p), k)'
      BY <2>3, <2>4
    <2> QED
      BY <1>4, <1>5, <2>2, <2>4, <2>5, GoesOnIntro
  <1>8. CASE \/ CollectOrder(p) \/ SendPartSaleData(p)
             \/ MergeData(p) \/ GetLocalUnderSale(p) \/ SendFinalAns(p)
    <2>1. UNCHANGED partKeyMap /\ finish_index[p] # 0
      BY <1>8 DEF CollectOrder, SendPartSaleData, MergeData, GetLocalUnderSale,
                  SendFinalAns, InPhase, dataVars
    <2>2. \A k : ~ KeyPending(p, k)
      BY <2>1 DEF KeyPending
    <2>3. \/ UNCHANGED wire
          \/ \E e : wire' = [wire EXCEPT ![Down(p)] = Append(@, e)]
      BY <1>8 DEF CollectOrder, SendPartSaleData, MergeData, GetLocalUnderSale,
                  SendFinalAns, Send
    <2>4. \A q \in Procs : \A k : KeyComes(q, k) => KeyComes(q, k)'
      <3>1. CASE UNCHANGED wire
        BY <3>1 DEF KeyComes
      <3>2. ASSUME NEW e, wire' = [wire EXCEPT ![Down(p)] = Append(@, e)]
            PROVE  \A q \in Procs : \A k : KeyComes(q, k) => KeyComes(q, k)'
        BY <1>1, <3>2, RingArithmetic, ComesSend
      <3> QED
        BY <2>3, <3>1, <3>2
    <2> QED
      BY <1>4, <1>5, <2>1, <2>2, <2>4, GoesOnIntro
  <1> QED
    BY <1>6, <1>7, <1>8 DEF Calculate

\* The barrier: no instance reaches it with a key to send, and tokens do not
\* disturb the keys.
LEMMA SynchroniseKeys ==
  ASSUME KeysInv, NEW p \in Procs, Synchronise(p)
  PROVE  KeysGoOn'
  <1>1. ControlType /\ Streams
    BY DEF KeysInv, FlushInv, ControlInv
  <1>2. UNCHANGED <<partKeyMap, handling>>
    BY DEF Synchronise, EnterBarrier, LeaveBarrier, queryVars, dataVars
  <1>3. \A q \in Procs \ {p} : /\ pc'[q] = pc[q] /\ step'[q] = step[q]
                               /\ finish_index'[q] = finish_index[q]
    BY <1>1 DEF Synchronise, EnterBarrier, LeaveBarrier, Ring!EnterBarrier,
                Ring!LeaveBarrier, Ring!SendFinish, Ring!Wait, ControlType,
                queryVars
  <1>4. \A k : ~ KeyPending(p, k)
    <2>1. \/ pc[p] # "run"
          \/ step[p] = Work(p)
      BY DEF Synchronise, EnterBarrier, LeaveBarrier, Ring!LeaveBarrier,
             Ring!SendFinish, Ring!Wait
    <2>2. step[p] = Work(p) /\ finish_index[p] = 0 =>
            step[p] = 2 * Len(Parts[p])
      BY DEF Work
    <2>3. Len(Parts[p]) \in Nat
      BY PartsAssumption, LenProperties
    <2> QED
      BY <2>1, <2>2, <2>3 DEF KeyPending
  <1>5. \A q \in Procs \ {p} : \A k : KeyPending(q, k) => KeyPending(q, k)'
    BY <1>3 DEF KeyPending
  <1>6. \A q \in Procs : \A k : KeyHeld(q, k) => KeyHeld(q, k)'
    BY <1>2 DEF KeyHeld
  <1>7. \/ UNCHANGED wire
        \/ \E e : wire' = [wire EXCEPT ![Down(p)] = Append(@, e)]
    BY DEF Synchronise, EnterBarrier, LeaveBarrier, Ring!EnterBarrier,
           Ring!LeaveBarrier, Ring!Wait, Ring!SendFinish, Down
  <1>8. \A q \in Procs : \A k : KeyComes(q, k) => KeyComes(q, k)'
    <2>1. CASE UNCHANGED wire
      BY <2>1 DEF KeyComes
    <2>2. ASSUME NEW e, wire' = [wire EXCEPT ![Down(p)] = Append(@, e)]
          PROVE  \A q \in Procs : \A k : KeyComes(q, k) => KeyComes(q, k)'
      BY <1>1, <2>2, RingArithmetic, ComesSend
    <2> QED
      BY <1>7, <2>1, <2>2
  <1> QED
    BY <1>2, <1>4, <1>5, <1>6, <1>8, GoesOnIntro

\* The server thread: a key it does not know is kept for the next instance.
LEMMA ServeKeys ==
  ASSUME KeysInv, NEW p \in Procs, Serve(p)
  PROVE  KeysGoOn'
  <1>1. ControlType /\ Streams
    BY DEF KeysInv, FlushInv, ControlInv
  <1>2. \A q \in Procs : \A k : KeyPending(q, k) => KeyPending(q, k)'
    <2>1. UNCHANGED <<finish_index, step>>
      BY DEF Serve, ReceiveFinish, Ring!HandleFinish, Ring!DropToken,
             Ring!PassToken, Ring!CompleteToken, Ring!Notify, ReceivePartKey,
             ReceiveFinalPart, ReceiveFinalAns, Forward, FallThrough,
             Ring!mainVars, mainVars, queryVars
    <2>2. \A q \in Procs : pc[q] = "run" => pc'[q] = "run"
      BY <1>1 DEF Serve, ReceiveFinish, Ring!HandleFinish, Ring!DropToken,
             Ring!PassToken, Ring!CompleteToken, Ring!Notify, ReceivePartKey,
             ReceiveFinalPart, ReceiveFinalAns, Forward, FallThrough,
             Ring!mainVars, mainVars, ControlType
    <2> QED
      BY <2>1, <2>2 DEF KeyPending
  <1>3. CASE ReceiveFinish(p)
    <2>1. /\ wire[p] # << >> /\ Head(wire[p]).head = "finish"
          /\ UNCHANGED <<partKeyMap, handling>>
      BY <1>3 DEF ReceiveFinish, Reads, Ring!Receives, queryVars, dataVars
    <2>2. \/ wire' = [wire EXCEPT ![p] = Tail(@)]
          \/ \E e : wire' = [wire EXCEPT ![p] = Tail(@),
                                         ![Down(p)] = Append(@, e)]
      BY <1>3 DEF ReceiveFinish, Ring!HandleFinish, Ring!DropToken,
                  Ring!PassToken, Ring!CompleteToken, Ring!Forward, Down
    <2>3. \A q \in Procs : \A k : KeyComes(q, k) => KeyComes(q, k)'
      <3>1. CASE wire' = [wire EXCEPT ![p] = Tail(@)]
        BY <1>1, <2>1, <3>1, ComesRead DEF CarriesKey
      <3>2. ASSUME NEW e, wire' = [wire EXCEPT ![p] = Tail(@),
                                               ![Down(p)] = Append(@, e)]
            PROVE  \A q \in Procs : \A k : KeyComes(q, k) => KeyComes(q, k)'
        BY <1>1, <2>1, <3>2, ComesRelay
      <3> QED
        BY <2>2, <3>1, <3>2
    <2>4. \A q \in Procs : \A k : KeyHeld(q, k) => KeyHeld(q, k)'
      BY <2>1 DEF KeyHeld
    <2> QED
      BY <1>2, <2>1, <2>3, <2>4, GoesOnIntro
  <1>4. CASE ReceivePartKey(p) \/ ReceiveFinalPart(p) \/ ReceiveFinalAns(p)
    <2>1. /\ handling[p] = Idle /\ wire[p] # << >>
          /\ wire' = [wire EXCEPT ![p] = Tail(@)]
      BY <1>4 DEF ReceivePartKey, ReceiveFinalPart, ReceiveFinalAns, Reads,
                  Consume, Ring!Receives
    <2>2. \A q \in Procs \ {p} : handling'[q] = handling[q]
      BY <1>1, <1>4 DEF ReceivePartKey, ReceiveFinalPart, ReceiveFinalAns,
                        GoOn, Streams
    <2>3. \A k : ~ KeyHeld(p, k)
      BY <2>1 DEF KeyHeld, Idle
    <2>4. \A q \in Procs : \A k : KeyHeld(q, k) => KeyHeld(q, k)'
      BY <2>2, <2>3 DEF KeyHeld
    <2>5. /\ \A q \in Procs : partKeyMap[q] \subseteq partKeyMap'[q]
          /\ \A q \in Procs : \A k : k \in partKeyMap'[q] =>
               k \in partKeyMap[q] \/ KeyHeld(q, k)'
      <3>1. CASE ReceivePartKey(p)
        <4>1. PICK m : m = Head(wire[p])
          OBVIOUS
        <4>2. CASE UNCHANGED partKeyMap
          BY <4>2
        <4>3. CASE /\ partKeyMap' = [partKeyMap EXCEPT ![p] = @ \cup {m.key}]
                   /\ GoOn(p, "forward")
          <5>1. m.head = "partKey"
            BY <3>1, <4>1 DEF ReceivePartKey, Reads
          <5>2. handling'[p] = [rest |-> "forward", msg |-> m]
            BY <1>1, <4>1, <4>3 DEF GoOn, Streams
          <5>3. KeyHeld(p, m.key)'
            BY <5>1, <5>2 DEF KeyHeld, CarriesKey
          <5> QED
            BY <1>1, <4>3, <5>3 DEF ControlType
        <4> QED
          BY <3>1, <4>1, <4>2, <4>3 DEF ReceivePartKey
      <3>2. CASE ReceiveFinalPart(p) \/ ReceiveFinalAns(p)
        BY <3>2 DEF ReceiveFinalPart, ReceiveFinalAns
      <3> QED
        BY <1>4, <3>1, <3>2
    <2>6. \A k : CarriesKey(Head(wire[p]), k) => k \in partKeyMap'[p]
      <3>1. CASE ReceivePartKey(p)
        BY <1>1, <3>1 DEF ReceivePartKey, CarriesKey, ControlType
      <3>2. CASE ReceiveFinalPart(p) \/ ReceiveFinalAns(p)
        BY <3>2 DEF ReceiveFinalPart, ReceiveFinalAns, Reads, CarriesKey
      <3> QED
        BY <1>4, <3>1, <3>2
    <2>7. \A q \in Procs : \A k : KeyComes(q, k) =>
            KeyComes(q, k)' \/ k \in partKeyMap'[q]
      BY <1>1, <2>1, <2>6, ComesRead
    <2> QED
      BY <1>2, <2>4, <2>5, <2>7, GoesOnIntro
  <1>5. CASE Forward(p)
    <2>1. PICK e : e = handling[p].msg
      OBVIOUS
    <2>2. UNCHANGED partKeyMap /\ wire' = [wire EXCEPT ![Down(p)] = Append(@, e)]
      BY <1>5, <2>1 DEF Forward, Send, dataVars
    <2>3. \A q \in Procs \ {p} : handling'[q] = handling[q]
      BY <1>1, <1>5 DEF Forward, Streams
    <2>4. /\ \A q \in Procs : \A k : KeyComes(q, k) => KeyComes(q, k)'
          /\ \A k : CarriesKey(e, k) => KeyComes(Down(p), k)'
      BY <1>1, <2>2, RingArithmetic, ComesSend
    <2>5. \A q \in Procs : \A k : KeyHeld(q, k) =>
            KeyHeld(q, k)' \/ KeyComes(Down(q), k)'
      BY <2>1, <2>3, <2>4 DEF KeyHeld
    <2> QED
      BY <1>2, <2>2, <2>4, <2>5, GoesOnIntro
  <1>6. CASE FallThrough(p) \/ (Ring!Notify(p) /\ UNCHANGED queryVars)
    <2>1. UNCHANGED <<partKeyMap, wire>>
      BY <1>6 DEF FallThrough, Ring!Notify, queryVars, dataVars
    <2>2. \A q \in Procs : \A k : KeyHeld(q, k) => KeyHeld(q, k)'
      <3>1. CASE UNCHANGED handling
        BY <3>1 DEF KeyHeld
      <3>2. CASE /\ handling[p].rest = "ans"
                 /\ handling' = [handling EXCEPT ![p] = Idle]
        <4>1. \A q \in Procs \ {p} : handling'[q] = handling[q]
          BY <1>1, <3>2 DEF Streams
        <4> QED
          BY <3>2, <4>1 DEF KeyHeld
      <3> QED
        BY <1>6, <3>1, <3>2 DEF FallThrough, queryVars
    <2>3. \A q \in Procs : \A k : KeyComes(q, k) => KeyComes(q, k)'
      BY <2>1 DEF KeyComes
    <2> QED
      BY <1>2, <2>1, <2>2, <2>3, GoesOnIntro
  <1> QED
    BY <1>3, <1>4, <1>5, <1>6 DEF Serve

LEMMA InitKeys == Init => KeysInv
  BY InitFlush DEF Init, KeysInv, KeysGoOn

\* Every step keeps the keys going.
LEMMA NextKeys == KeysInv /\ [Next]_vars => KeysInv'
  <1> SUFFICES ASSUME KeysInv, [Next]_vars PROVE KeysInv'
    OBVIOUS
  <1>1. FlushInv'
    BY NextFlush DEF KeysInv
  <1>2. KeysGoOn'
    <2>1. CASE UNCHANGED vars
      <3>1. UNCHANGED <<finish_index, pc, step, partKeyMap, wire, handling>>
        BY <2>1 DEF vars, Ring!vars, queryVars, dataVars
      <3> QED
        BY <3>1 DEF KeysInv, KeysGoOn, GoesOn, KeyPending, KeyHeld, KeyComes
    <2>2. CASE Next
      BY <2>2, CalculateKeys, SynchroniseKeys, ServeKeys DEF Next
    <2> QED
      BY <2>1, <2>2
  <1> QED
    BY <1>1, <1>2 DEF KeysInv

LEMMA AlwaysKeysInv == Spec => []KeysInv
  <1> QED
    BY InitKeys, NextKeys, PTL DEF Spec

\* If a message from q has left p behind and is at u, then q is nearer to p than
\* u is.
LEMMA OriginIsNearer ==
  ASSUME NEW p \in Procs, NEW q \in Procs, NEW u \in Procs, u # p
  PROVE  /\ u # q /\ Hops(q, u) > Hops(q, p) => Hops(q, p) < Hops(u, p)
         /\ Hops(q, Down(u)) > Hops(q, p) => Hops(q, p) < Hops(u, p)
         /\ Down(u) # p => Hops(Down(u), p) < Hops(u, p)
  BY NAssumption DEF Procs, Ring!Procs, Hops, Down, Ring!Down

\* Among the instances that know a key there is one that is nearest to p.
LEMMA Nearest ==
  ASSUME NEW p \in Procs, NEW W, W \subseteq Procs, W # {}
  PROVE  \E u \in W : \A v \in W : ~ (Hops(v, p) < Hops(u, p))
  <1> DEFINE T == {Hops(u, p) : u \in W}
             Less == OpToRel(<, Nat)
  <1>1. T \subseteq Nat /\ T # {}
    <2> HIDE DEF Less
    <2> QED
      BY RingArithmetic, NAssumption
  <1>2. IsWellFoundedOn(Less, Nat)
    BY NatLessThanWellFounded, Zenon
  <1>3. PICK h \in T : \A g \in T : ~ (<<g, h>> \in Less)
    <2> HIDE DEF T, Less
    <2> QED
      BY <1>1, <1>2, WFMin
  <1>4. \A g \in T : ~ (g < h)
    BY <1>1, <1>3 DEF OpToRel
  <1> QED
    BY <1>3, <1>4

\* A barrier 0 that has been announced somewhere: everybody knows his own parts
\* and has sent them.
LEMMA AllSent ==
  ASSUME FlushInv, NEW p \in Procs, Announced(p, 0)
  PROVE  \A q \in Procs : /\ Range(Parts[q]) \subseteq partKeyMap[q]
                          /\ \A k : ~ KeyPending(q, k)
  <1> SUFFICES ASSUME NEW q \in Procs
               PROVE  /\ Range(Parts[q]) \subseteq partKeyMap[q]
                      /\ \A k : ~ KeyPending(q, k)
    OBVIOUS
  <1>1. 0 \in is_finished[q]
    BY DEF FlushInv, ControlInv, AnnouncedByAll
  <1>2. ~ (finish_index[q] = 0 /\ pc[q] = "run")
    BY <1>1 DEF FlushInv, ControlInv, ControlType, FinishedIsPrefix, Ring!Inside
  <1>3. \A i \in 1..Len(Parts[q]) : Parts[q][i] \in partKeyMap[q]
    BY <1>2 DEF FlushInv, OwnKeys
  <1>4. DOMAIN Parts[q] = 1..Len(Parts[q])
    BY PartsAssumption, LenProperties
  <1> QED
    BY <1>2, <1>3, <1>4 DEF KeyPending, Range

\* Where the message with a key is, it comes from an instance that knows the key
\* and that it has passed p since, if p has announced the barrier.
LEMMA KeyHasPassed ==
  ASSUME FlushInv, NEW p \in Procs, Announced(p, 0), NEW u \in Procs, NEW k
  PROVE  /\ KeyHeld(u, k) => \E q \in Procs : /\ k \in partKeyMap[q] /\ u # q
                                              /\ Hops(q, u) > Hops(q, p)
         /\ KeyComes(u, k) => \E q \in Procs : /\ k \in partKeyMap[q]
                                               /\ Hops(q, u) > Hops(q, p)
  <1>1. 0 \in Phases /\ \A m, s : CarriesKey(m, k) => Belongs(m, 0, s)
    BY DEF Phases, Belongs, Kind, CarriesKey
  <1>2. ASSUME NEW m, CarriesKey(m, k), NEW q \in Procs, From(m, 0, q)
        PROVE  k \in partKeyMap[q]
    BY <1>2 DEF CarriesKey, From, Known
  <1>3. ASSUME NEW q \in Procs, NEW i, Placed(0, q, u, i)
        PROVE  Hops(q, u) > Hops(q, p)
    BY <1>3 DEF Placed, Passed
  <1>4. ASSUME KeyHeld(u, k)
        PROVE  \E q \in Procs : /\ k \in partKeyMap[q] /\ u # q
                                /\ Hops(q, u) > Hops(q, p)
    <2>1. handling[u] # Idle /\ CarriesKey(handling[u].msg, k)
      BY <1>4, BusyHands DEF KeyHeld
    <2>2. PICK q \in Procs : From(handling[u].msg, 0, q) /\ Placed(0, q, u, 0)
      BY <1>1, <2>1 DEF FlushInv, DataInv
    <2>3. u # q
      BY <2>2 DEF Placed
    <2> QED
      BY <1>2, <1>3, <2>1, <2>2, <2>3
  <1>5. ASSUME KeyComes(u, k)
        PROVE  \E q \in Procs : /\ k \in partKeyMap[q]
                                /\ Hops(q, u) > Hops(q, p)
    <2>1. PICK i \in 1..Len(wire[u]) : CarriesKey(wire[u][i], k)
      BY <1>5 DEF KeyComes
    <2>2. PICK q \in Procs : From(wire[u][i], 0, q) /\ Placed(0, q, u, i)
      BY <1>1, <2>1 DEF FlushInv, DataInv
    <2> QED
      BY <1>2, <1>3, <2>1, <2>2
  <1> QED
    BY <1>4, <1>5

LEMMA KeysKnown == KeysInv => EverybodyKnows
  <1> SUFFICES ASSUME KeysInv, NEW p \in Procs, finish_index[p] > 0
               PROVE  partKeyMap[p] = AllKeys
    BY DEF EverybodyKnows
  <1>1. FlushInv /\ ControlType
    BY DEF KeysInv, FlushInv, ControlInv
  <1>2. Announced(p, 0)
    BY <1>1 DEF FlushInv, ControlInv, ControlType, LeftAnnounced, Announced
  <1>3. partKeyMap[p] \subseteq AllKeys
    BY <1>1 DEF ControlType
  <1>4. ASSUME NEW k \in AllKeys, k \notin partKeyMap[p] PROVE FALSE
    <2> DEFINE W == {v \in Procs : k \in partKeyMap[v]}
    <2>1. W # {}
      BY <1>1, <1>2, <1>4, AllSent DEF AllKeys
    <2>2. PICK u \in W : \A v \in W : ~ (Hops(v, p) < Hops(u, p))
      BY <2>1, Nearest
    <2>3. u \in Procs /\ u # p /\ k \in partKeyMap[u]
      BY <1>4, <2>2
    <2>4. GoesOn(u, k) /\ ~ KeyPending(u, k)
      BY <1>1, <1>2, <2>3, AllSent DEF KeysInv, KeysGoOn
    <2>5. Down(u) \in Procs
      BY <2>3, RingArithmetic
    <2>6. ASSUME NEW q \in Procs, k \in partKeyMap[q],
                 \/ u # q /\ Hops(q, u) > Hops(q, p)
                 \/ Hops(q, Down(u)) > Hops(q, p)
          PROVE  FALSE
      BY <2>2, <2>3, <2>6, OriginIsNearer
    <2>7. CASE KeyHeld(u, k)
      BY <1>1, <1>2, <2>3, <2>6, <2>7, KeyHasPassed
    <2>8. CASE KeyComes(Down(u), k)
      BY <1>1, <1>2, <2>5, <2>6, <2>8, KeyHasPassed
    <2>9. CASE k \in partKeyMap[Down(u)]
      BY <1>4, <2>2, <2>3, <2>5, <2>9, OriginIsNearer
    <2> QED
      BY <2>4, <2>7, <2>8, <2>9 DEF GoesOn
  <1> QED
    BY <1>3, <1>4

\* An instance that scans its orders knows the matching parts of everybody,
\* although a server that knows a key does not send it on: the knower nearest
\* to p would have to send the key to a nearer one, or have got it from one.
THEOREM EverybodyLearns == Spec => []EverybodyKnows
  BY KeysKnown, AlwaysKeysInv, PTL

-------------------------------------------------------------------------------
(***************************************************************************)
(* The streams without the data messages: laws of TokensOf, which is a     *)
(* fold.  As in TotalsProofs, what the fold's function yields for the      *)
(* first m positions is h[m].                                              *)
(***************************************************************************)

\* One more message.
TokenStep(ts, m) == IF m.head = "finish" THEN Append(ts, m) ELSE ts

\* What the fold's function is, over the sets of positions up to n.
Selects(g, f, n) ==
  g = [s \in SUBSET (1..n) |->
         IF s = {} THEN << >> ELSE TokenStep(g[s \ {Max(s)}], f[Max(s)])]

\* h[m] are the tokens among the first m messages of s.
Selected(h, s) ==
  /\ DOMAIN h = 0..Len(s)
  /\ h[0] = << >>
  /\ \A m \in 0..Len(s) - 1 : h[m + 1] = TokenStep(h[m], s[m + 1])

LEMMA SelectionExists ==
  ASSUME NEW f, NEW n \in Nat
  PROVE  \E g : Selects(g, f, n)
  <1> DEFINE S == {m \in Nat : \E g : Selects(g, f, m)}
  <1>1. 0 \in S
    <2> DEFINE g == [s \in SUBSET (1..0) |-> << >>]
    <2>1. \A s \in SUBSET (1..0) : s = {}
      OBVIOUS
    <2>2. Selects(g, f, 0)
      BY <2>1 DEF Selects
    <2> QED
      BY <2>2
  <1>2. ASSUME NEW m \in Nat, m \in S PROVE m + 1 \in S
    <2>1. PICK g : Selects(g, f, m)
      BY <1>2
    <2> DEFINE h == [s \in SUBSET (1..m + 1) |->
                       IF m + 1 \in s THEN TokenStep(g[s \ {m + 1}], f[m + 1])
                                      ELSE g[s]]
    <2>2. ASSUME NEW s \in SUBSET (1..m + 1)
          PROVE  h[s] = IF s = {} THEN << >>
                                  ELSE TokenStep(h[s \ {Max(s)}], f[Max(s)])
      <3>1. CASE m + 1 \in s
        <4>1. Max(s) = m + 1
          BY <3>1, MaxOfUpTo
        <4>2. /\ s \ {m + 1} \in SUBSET (1..m + 1)
              /\ m + 1 \notin s \ {m + 1}
          OBVIOUS
        <4>3. h[s \ {m + 1}] = g[s \ {m + 1}]
          BY <4>2
        <4> QED
          BY <3>1, <4>1, <4>3
      <3>2. CASE m + 1 \notin s
        <4>1. s \in SUBSET (1..m)
          BY <3>2
        <4>2. /\ s \ {Max(s)} \in SUBSET (1..m + 1)
              /\ m + 1 \notin s \ {Max(s)}
          BY <3>2
        <4>3. h[s] = g[s] /\ h[s \ {Max(s)}] = g[s \ {Max(s)}]
          BY <3>2, <4>2
        <4>4. g[s] = IF s = {} THEN << >>
                               ELSE TokenStep(g[s \ {Max(s)}], f[Max(s)])
          BY <2>1, <4>1 DEF Selects
        <4> QED
          BY <4>3, <4>4
      <3> QED
        BY <3>1, <3>2
    <2>3. Selects(h, f, m + 1)
      BY <2>2 DEF Selects
    <2> QED
      BY <2>3
  <1>3. Nat \subseteq S
    <2> HIDE DEF S
    <2> QED
      BY <1>1, <1>2, InductiveSet
  <1> QED
    BY <1>3

\* The tokens of a stream are the last of a selection.
LEMMA TokensAreSelected ==
  ASSUME NEW S, NEW s \in Seq(S)
  PROVE  \E h : Selected(h, s) /\ TokensOf(s) = h[Len(s)]
  <1> DEFINE g == CHOOSE g : Selects(g, s, Len(s))
             h == [m \in 0..Len(s) |-> g[1..m]]
  <1>1. Len(s) \in Nat /\ DOMAIN s = 1..Len(s)
    BY LenProperties
  <1>2. Selects(g, s, Len(s))
    BY <1>1, SelectionExists
  <1>3. TokensOf(s) = g[1..Len(s)]
    BY <1>1 DEF TokensOf, FoldLeft, MapThenFoldSet, Selects, TokenStep
  <1> HIDE DEF g
  <1>4. g[1..0] = << >>
    <2>1. 1..0 = {} /\ {} \in SUBSET (1..Len(s))
      OBVIOUS
    <2> QED
      BY <1>2, <2>1 DEF Selects
  <1>5. ASSUME NEW m \in 0..Len(s) - 1
        PROVE  g[1..m + 1] = TokenStep(g[1..m], s[m + 1])
    <2>1. m \in Nat /\ m + 1 <= Len(s) /\ 1..m + 1 \in SUBSET (1..Len(s))
      BY <1>1
    <2>2. m + 1 \in 1..m + 1
      BY <2>1
    <2>3. Max(1..m + 1) = m + 1
      BY <2>1, MaxOfUpTo
    <2>4. (1..m + 1) \ {m + 1} = 1..m
      BY <2>1
    <2> QED
      BY <1>2, <2>1, <2>2, <2>3, <2>4 DEF Selects
  <1>6. Selected(h, s)
    BY <1>1, <1>4, <1>5 DEF Selected
  <1> QED
    BY <1>1, <1>3, <1>6

\* Selections of streams that begin alike do too.
LEMMA SelectionsAgree ==
  ASSUME NEW s, NEW t, NEW h, NEW g, NEW n \in Nat,
         Len(s) \in Nat, Len(t) \in Nat, n <= Len(s), n <= Len(t),
         \A i \in 1..n : s[i] = t[i],
         Selected(h, s), Selected(g, t)
  PROVE  h[n] = g[n]
  <1> DEFINE A == {i \in Nat : i <= n => h[i] = g[i]}
  <1>1. 0 \in A
    BY DEF Selected
  <1>2. ASSUME NEW i \in Nat, i \in A PROVE i + 1 \in A
    <2> SUFFICES ASSUME i + 1 <= n PROVE h[i + 1] = g[i + 1]
      OBVIOUS
    <2>1. /\ i \in 0..Len(s) - 1 /\ i \in 0..Len(t) - 1
          /\ h[i] = g[i] /\ s[i + 1] = t[i + 1]
      BY <1>2
    <2> QED
      BY <2>1 DEF Selected
  <1>3. Nat \subseteq A
    <2> HIDE DEF A
    <2> QED
      BY <1>1, <1>2, InductiveSet
  <1> QED
    BY <1>3

\* A stream has the tokens of its messages.
LEMMA SelectionType ==
  ASSUME NEW S, NEW s \in Seq(S), NEW h, Selected(h, s), NEW n \in 0..Len(s)
  PROVE  h[n] \in Seq(S)
  <1> DEFINE A == {i \in Nat : i <= Len(s) => h[i] \in Seq(S)}
  <1>1. Len(s) \in Nat /\ \A i \in 1..Len(s) : s[i] \in S
    BY LenProperties, ElementOfSeq
  <1>2. 0 \in A
    BY EmptySeq DEF Selected
  <1>3. ASSUME NEW i \in Nat, i \in A PROVE i + 1 \in A
    <2> SUFFICES ASSUME i + 1 <= Len(s) PROVE h[i + 1] \in Seq(S)
      OBVIOUS
    <2>1. i \in 0..Len(s) - 1 /\ h[i] \in Seq(S) /\ s[i + 1] \in S
      BY <1>1, <1>3
    <2> QED
      BY <2>1, AppendProperties DEF Selected, TokenStep
  <1>4. Nat \subseteq A
    <2> HIDE DEF A
    <2> QED
      BY <1>2, <1>3, InductiveSet
  <1> QED
    BY <1>1, <1>4

LEMMA TokensType ==
  ASSUME NEW S, NEW s \in Seq(S)
  PROVE  TokensOf(s) \in Seq(S)
  BY TokensAreSelected, SelectionType, LenProperties

LEMMA TokensEmpty == TokensOf(<< >>) = << >>
  <1>1. << >> \in Seq({}) /\ Len(<< >>) = 0
    BY EmptySeq
  <1> QED
    BY <1>1, TokensAreSelected DEF Selected

\* What is sent goes behind, if it is a token.
LEMMA TokensAppend ==
  ASSUME NEW S, NEW s \in Seq(S), NEW e
  PROVE  TokensOf(Append(s, e)) = TokenStep(TokensOf(s), e)
  <1> DEFINE t == Append(s, e)
             n == Len(s)
  <1>1. /\ t \in Seq(S \cup {e}) /\ n \in Nat /\ Len(t) = n + 1
        /\ \A i \in 1..n : t[i] = s[i]
        /\ t[n + 1] = e
    BY AppendElements
  <1> HIDE DEF t
  <1>2. PICK h : Selected(h, s) /\ TokensOf(s) = h[n]
    BY TokensAreSelected
  <1>3. PICK g : Selected(g, t) /\ TokensOf(t) = g[n + 1]
    BY <1>1, TokensAreSelected
  <1>4. g[n] = h[n]
    <2>1. \A i \in 1..n : s[i] = t[i]
      BY <1>1
    <2>2. n <= Len(s) /\ n <= Len(t) /\ Len(s) \in Nat /\ Len(t) \in Nat
      BY <1>1
    <2> HIDE DEF n
    <2> QED
      BY <1>1, <1>2, <1>3, <2>1, <2>2, SelectionsAgree DEF n
  <1>5. g[n + 1] = TokenStep(g[n], e)
    BY <1>1, <1>3 DEF Selected
  <1> QED
    BY <1>2, <1>3, <1>4, <1>5 DEF t

\* The tokens behind the first message.
LEMMA TokensTail ==
  ASSUME NEW S, NEW s \in Seq(S), s # << >>
  PROVE  TokensOf(s) = IF Head(s).head = "finish"
                         THEN <<Head(s)>> \o TokensOf(Tail(s))
                         ELSE TokensOf(Tail(s))
  <1> DEFINE t == Tail(s)
             n == Len(t)
             First(ts) == IF s[1].head = "finish" THEN <<s[1]>> \o ts ELSE ts
  <1>1. /\ t \in Seq(S) /\ Head(s) = s[1] /\ s[1] \in S
        /\ n \in Nat /\ Len(s) = n + 1
        /\ \A i \in 1..n : t[i] = s[i + 1]
    BY TailElements, LenProperties
  <1> HIDE DEF t
  <1>2. PICK h : Selected(h, s) /\ TokensOf(s) = h[n + 1]
    BY <1>1, TokensAreSelected
  <1>3. PICK g : Selected(g, t) /\ TokensOf(t) = g[n]
    BY <1>1, TokensAreSelected
  <1> DEFINE A == {i \in Nat : i <= n => h[i + 1] = First(g[i])}
  <1>4. 0 \in A
    <2>1. h[0] = << >> /\ g[0] = << >> /\ h[0 + 1] = TokenStep(h[0], s[0 + 1])
      BY <1>1, <1>2, <1>3 DEF Selected
    <2>2. Append(<< >>, s[1]) = <<s[1]>> /\ <<s[1]>> \o << >> = <<s[1]>>
      OBVIOUS
    <2>3. h[0 + 1] = First(g[0])
      BY <2>1, <2>2 DEF TokenStep
    <2> HIDE DEF First
    <2> QED
      BY <2>3
  <1>5. ASSUME NEW i \in Nat, i \in A PROVE i + 1 \in A
    <2> SUFFICES ASSUME i + 1 <= n PROVE h[i + 2] = First(g[i + 1])
      OBVIOUS
    <2>1. /\ h[i + 1] = First(g[i])
          /\ g[i + 1] = TokenStep(g[i], s[i + 2])
      BY <1>1, <1>3, <1>5 DEF Selected
    <2>2. h[i + 2] = TokenStep(h[i + 1], s[i + 2])
      <3>1. i + 1 \in 0..Len(s) - 1 /\ (i + 1) + 1 = i + 2
        BY <1>1
      <3> QED
        BY <1>2, <3>1 DEF Selected
    <2>3. g[i] \in Seq(S) /\ s[i + 2] \in S
      <3>1. i \in 0..Len(t) /\ i + 2 \in 1..Len(s)
        BY <1>1
      <3> QED
        BY <1>1, <1>3, <3>1, SelectionType, ElementOfSeq
    <2>4. Append(<<s[1]>> \o g[i], s[i + 2]) = <<s[1]>> \o Append(g[i], s[i + 2])
      BY <1>1, <2>3
    <2> QED
      BY <2>1, <2>2, <2>4 DEF TokenStep
  <1>6. Nat \subseteq A
    <2> HIDE DEF A
    <2> QED
      BY <1>4, <1>5, InductiveSet
  <1>7. h[n + 1] = First(g[n])
    BY <1>1, <1>6
  <1> QED
    BY <1>1, <1>2, <1>3, <1>7 DEF t

\* A token in front is the first one; any other message is not seen.
LEMMA TokensRead ==
  ASSUME NEW S, NEW s \in Seq(S), s # << >>
  PROVE  /\ Head(s).head = "finish" =>
              /\ TokensOf(s) # << >> /\ Head(TokensOf(s)) = Head(s)
              /\ Tail(TokensOf(s)) = TokensOf(Tail(s))
         /\ Head(s).head # "finish" => TokensOf(Tail(s)) = TokensOf(s)
  <1>1. Tail(s) \in Seq(S) /\ Head(s) \in S
    BY TailElements
  <1>2. TokensOf(Tail(s)) \in Seq(S)
    BY <1>1, TokensType
  <1>3. ASSUME NEW r \in Seq(S), NEW x \in S
        PROVE  /\ <<x>> \o r # << >> /\ Head(<<x>> \o r) = x
               /\ Tail(<<x>> \o r) = r
    <2> DEFINE c == <<x>> \o r
    <2>1. /\ c \in Seq(S) /\ Len(c) = 1 + Len(r) /\ Len(r) \in Nat
          /\ c[1] = x /\ \A i \in 1..Len(r) : c[1 + i] = r[i]
      BY <1>3, LenProperties
    <2> HIDE DEF c
    <2>2. c # << >>
      BY <2>1
    <2>3. /\ Head(c) = x /\ Tail(c) \in Seq(S) /\ Len(Tail(c)) = Len(r)
          /\ \A i \in 1..Len(r) : Tail(c)[i] = r[i]
      BY <2>1, <2>2, TailElements
    <2>4. Tail(c) = r
      BY <2>3, SeqEqual
    <2> QED
      BY <2>2, <2>3, <2>4 DEF c
  <1> DEFINE r == TokensOf(Tail(s))
  <1>4. TokensOf(s) = IF Head(s).head = "finish" THEN <<Head(s)>> \o r ELSE r
    BY TokensTail
  <1>5. /\ <<Head(s)>> \o r # << >> /\ Head(<<Head(s)>> \o r) = Head(s)
        /\ Tail(<<Head(s)>> \o r) = r
    BY <1>1, <1>2, <1>3
  <1> HIDE DEF r
  <1>6. CASE Head(s).head = "finish"
    BY <1>4, <1>5, <1>6 DEF r
  <1>7. CASE Head(s).head # "finish"
    BY <1>4, <1>7 DEF r
  <1> QED
    BY <1>6, <1>7

-------------------------------------------------------------------------------
(***************************************************************************)
(* The barrier of the phases is that of RingBarrier: every step is one of  *)
(* its steps on the streams without data, or invisible to it.              *)
(***************************************************************************)

\* The streams as RingBarrier sees them.
TokenWire == [p \in Procs |-> TokensOf(wire[p])]

\* A message is sent.
LEMMA TokenWireSend ==
  ASSUME NEW S, wire \in [Procs -> Seq(S)], NEW d \in Procs, NEW e,
         wire' = [wire EXCEPT ![d] = Append(@, e)]
  PROVE  /\ IsToken(e) => TokenWire' = [TokenWire EXCEPT ![d] = Append(@, e)]
         /\ ~ IsToken(e) => UNCHANGED TokenWire
  <1>1. wire'[d] = Append(wire[d], e) /\ \A q \in Procs \ {d} : wire'[q] = wire[q]
    OBVIOUS
  <1>2. TokensOf(Append(wire[d], e)) = TokenStep(TokensOf(wire[d]), e)
    BY TokensAppend
  <1>3. /\ TokensOf(wire'[d]) = TokenStep(TokensOf(wire[d]), e)
        /\ \A q \in Procs \ {d} : TokensOf(wire'[q]) = TokensOf(wire[q])
    BY <1>1, <1>2
  <1> QED
    BY <1>3 DEF TokenWire, TokenStep, IsToken

\* A message is read.
LEMMA TokenWireRead ==
  ASSUME NEW S, wire \in [Procs -> Seq(S)], NEW p \in Procs, wire[p] # << >>,
         wire' = [wire EXCEPT ![p] = Tail(@)]
  PROVE  /\ IsToken(Head(wire[p])) =>
              TokenWire' = [TokenWire EXCEPT ![p] = Tail(@)]
         /\ ~ IsToken(Head(wire[p])) => UNCHANGED TokenWire
  <1>1. wire'[p] = Tail(wire[p]) /\ \A q \in Procs \ {p} : wire'[q] = wire[q]
    OBVIOUS
  <1>2. /\ IsToken(Head(wire[p])) =>
              Tail(TokensOf(wire[p])) = TokensOf(Tail(wire[p]))
        /\ ~ IsToken(Head(wire[p])) =>
              TokensOf(Tail(wire[p])) = TokensOf(wire[p])
    BY TokensRead DEF IsToken
  <1>3. \A q \in Procs \ {p} : TokensOf(wire'[q]) = TokensOf(wire[q])
    BY <1>1
  <1>4. TokensOf(wire'[p]) = TokensOf(Tail(wire[p]))
    BY <1>1
  <1> QED
    BY <1>2, <1>3, <1>4 DEF TokenWire

\* A token is read and another one sent.
LEMMA TokenWireRelay ==
  ASSUME NEW S, wire \in [Procs -> Seq(S)], NEW p \in Procs, wire[p] # << >>,
         IsToken(Head(wire[p])), NEW e, IsToken(e),
         wire' = [wire EXCEPT ![p] = Tail(@), ![Down(p)] = Append(@, e)]
  PROVE  TokenWire' = [TokenWire EXCEPT ![p] = Tail(@),
                                        ![Down(p)] = Append(@, e)]
  <1>1. Down(p) \in Procs /\ Down(p) # p
    BY RingArithmetic
  <1>2. /\ wire'[p] = Tail(wire[p]) /\ wire'[Down(p)] = Append(wire[Down(p)], e)
        /\ \A q \in Procs \ {p, Down(p)} : wire'[q] = wire[q]
    BY <1>1
  <1>3. TokensOf(Tail(wire[p])) = Tail(TokensOf(wire[p]))
    BY TokensRead DEF IsToken
  <1>4. TokensOf(Append(wire[Down(p)], e)) = Append(TokensOf(wire[Down(p)]), e)
    BY <1>1, TokensAppend DEF TokenStep, IsToken
  <1>5. /\ TokensOf(wire'[p]) = Tail(TokensOf(wire[p]))
        /\ TokensOf(wire'[Down(p)]) = Append(TokensOf(wire[Down(p)]), e)
        /\ \A q \in Procs \ {p, Down(p)} : TokensOf(wire'[q]) = TokensOf(wire[q])
    BY <1>2, <1>3, <1>4
  <1> QED
    BY <1>1, <1>5 DEF TokenWire

\* What the ring's variables but the streams do.
LEMMA TokensStutter ==
  ASSUME UNCHANGED <<mainVars, serverVars>>, UNCHANGED TokenWire
  PROVE  UNCHANGED Tokens!vars
  BY DEF mainVars, serverVars, TokenWire, Tokens!vars

\* A calculation sends data or nothing.
LEMMA CalculateTokens ==
  ASSUME FlushInv, NEW p \in Procs, Calculate(p)
  PROVE  UNCHANGED Tokens!vars
  <1>1. PICK S : wire \in [Procs -> Seq(S)]
    BY DEF FlushInv, Streams
  <1>2. UNCHANGED <<mainVars, serverVars>>
    BY DEF Calculate, AddPartKey, SendPartKey, CollectOrder, SendPartSaleData,
           MergeData, GetLocalUnderSale, SendFinalAns
  <1>3. \/ UNCHANGED wire
        \/ \E m : ~ IsToken(m) /\ wire' = [wire EXCEPT ![Down(p)] = Append(@, m)]
    BY DEF Calculate, AddPartKey, SendPartKey, CollectOrder, SendPartSaleData,
           MergeData, GetLocalUnderSale, SendFinalAns, Send, PartKey, IsToken
  <1>4. UNCHANGED TokenWire
    <2>1. CASE UNCHANGED wire
      BY <2>1 DEF TokenWire
    <2>2. ASSUME NEW m, ~ IsToken(m),
                 wire' = [wire EXCEPT ![Down(p)] = Append(@, m)]
          PROVE  UNCHANGED TokenWire
      BY <1>1, <2>2, RingArithmetic, TokenWireSend
    <2> QED
      BY <1>3, <2>1, <2>2
  <1> QED
    BY <1>2, <1>4, TokensStutter

\* The main thread in doAsync does what it does in RingBarrier.
LEMMA SynchroniseTokens ==
  ASSUME FlushInv, NEW p \in Procs, Synchronise(p)
  PROVE  Tokens!Main(p)
  <1>1. PICK S : wire \in [Procs -> Seq(S)]
    BY DEF FlushInv, Streams
  <1>2. UNCHANGED wire => UNCHANGED TokenWire
    BY DEF TokenWire
  <1>3. CASE EnterBarrier(p)
    BY <1>2, <1>3 DEF EnterBarrier, Ring!EnterBarrier, Tokens!Main,
                      Tokens!EnterBarrier, Ring!serverVars, Tokens!serverVars,
                      TokenWire
  <1>4. CASE LeaveBarrier(p)
    BY <1>2, <1>4 DEF LeaveBarrier, Ring!LeaveBarrier, Tokens!Main,
                      Tokens!LeaveBarrier, Ring!serverVars, Tokens!serverVars,
                      TokenWire
  <1>5. CASE Ring!Wait(p)
    BY <1>2, <1>5 DEF Ring!Wait, Tokens!Main, Tokens!Wait, Ring!serverVars,
                      Tokens!serverVars, TokenWire
  <1>6. CASE Ring!SendFinish(p)
    <2> DEFINE e == Ring!Stamped(p, finish_index[p], Ring!NoDigits)
    <2>1. wire' = [wire EXCEPT ![Down(p)] = Append(@, e)]
      BY <1>6 DEF Ring!SendFinish, Down
    <2>2. IsToken(e)
      BY DEF IsToken, Ring!Stamped
    <2>3. TokenWire' = [TokenWire EXCEPT ![Down(p)] = Append(@, e)]
      BY <1>1, <2>1, <2>2, RingArithmetic, TokenWireSend
    <2>4. /\ Down(p) = Tokens!Down(p)
          /\ e = Tokens!Stamped(p, finish_index[p], Tokens!NoDigits)
      BY DEF Down, Ring!Down, Tokens!Down, Ring!Stamped, Tokens!Stamped,
             Ring!NoDigits, Tokens!NoDigits, Ring!Procs, Tokens!Procs
    <2>5. Tokens!SendFinish(p)
      BY <1>6, <2>3, <2>4 DEF Ring!SendFinish, Tokens!SendFinish,
                             Ring!serverVars, Tokens!serverVars, TokenWire
    <2> QED
      BY <2>5 DEF Tokens!Main
  <1> QED
    BY <1>3, <1>4, <1>5, <1>6 DEF Synchronise

\* The case finish of the server thread handles the same token.
LEMMA ReceiveTokens ==
  ASSUME FlushInv, NEW p \in Procs, ReceiveFinish(p)
  PROVE  Tokens!HandleFinish(p)
  <1>1. PICK S : wire \in [Procs -> Seq(S)]
    BY DEF FlushInv, Streams
  <1> DEFINE t == Head(wire[p])
             e == Ring!Stamped(p, t.idx, t.cnt)
  <1>2. wire[p] # << >> /\ IsToken(t)
    BY DEF ReceiveFinish, Reads, Ring!Receives, IsToken
  <1>3. TokenWire[p] # << >> /\ Head(TokenWire[p]) = t
    <2>1. wire[p] \in Seq(S)
      BY <1>1
    <2> QED
      BY <1>2, <2>1, TokensRead DEF IsToken, TokenWire
  <1>4. /\ Ring!Receives(p) => Tokens!Receives(p)
        /\ Ring!Current(p, t) <=> Tokens!Current(p, t)
        /\ Ring!CheckFinish(t) <=> Tokens!CheckFinish(t)
    BY <1>3 DEF Ring!Receives, Tokens!Receives, Ring!Current, Tokens!Current,
                Ring!CheckFinish, Tokens!CheckFinish, Ring!Procs, Tokens!Procs,
                Ring!None, Tokens!None, TokenWire
  <1>5. ASSUME wire' = [wire EXCEPT ![p] = Tail(@)]
        PROVE  TokenWire' = [TokenWire EXCEPT ![p] = Tail(@)]
    BY <1>1, <1>2, <1>5, TokenWireRead
  <1>6. ASSUME Ring!Forward(p, t)
        PROVE  Tokens!Forward(p, t)
    <2>1. wire' = [wire EXCEPT ![p] = Tail(@), ![Down(p)] = Append(@, e)]
      BY <1>6 DEF Ring!Forward, Down
    <2>2. IsToken(e)
      BY DEF IsToken, Ring!Stamped
    <2>3. TokenWire' = [TokenWire EXCEPT ![p] = Tail(@),
                                         ![Down(p)] = Append(@, e)]
      BY <1>1, <1>2, <2>1, <2>2, TokenWireRelay
    <2>4. Down(p) = Tokens!Down(p) /\ e = Tokens!Stamped(p, t.idx, t.cnt)
      BY DEF Down, Ring!Down, Tokens!Down, Ring!Stamped, Tokens!Stamped
    <2> QED
      BY <2>3, <2>4 DEF Tokens!Forward, TokenWire
  <1>7. CASE Ring!DropToken(p)
    BY <1>3, <1>4, <1>5, <1>7
       DEF Ring!DropToken, Tokens!DropToken, Tokens!HandleFinish,
           Ring!mainVars, Tokens!mainVars, Ring!serverVars, Tokens!serverVars,
           TokenWire
  <1>8. CASE Ring!PassToken(p)
    BY <1>3, <1>4, <1>6, <1>8
       DEF Ring!PassToken, Tokens!PassToken, Tokens!HandleFinish,
           Ring!mainVars, Tokens!mainVars, Ring!serverVars, Tokens!serverVars,
           TokenWire
  <1>9. CASE Ring!CompleteToken(p)
    BY <1>3, <1>4, <1>6, <1>9
       DEF Ring!CompleteToken, Tokens!CompleteToken, Tokens!HandleFinish,
           Ring!mainVars, Tokens!mainVars, TokenWire
  <1> QED
    BY <1>7, <1>8, <1>9 DEF ReceiveFinish, Ring!HandleFinish

\* The server thread handles a token, notifies, or does what is invisible.
LEMMA ServeTokens ==
  ASSUME FlushInv, NEW p \in Procs, Serve(p)
  PROVE  Tokens!Server(p) \/ UNCHANGED Tokens!vars
  <1>1. PICK S : wire \in [Procs -> Seq(S)]
    BY DEF FlushInv, Streams
  <1>2. CASE ReceiveFinish(p)
    BY <1>2, ReceiveTokens DEF Tokens!Server
  <1>3. CASE ReceivePartKey(p) \/ ReceiveFinalPart(p) \/ ReceiveFinalAns(p)
    <2>1. /\ UNCHANGED <<mainVars, serverVars>>
          /\ wire[p] # << >> /\ ~ IsToken(Head(wire[p]))
          /\ wire' = [wire EXCEPT ![p] = Tail(@)]
      BY <1>3 DEF ReceivePartKey, ReceiveFinalPart, ReceiveFinalAns, Reads,
                  Consume, Ring!Receives, IsToken
    <2>2. UNCHANGED TokenWire
      BY <1>1, <2>1, TokenWireRead
    <2> QED
      BY <2>1, <2>2, TokensStutter
  <1>4. CASE Forward(p)
    <2> DEFINE e == handling[p].msg
    <2>1. ~ IsToken(e)
      BY <1>4, BusyHands, HandType DEF Forward, FlushInv, IsData, IsToken
    <2>2. /\ UNCHANGED <<mainVars, serverVars>>
          /\ wire' = [wire EXCEPT ![Down(p)] = Append(@, e)]
      BY <1>4 DEF Forward, Send
    <2>3. UNCHANGED TokenWire
      BY <1>1, <2>1, <2>2, RingArithmetic, TokenWireSend
    <2> QED
      BY <2>2, <2>3, TokensStutter
  <1>5. CASE FallThrough(p)
    <2>1. UNCHANGED <<mainVars, serverVars>> /\ UNCHANGED TokenWire
      BY <1>5 DEF FallThrough, TokenWire
    <2> QED
      BY <2>1, TokensStutter
  <1>6. CASE Ring!Notify(p)
    BY <1>6 DEF Ring!Notify, Tokens!Notify, Tokens!Server, Ring!None,
                Tokens!None, TokenWire
  <1> QED
    BY <1>2, <1>3, <1>4, <1>5, <1>6 DEF Serve

\* Every step of the query is a step of the ring of RingBarrier, or none.
LEMMA RingSimulation ==
  ASSUME FlushInv, [Next]_vars
  PROVE  [Tokens!Next]_(Tokens!vars)
  <1>1. CASE UNCHANGED vars
    BY <1>1 DEF vars, Ring!vars, Tokens!vars
  <1>2. CASE Next
    <2>1. PICK p \in Procs : Calculate(p) \/ Synchronise(p) \/ Serve(p)
      BY <1>2 DEF Next
    <2>2. p \in Tokens!Procs
      BY DEF Procs, Ring!Procs, Tokens!Procs
    <2> QED
      BY <2>1, <2>2, CalculateTokens, SynchroniseTokens, ServeTokens
         DEF Tokens!Next
  <1> QED
    BY <1>1, <1>2

\* The data messages do not disturb the barrier: without them the streams, and
\* everything doAsync and the case finish share, behave as in RingBarrier, for
\* any number of instances and any data.  What RingBarrierProofs shows of the
\* barrier therefore holds between the phases of the query.
THEOREM QueryImplementsRing == Spec => ImplementsRing
  <1>1. Init => Tokens!Init
    <2> SUFFICES ASSUME Init PROVE Tokens!Init
      OBVIOUS
    <2>1. \A p \in Procs : wire[p] = << >>
      BY DEF Init, Ring!Init, Procs
    <2>2. TokenWire = [p \in Procs |-> << >>]
      BY <2>1, TokensEmpty DEF TokenWire
    <2> QED
      BY <2>2 DEF Init, Ring!Init, Tokens!Init, Procs, Ring!Procs,
                  Tokens!Procs, Ring!None, Tokens!None, TokenWire
  <1>2. FlushInv /\ [Next]_vars => [Tokens!Next]_(Tokens!vars)
    BY RingSimulation
  <1> QED
    BY <1>1, <1>2, AlwaysFlushInv, PTL DEF Spec, ImplementsRing, Tokens!Spec

-------------------------------------------------------------------------------
(***************************************************************************)
(* The sums of the parts.  A sum is followed through partData, the streams *)
(* and receivePartData by its weight, for every function of a sum that     *)
(* adds up when two sums of the same part are merged: the pieces and the   *)
(* number of orders of one part are such functions.                        *)
(***************************************************************************)

\* What an order may be.
Order == [lPartkey : Nat, lQuantity : Nat, lExtendedprice : Nat]

\* What sums can weigh: merging two sums of a part adds their weights.
Weights ==
  {F \in [SaleType -> Nat] :
     \A k, a, b, c, d \in Nat :
       F[Sale(k, a + b, c + d)] = F[Sale(k, a, c)] + F[Sale(k, b, d)]}

Has(sales, key) == \E i \in DOMAIN sales : sales[i].partid = key

\* No part has two entries.
OneEach(sales) ==
  \A i, j \in DOMAIN sales : sales[i].partid = sales[j].partid => i = j

\* What the first c sums weigh.
Weigh(sales, c, F) ==
  Total([i \in DOMAIN sales |-> IF i <= c THEN F[sales[i]] ELSE 0])

WeighAll(sales, F) == Total([i \in DOMAIN sales |-> F[sales[i]]])

LEMMA SaleParts ==
  ASSUME NEW d \in SaleType
  PROVE  /\ d = Sale(d.partid, d.totalSale, d.orderCount)
         /\ d.partid \in Nat /\ d.totalSale \in Nat /\ d.orderCount \in Nat
  BY DEF SaleType, Sale

LEMMA SaleIs ==
  ASSUME NEW k \in Nat, NEW a \in Nat, NEW c \in Nat
  PROVE  /\ Sale(k, a, c) \in SaleType
         /\ Sale(k, a, c).partid = k
         /\ Sale(k, a, c).totalSale = a
         /\ Sale(k, a, c).orderCount = c
  BY DEF SaleType, Sale

LEMMA WeightType ==
  ASSUME NEW F \in Weights
  PROVE  /\ F \in [SaleType -> Nat] /\ F \in [SaleType -> Int]
         /\ \A k \in Nat : F[Sale(k, 0, 0)] = 0
  <1>1. F \in [SaleType -> Nat]
    BY DEF Weights
  <1>2. ASSUME NEW k \in Nat PROVE F[Sale(k, 0, 0)] = 0
    <2>1. PICK z \in Nat : z = 0
      OBVIOUS
    <2>2. F[Sale(k, z + z, z + z)] = F[Sale(k, z, z)] + F[Sale(k, z, z)]
      <3>1. \A x, y, w, u, v \in Nat :
              F[Sale(x, y + w, u + v)] = F[Sale(x, y, u)] + F[Sale(x, w, v)]
        BY Zenon DEF Weights
      <3>2. \A y, w, u, v \in Nat :
              F[Sale(k, y + w, u + v)] = F[Sale(k, y, u)] + F[Sale(k, w, v)]
        BY <3>1, Zenon
      <3>3. \A w, u, v \in Nat :
              F[Sale(k, z + w, u + v)] = F[Sale(k, z, u)] + F[Sale(k, w, v)]
        BY <3>2, Zenon
      <3>4. \A u, v \in Nat :
              F[Sale(k, z + z, u + v)] = F[Sale(k, z, u)] + F[Sale(k, z, v)]
        BY <3>3, Zenon
      <3>5. \A v \in Nat :
              F[Sale(k, z + z, z + v)] = F[Sale(k, z, z)] + F[Sale(k, z, v)]
        BY <3>4, Zenon
      <3> QED
        BY <3>5, Zenon
    <2>3. F[Sale(k, z, z)] \in Nat
      BY <1>1, SaleIs
    <2>4. z + z = z
      BY <2>1
    <2>5. F[Sale(k, z, z)] = F[Sale(k, z, z)] + F[Sale(k, z, z)]
      BY <2>2, <2>4
    <2>6. PICK x \in Nat : x = F[Sale(k, z, z)]
      BY <2>3
    <2>7. x = x + x
      BY <2>5, <2>6
    <2>8. x = z
      BY <2>1, <2>7
    <2>9. F[Sale(k, z, z)] = z
      BY <2>6, <2>8, Zenon
    <2> QED
      BY <2>1, <2>9, Zenon
  <1> QED
    BY <1>1, <1>2

\* A function on 1..n is a sequence.
LEMMA Tuple ==
  ASSUME NEW S, NEW n \in Nat, NEW t \in [1..n -> S]
  PROVE  t \in Seq(S) /\ Len(t) = n /\ DOMAIN t = 1..n
  OBVIOUS

\* The two branches of Insert.
LEMMA InsertIs ==
  ASSUME NEW s \in Seq(SaleType), OneEach(s), NEW d \in SaleType
  PROVE  \/ /\ ~ Has(s, d.partid)
            /\ Insert(s, d) = Append(s, d)
         \/ \E i \in 1..Len(s) :
              /\ s[i].partid = d.partid
              /\ Insert(s, d) \in Seq(SaleType) /\ Len(Insert(s, d)) = Len(s)
              /\ Insert(s, d)[i] = Sale(d.partid, s[i].totalSale + d.totalSale,
                                        s[i].orderCount + d.orderCount)
              /\ \A j \in 1..Len(s) : j # i =>
                   s[j].partid # d.partid /\ Insert(s, d)[j] = s[j]
  <1>1. /\ Len(s) \in Nat /\ DOMAIN s = 1..Len(s)
        /\ \A i \in 1..Len(s) : s[i] \in SaleType
    BY LenProperties, ElementOfSeq
  <1>2. CASE ~ Has(s, d.partid)
    BY <1>2 DEF Has, Insert
  <1>3. CASE Has(s, d.partid)
    <2>1. PICK i \in 1..Len(s) : s[i].partid = d.partid
      BY <1>1, <1>3 DEF Has
    <2>2. \A j \in 1..Len(s) : j # i => s[j].partid # d.partid
      BY <1>1, <2>1 DEF OneEach
    <2>3. PICK e : e = Sale(d.partid, s[i].totalSale + d.totalSale,
                            s[i].orderCount + d.orderCount)
      OBVIOUS
    <2>4. e \in SaleType
      BY <1>1, <2>3 DEF SaleType, Sale
    <2>5. PICK n \in Nat : n = Len(s)
      BY <1>1
    <2>6. PICK t : t = Insert(s, d)
      OBVIOUS
    <2>7. t = [j \in 1..n |-> IF j = i THEN e ELSE s[j]]
      BY <1>1, <1>3, <2>1, <2>2, <2>3, <2>5, <2>6 DEF Has, Insert
    <2>8. t \in [1..n -> SaleType]
      BY <1>1, <2>4, <2>5, <2>7
    <2>9. t \in Seq(SaleType) /\ Len(t) = n
      BY <2>8, Tuple
    <2>10. t[i] = e /\ \A j \in 1..Len(s) : j # i => t[j] = s[j]
      BY <2>1, <2>5, <2>7
    <2> QED
      BY <2>1, <2>2, <2>3, <2>5, <2>6, <2>9, <2>10
  <1> QED
    BY <1>2, <1>3

\* What Insert keeps and what it adds.
LEMMA InsertAdds ==
  ASSUME NEW s \in Seq(SaleType), OneEach(s), NEW d \in SaleType
  PROVE  /\ Insert(s, d) \in Seq(SaleType) /\ OneEach(Insert(s, d))
         /\ \A k : Has(Insert(s, d), k) <=> Has(s, k) \/ k = d.partid
         /\ \A F \in Weights :
              WeighAll(Insert(s, d), F) = WeighAll(s, F) + F[d]
  <1>1. /\ Len(s) \in Nat /\ DOMAIN s = 1..Len(s)
        /\ \A i \in 1..Len(s) : s[i] \in SaleType
    BY LenProperties, ElementOfSeq
  <1>2. CASE ~ Has(s, d.partid) /\ Insert(s, d) = Append(s, d)
    <2>1. PICK t : t = Append(s, d)
      OBVIOUS
    <2>2. /\ t \in Seq(SaleType) /\ Len(t) = Len(s) + 1
          /\ \A i \in 1..Len(s) : t[i] = s[i]
          /\ t[Len(s) + 1] = d /\ DOMAIN t = 1..Len(t)
      BY <2>1, AppendProperties, LenProperties
    <2>3. PICK n \in Nat : n = Len(s)
      BY <1>1
    <2>4. OneEach(t)
      BY <1>1, <1>2, <2>2, <2>3 DEF OneEach, Has
    <2>5. \A k : Has(t, k) <=> Has(s, k) \/ k = d.partid
      BY <1>1, <2>2, <2>3 DEF Has
    <2>6. ASSUME NEW F \in Weights
          PROVE  WeighAll(t, F) = WeighAll(s, F) + F[d]
      BY <2>1, WeightType, TotalMapAppend DEF WeighAll
    <2> QED
      BY <1>2, <2>1, <2>2, <2>4, <2>5, <2>6
  <1>3. ASSUME NEW i \in 1..Len(s), s[i].partid = d.partid,
               Insert(s, d) \in Seq(SaleType), Len(Insert(s, d)) = Len(s),
               Insert(s, d)[i] = Sale(d.partid, s[i].totalSale + d.totalSale,
                                      s[i].orderCount + d.orderCount),
               \A j \in 1..Len(s) : j # i =>
                 s[j].partid # d.partid /\ Insert(s, d)[j] = s[j]
        PROVE  /\ OneEach(Insert(s, d))
               /\ \A k : Has(Insert(s, d), k) <=> Has(s, k) \/ k = d.partid
               /\ \A F \in Weights :
                    WeighAll(Insert(s, d), F) = WeighAll(s, F) + F[d]
    <2>1. PICK t \in Seq(SaleType) : t = Insert(s, d)
      BY <1>3
    <2>2. DOMAIN t = 1..Len(s) /\ \A j \in 1..Len(s) : t[j] \in SaleType
      BY <1>3, <2>1, LenProperties, ElementOfSeq
    <2>3. \A j \in 1..Len(s) : t[j].partid = s[j].partid
      BY <1>3, <2>1 DEF Sale
    <2>4. OneEach(t)
      BY <1>1, <2>2, <2>3 DEF OneEach
    <2>5. \A k : Has(t, k) <=> Has(s, k) \/ k = d.partid
      BY <1>1, <1>3, <2>2, <2>3 DEF Has
    <2>6. ASSUME NEW F \in Weights
          PROVE  WeighAll(t, F) = WeighAll(s, F) + F[d]
      <3>1. F \in [SaleType -> Int] /\ F \in [SaleType -> Nat]
        BY WeightType
      <3>2. PICK a : a = [j \in DOMAIN s |-> F[s[j]]]
        OBVIOUS
      <3>3. PICK b : b = [j \in DOMAIN t |-> F[t[j]]]
        OBVIOUS
      <3>4. a \in Seq(Int) /\ Len(a) = Len(s)
        BY <3>1, <3>2, MappedType
      <3>5. b \in Seq(Int) /\ Len(b) = Len(s)
        BY <1>3, <2>1, <3>1, <3>3, MappedType
      <3>6. \A j \in 1..Len(a) : j # i => b[j] = a[j]
        BY <1>1, <1>3, <2>1, <2>2, <3>2, <3>3, <3>4
      <3>7. Total(b) = Total(a) - a[i] + b[i]
        BY <3>4, <3>5, <3>6, TotalReplaced
      <3>8. a[i] = F[s[i]] /\ b[i] = F[t[i]]
        BY <1>1, <2>2, <3>2, <3>3
      <3>9. b[i] = a[i] + F[d]
        <4>1. /\ s[i] = Sale(d.partid, s[i].totalSale, s[i].orderCount)
              /\ d = Sale(d.partid, d.totalSale, d.orderCount)
              /\ s[i].totalSale \in Nat /\ s[i].orderCount \in Nat
              /\ d.partid \in Nat /\ d.totalSale \in Nat /\ d.orderCount \in Nat
          BY <1>1, <1>3, SaleParts
        <4>2. PICK k \in Nat, x \in Nat, y \in Nat, u \in Nat, v \in Nat :
                /\ k = d.partid /\ x = s[i].totalSale /\ y = d.totalSale
                /\ u = s[i].orderCount /\ v = d.orderCount
          BY <4>1
        <4>3. F[Sale(k, x + y, u + v)] = F[Sale(k, x, u)] + F[Sale(k, y, v)]
          <5>1. \A m, n, w, g, h \in Nat :
                  F[Sale(m, n + w, g + h)] = F[Sale(m, n, g)] + F[Sale(m, w, h)]
            BY Zenon DEF Weights
          <5>2. \A n, w, g, h \in Nat :
                  F[Sale(k, n + w, g + h)] = F[Sale(k, n, g)] + F[Sale(k, w, h)]
            BY <5>1, Zenon
          <5>3. \A w, g, h \in Nat :
                  F[Sale(k, x + w, g + h)] = F[Sale(k, x, g)] + F[Sale(k, w, h)]
            BY <5>2, Zenon
          <5>4. \A g, h \in Nat :
                  F[Sale(k, x + y, g + h)] = F[Sale(k, x, g)] + F[Sale(k, y, h)]
            BY <5>3, Zenon
          <5>5. \A h \in Nat :
                  F[Sale(k, x + y, u + h)] = F[Sale(k, x, u)] + F[Sale(k, y, h)]
            BY <5>4, Zenon
          <5> QED
            BY <5>5, Zenon
        <4>4. s[i] = Sale(k, x, u) /\ d = Sale(k, y, v)
          BY <4>1, <4>2
        <4>5. t[i] = Sale(k, x + y, u + v)
          BY <1>3, <2>1, <4>2
        <4> QED
          BY <3>8, <4>3, <4>4, <4>5
      <3>10. a[i] \in Nat /\ F[d] \in Nat /\ Total(a) \in Int
        BY <1>1, <3>1, <3>4, <3>8, TotalType
      <3>11. Total(b) = Total(a) + F[d]
        BY <3>7, <3>9, <3>10
      <3> QED
        BY <3>2, <3>3, <3>11 DEF WeighAll
    <2> QED
      BY <2>1, <2>4, <2>5, <2>6
  <1> QED
    BY <1>2, <1>3, InsertIs

\* The weight of one more, and of all.
LEMMA WeighNext ==
  ASSUME NEW s \in Seq(SaleType), NEW F \in Weights, NEW c \in Nat
  PROVE  /\ Weigh(s, c, F) \in Nat /\ WeighAll(s, F) \in Nat
         /\ Weigh(s, 0, F) = 0
         /\ c < Len(s) => Weigh(s, c + 1, F) = Weigh(s, c, F) + F[s[c + 1]]
         /\ c >= Len(s) => Weigh(s, c, F) = WeighAll(s, F)
  <1>1. PICK n \in Nat : n = Len(s)
    BY LenProperties
  <1>2. DOMAIN s = 1..n /\ \A i \in 1..n : s[i] \in SaleType
    BY <1>1, LenProperties, ElementOfSeq
  <1>3. F \in [SaleType -> Nat]
    BY WeightType
  <1>4. ASSUME NEW m \in Nat, NEW t,
               t = [i \in DOMAIN s |-> IF i <= m THEN F[s[i]] ELSE 0]
        PROVE  t \in Seq(Nat) /\ t \in Seq(Int) /\ Len(t) = n
    <2>1. t = [i \in 1..n |-> t[i]] /\ \A i \in 1..n : t[i] \in Nat
      BY <1>2, <1>3, <1>4
    <2>2. t \in [1..n -> Nat] /\ t \in [1..n -> Int]
      BY <2>1
    <2> QED
      BY <2>2, Tuple
  <1>5. ASSUME NEW m \in Nat PROVE Weigh(s, m, F) \in Nat
    <2>1. PICK t : t = [i \in DOMAIN s |-> IF i <= m THEN F[s[i]] ELSE 0]
      OBVIOUS
    <2>2. t \in Seq(Nat)
      BY <1>4, <2>1
    <2> QED
      BY <2>1, <2>2, TotalNat DEF Weigh
  <1>6. Weigh(s, 0, F) = 0
    <2>1. PICK t : t = [i \in DOMAIN s |-> IF i <= 0 THEN F[s[i]] ELSE 0]
      OBVIOUS
    <2>2. t \in Seq(Int) /\ Len(t) = n
      BY <1>4, <2>1
    <2>3. \A i \in 1..Len(t) : t[i] = 0
      BY <1>2, <2>1, <2>2
    <2> QED
      BY <2>1, <2>2, <2>3, TotalZero DEF Weigh
  <1>7. ASSUME NEW m \in Nat, m >= n PROVE Weigh(s, m, F) = WeighAll(s, F)
    <2>1. [i \in DOMAIN s |-> IF i <= m THEN F[s[i]] ELSE 0]
            = [i \in DOMAIN s |-> F[s[i]]]
      BY <1>2, <1>7
    <2> QED
      BY <2>1 DEF Weigh, WeighAll
  <1>8. WeighAll(s, F) \in Nat
    BY <1>5, <1>7
  <1>9. ASSUME c < n PROVE Weigh(s, c + 1, F) = Weigh(s, c, F) + F[s[c + 1]]
    <2>1. PICK t : t = [i \in DOMAIN s |-> IF i <= c THEN F[s[i]] ELSE 0]
      OBVIOUS
    <2>2. PICK u : u = [i \in DOMAIN s |-> IF i <= c + 1 THEN F[s[i]] ELSE 0]
      OBVIOUS
    <2>3. t \in Seq(Int) /\ Len(t) = n
      BY <1>4, <2>1
    <2>4. u \in Seq(Int) /\ Len(u) = n
      BY <1>4, <2>2
    <2>5. PICK j \in 1..n : j = c + 1
      BY <1>9
    <2>6. \A i \in 1..n : i # j => u[i] = t[i]
      BY <1>2, <2>1, <2>2, <2>5
    <2>7. t[j] = 0 /\ u[j] = F[s[j]] /\ F[s[j]] \in Nat
      BY <1>2, <1>3, <2>1, <2>2, <2>5
    <2>8. Total(u) = Total(t) - t[j] + u[j]
      BY <2>3, <2>4, <2>6, TotalReplaced
    <2>9. Total(t) \in Int
      BY <2>3, TotalType
    <2> QED
      BY <2>1, <2>2, <2>5, <2>7, <2>8, <2>9 DEF Weigh
  <1> QED
    BY <1>1, <1>5, <1>6, <1>7, <1>8, <1>9

\* What the first c of p's orders of matching parts come to.
OrderSum(p, c, G) ==
  Total([i \in DOMAIN Orders[p] |->
           IF i <= c /\ Orders[p][i].lPartkey \in AllKeys THEN G[Orders[p][i]]
                                                          ELSE 0])

LEMMA OrderSumNext ==
  ASSUME NEW p \in Procs, NEW G \in [Order -> Nat], NEW c \in Nat
  PROVE  /\ OrderSum(p, c, G) \in Nat
         /\ OrderSum(p, 0, G) = 0
         /\ c < Len(Orders[p]) =>
              OrderSum(p, c + 1, G) =
                OrderSum(p, c, G)
                  + IF Orders[p][c + 1].lPartkey \in AllKeys
                      THEN G[Orders[p][c + 1]] ELSE 0
  <1> DEFINE Value(i) ==
               IF Orders[p][i].lPartkey \in AllKeys THEN G[Orders[p][i]] ELSE 0
  <1>1. PICK n \in Nat : n = Len(Orders[p])
    BY OrdersAssumption, LenProperties
  <1>2. /\ DOMAIN Orders[p] = 1..n
        /\ \A i \in 1..n : Orders[p][i] \in Order
    BY <1>1, OrdersAssumption, LenProperties, ElementOfSeq DEF Order
  <1>3. \A i \in 1..n : Value(i) \in Nat
    BY <1>2
  <1>10. \A m \in Nat : OrderSum(p, m, G)
                        = Total([i \in 1..n |-> IF i <= m THEN Value(i) ELSE 0])
    <2> SUFFICES ASSUME NEW m \in Nat
                 PROVE  [i \in DOMAIN Orders[p] |->
                           IF i <= m /\ Orders[p][i].lPartkey \in AllKeys
                             THEN G[Orders[p][i]] ELSE 0]
                        = [i \in 1..n |-> IF i <= m THEN Value(i) ELSE 0]
      BY DEF OrderSum
    <2> QED
      BY <1>2
  <1> HIDE DEF Value
  <1>4. ASSUME NEW m \in Nat, NEW t,
               t = [i \in 1..n |-> IF i <= m THEN Value(i) ELSE 0]
        PROVE  t \in Seq(Nat) /\ t \in Seq(Int) /\ Len(t) = n
    <2>1. t = [i \in 1..n |-> t[i]] /\ \A i \in 1..n : t[i] \in Nat
      BY <1>3, <1>4
    <2>2. t \in [1..n -> Nat] /\ t \in [1..n -> Int]
      BY <2>1
    <2> QED
      BY <2>2, Tuple
  <1>5. OrderSum(p, c, G) \in Nat
    <2>1. PICK t : t = [i \in 1..n |-> IF i <= c THEN Value(i) ELSE 0]
      OBVIOUS
    <2>2. t \in Seq(Nat)
      BY <1>4, <2>1
    <2> QED
      BY <1>10, <2>1, <2>2, TotalNat
  <1>6. OrderSum(p, 0, G) = 0
    <2>1. PICK t : t = [i \in 1..n |-> IF i <= 0 THEN Value(i) ELSE 0]
      OBVIOUS
    <2>2. t \in Seq(Int) /\ Len(t) = n
      BY <1>4, <2>1
    <2>3. \A i \in 1..Len(t) : t[i] = 0
      BY <2>1, <2>2
    <2> QED
      BY <1>10, <2>1, <2>2, <2>3, TotalZero
  <1>7. ASSUME c < n
        PROVE  OrderSum(p, c + 1, G) = OrderSum(p, c, G) + Value(c + 1)
    <2>1. PICK t : t = [i \in 1..n |-> IF i <= c THEN Value(i) ELSE 0]
      OBVIOUS
    <2>10. PICK e \in Nat : e = c + 1
      OBVIOUS
    <2>2. PICK u : u = [i \in 1..n |-> IF i <= e THEN Value(i) ELSE 0]
      OBVIOUS
    <2>3. t \in Seq(Int) /\ Len(t) = n
      BY <1>4, <2>1
    <2>4. u \in Seq(Int) /\ Len(u) = n
      BY <1>4, <2>2
    <2>5. PICK j \in 1..n : j = c + 1
      BY <1>7
    <2>6. \A i \in 1..n : i # j => u[i] = t[i]
      BY <2>1, <2>2, <2>5, <2>10
    <2>7. t[j] = 0 /\ u[j] = Value(j) /\ Value(j) \in Nat
      BY <1>3, <2>1, <2>2, <2>5, <2>10
    <2>8. Total(u) = Total(t) - t[j] + u[j]
      BY <2>3, <2>4, <2>6, TotalReplaced
    <2>9. Total(t) \in Int
      BY <2>3, TotalType
    <2>11. OrderSum(p, c, G) = Total(t) /\ OrderSum(p, e, G) = Total(u)
      BY <1>10, <2>1, <2>2
    <2>12. Total(u) = Total(t) + Value(j)
      BY <2>7, <2>8, <2>9
    <2>13. OrderSum(p, e, G) = OrderSum(p, c, G) + Value(j)
      BY <2>11, <2>12
    <2> QED
      BY <2>5, <2>10, <2>13
  <1> QED
    BY <1>1, <1>5, <1>6, <1>7 DEF Value

-------------------------------------------------------------------------------
(***************************************************************************)
(* The types of the data.                                                  *)
(***************************************************************************)

KeyMsg == [head : {"partKey"}, key : Nat]

SaleMsg == [head : {"finalPart"}, sale : SaleType, from : Procs]

Hands ==
  {Idle} \cup [rest : {"forward"}, msg : KeyMsg]
         \cup [rest : {"forward", "ans"}, msg : SaleMsg]

MessagesTyped ==
  wire \in [Procs -> Seq(Message)] /\ handling \in [Procs -> Hands]

DataTyped ==
  /\ orders \in [Procs -> Seq(Order)]
  /\ \A p \in Procs : orders[p] \in Seq(Range(Orders[p]))
  /\ partData \in [Procs -> Seq(SaleType)]
  /\ receivePartData \in [Procs -> Seq(SaleType)]
  /\ \A p \in Procs : OneEach(partData[p]) /\ OneEach(receivePartData[p])
  /\ underSales \in [Procs -> Nat]

TypesInv == MessagesTyped /\ DataTyped

\* The messages, by their head.
LEMMA MessageIs ==
  ASSUME NEW m \in Message
  PROVE  /\ m.head \in {"finish", "partKey", "finalPart", "finalAns"}
         /\ m.head = "finish" => m \in Ring!Token
         /\ m.head = "partKey" => m \in KeyMsg
         /\ m.head = "finalPart" => /\ m \in SaleMsg
                                    /\ m.sale \in SaleType /\ m.from \in Procs
         /\ m.head = "finalAns" => m.ans \in Nat
  BY DEF Message, KeyMsg, SaleMsg, Ring!Token, Procs

LEMMA IsMessage ==
  /\ Ring!Token \subseteq Message
  /\ \A k \in Nat : PartKey(k) \in Message
  /\ SaleMsg \subseteq Message
  /\ \A a \in Nat : [head |-> "finalAns", ans |-> a] \in Message
  BY DEF Message, KeyMsg, SaleMsg, Ring!Token, Procs, PartKey

LEMMA KeysAreNumbers == AllKeys \subseteq Nat
  <1> SUFFICES ASSUME NEW p \in Procs, NEW k \in Range(Parts[p]) PROVE k \in Nat
    BY DEF AllKeys
  <1>1. PICK i \in DOMAIN Parts[p] : k = Parts[p][i]
    BY DEF Range
  <1> QED
    BY <1>1, PartsAssumption, ElementOfSeq, LenProperties

\* An order in the second loop of preprocess.
LEMMA OwnOrder ==
  ASSUME NEW p \in Procs, NEW i \in 1..Len(Orders[p])
  PROVE  /\ Orders[p][i] \in Order /\ Orders[p][i] \in Range(Orders[p])
         /\ Orders[p][i].lPartkey \in Nat /\ Orders[p][i].lQuantity \in Nat
         /\ Orders[p][i].lExtendedprice \in Nat
  <1>1. Orders[p] \in Seq(Order)
    BY OrdersAssumption DEF Order
  <1>2. Orders[p][i] \in Order /\ i \in DOMAIN Orders[p]
    BY <1>1, ElementOfSeq, LenProperties
  <1> QED
    BY <1>2 DEF Order, Range

LEMMA OrdersAreOrders ==
  ASSUME NEW p \in Procs
  PROVE  Range(Orders[p]) \subseteq Order
  <1> SUFFICES ASSUME NEW i \in DOMAIN Orders[p] PROVE Orders[p][i] \in Order
    BY DEF Range
  <1>1. Orders[p] \in Seq(Order)
    BY OrdersAssumption DEF Order
  <1> QED
    BY <1>1, ElementOfSeq, LenProperties

\* A stream that is sent to and a stream that is read.
LEMMA WireSend ==
  ASSUME NEW w \in [Procs -> Seq(Message)], NEW d \in Procs, NEW e \in Message
  PROVE  /\ [w EXCEPT ![d] = Append(@, e)] \in [Procs -> Seq(Message)]
         /\ w[d] # << >> => /\ [w EXCEPT ![d] = Tail(@)] \in [Procs -> Seq(Message)]
                            /\ Head(w[d]) \in Message
  <1>1. Append(w[d], e) \in Seq(Message)
    BY AppendProperties
  <1>2. w[d] # << >> => Tail(w[d]) \in Seq(Message) /\ Head(w[d]) \in Message
    BY HeadTailProperties
  <1> QED
    BY <1>1, <1>2

\* What an instance sends in the phases before the answer.
LEMMA SalesIndex ==
  ASSUME ControlType, TypesInv, NEW p \in Procs, InPhase(p, 2)
  PROVE  /\ step[p] \in Nat /\ step[p] < Len(partData[p])
         /\ step[p] + 1 \in 1..Len(partData[p])
         /\ partData[p][step[p] + 1] \in SaleType
         /\ [head |-> "finalPart", sale |-> partData[p][step[p] + 1], from |-> p]
              \in SaleMsg
  <1>1. step[p] \in Nat /\ step[p] < Len(partData[p]) /\ Len(partData[p]) \in Nat
    BY LenProperties DEF InPhase, Work, ControlType, TypesInv, DataTyped
  <1>2. step[p] + 1 \in 1..Len(partData[p])
    BY <1>1
  <1>3. partData[p][step[p] + 1] \in SaleType
    BY <1>2, ElementOfSeq DEF TypesInv, DataTyped
  <1> QED
    BY <1>1, <1>2, <1>3 DEF SaleMsg

LEMMA OrdersIndex ==
  ASSUME ControlType, NEW p \in Procs, InPhase(p, 1)
  PROVE  /\ step[p] \in Nat /\ step[p] < Len(Orders[p])
         /\ step[p] + 1 \in 1..Len(Orders[p])
  BY OrdersAssumption, LenProperties DEF InPhase, Work, ControlType

LEMMA MergeIndex ==
  ASSUME ControlType, TypesInv, NEW p \in Procs,
         step[p] < Len(receivePartData[p])
  PROVE  /\ step[p] \in Nat
         /\ step[p] + 1 \in 1..Len(receivePartData[p])
         /\ receivePartData[p][step[p] + 1] \in SaleType
  <1>1. /\ step[p] \in Nat /\ Len(receivePartData[p]) \in Nat
        /\ receivePartData[p] \in Seq(SaleType)
    BY LenProperties DEF ControlType, TypesInv, DataTyped
  <1>2. step[p] + 1 \in 1..Len(receivePartData[p])
    BY <1>1
  <1> QED
    BY <1>1, <1>2, ElementOfSeq

LEMMA UnderSaleType ==
  ASSUME NEW os \in Seq(Order), NEW sales
  PROVE  UnderSale(os, sales) \in Nat
  <1>1. PICK n \in Nat : n = Len(os)
    BY LenProperties
  <1>2. DOMAIN os = 1..n /\ \A i \in 1..n : os[i] \in Order
    BY <1>1, LenProperties, ElementOfSeq
  <1>3. \A i \in 1..n : \A e : Undersold(os[i], e) \in Nat
    BY <1>2 DEF Undersold, Order
  <1>4. PICK t : t = [i \in DOMAIN os |->
                        Undersold(os[i], EntryOf(sales, os[i].lPartkey))]
    OBVIOUS
  <1>5. t = [i \in 1..n |-> t[i]] /\ \A i \in 1..n : t[i] \in Nat
    BY <1>2, <1>3, <1>4
  <1>6. t \in [1..n -> Nat]
    BY <1>5
  <1>7. t \in Seq(Nat)
    BY <1>6, Tuple
  <1> QED
    BY <1>4, <1>7, TotalNat DEF UnderSale

\* The streams and the hands after a step.
LEMMA NextMessages ==
  ASSUME FlushInv, TypesInv, [Next]_vars
  PROVE  MessagesTyped'
  <1>1. /\ wire \in [Procs -> Seq(Message)] /\ handling \in [Procs -> Hands]
        /\ ControlType
    BY DEF TypesInv, MessagesTyped, FlushInv, ControlInv
  <1>2. ASSUME UNCHANGED <<wire, handling>> PROVE MessagesTyped'
    BY <1>1, <1>2 DEF MessagesTyped
  <1>3. ASSUME NEW p \in Procs, NEW e \in Message, UNCHANGED handling,
               wire' = [wire EXCEPT ![Down(p)] = Append(@, e)]
        PROVE  MessagesTyped'
    BY <1>1, <1>3, RingArithmetic, WireSend DEF MessagesTyped
  <1>4. ASSUME NEW p \in Procs, NEW e, wire[p] # << >>, e = Head(wire[p]),
               wire' = [wire EXCEPT ![p] = Tail(@)],
               \/ handling' = handling
               \/ /\ handling' = [handling EXCEPT ![p] =
                                    [rest |-> "forward", msg |-> e]]
                  /\ e \in KeyMsg \/ e \in SaleMsg
        PROVE  MessagesTyped'
    <2>1. wire' \in [Procs -> Seq(Message)]
      <3>1. PICK x \in Message : TRUE
        BY IsMessage DEF PartKey
      <3> QED
        BY <1>1, <1>4, <3>1, WireSend
    <2>2. e \in KeyMsg \/ e \in SaleMsg => [rest |-> "forward", msg |-> e] \in Hands
      BY DEF Hands
    <2>3. handling' \in [Procs -> Hands]
      BY <1>1, <1>4, <2>2
    <2> QED
      BY <2>1, <2>3 DEF MessagesTyped
  <1>5. CASE UNCHANGED vars
    BY <1>2, <1>5 DEF vars, Ring!vars, queryVars
  <1>6. ASSUME NEW p \in Procs,
               \/ AddPartKey(p) \/ CollectOrder(p) \/ MergeData(p)
               \/ GetLocalUnderSale(p)
        PROVE  MessagesTyped'
    BY <1>2, <1>6 DEF AddPartKey, CollectOrder, MergeData, GetLocalUnderSale
  <1>7. ASSUME NEW p \in Procs, SendPartKey(p) PROVE MessagesTyped'
    <2>1. PICK i : i = step[p] \div 2 + 1
      OBVIOUS
    <2>2. i \in 1..Len(Parts[p])
      BY <1>1, <1>7, <2>1, LoopIndex DEF SendPartKey
    <2>3. PartKey(Parts[p][i]) \in Message
      BY <2>2, OwnKey, KeysAreNumbers, IsMessage
    <2> QED
      BY <1>3, <1>7, <2>1, <2>3 DEF SendPartKey, Send
  <1>8. ASSUME NEW p \in Procs, SendPartSaleData(p) PROVE MessagesTyped'
    <2>1. PICK e : e = [head |-> "finalPart",
                        sale |-> partData[p][step[p] + 1], from |-> p]
      OBVIOUS
    <2>2. e \in Message
      BY <1>1, <1>8, <2>1, SalesIndex, IsMessage DEF SendPartSaleData
    <2> QED
      BY <1>3, <1>8, <2>1, <2>2 DEF SendPartSaleData, Send
  <1>9. ASSUME NEW p \in Procs, SendFinalAns(p) PROVE MessagesTyped'
    <2>1. PICK e : e = [head |-> "finalAns", ans |-> underSales[p]]
      OBVIOUS
    <2>2. e \in Message
      BY <2>1, IsMessage DEF TypesInv, DataTyped
    <2> QED
      BY <1>3, <1>9, <2>1, <2>2 DEF SendFinalAns, Send
  <1>10. ASSUME NEW p \in Procs, Synchronise(p) PROVE MessagesTyped'
    <2>1. CASE UNCHANGED wire
      BY <1>2, <1>10, <2>1 DEF Synchronise, EnterBarrier, LeaveBarrier, queryVars
    <2>2. CASE Ring!SendFinish(p)
      <3>1. PICK e : e = Ring!Stamped(p, finish_index[p], Ring!NoDigits)
        OBVIOUS
      <3>2. finish_index[p] \in Nat
        BY <1>1 DEF ControlType
      <3>3. e \in Message
        BY <3>1, <3>2, StampedType, NoDigitsType, IsMessage
      <3>4. wire' = [wire EXCEPT ![Down(p)] = Append(@, e)]
        BY <2>2, <3>1 DEF Ring!SendFinish, Down
      <3>5. UNCHANGED handling
        BY <1>10 DEF Synchronise, EnterBarrier, LeaveBarrier, queryVars
      <3> QED
        BY <1>3, <3>3, <3>4, <3>5
    <2>3. UNCHANGED wire \/ Ring!SendFinish(p)
      BY <1>10 DEF Synchronise, EnterBarrier, LeaveBarrier, Ring!EnterBarrier,
                   Ring!LeaveBarrier, Ring!Wait
    <2> QED
      BY <2>1, <2>2, <2>3
  <1>11. ASSUME NEW p \in Procs, ReceiveFinish(p) PROVE MessagesTyped'
    <2>1. wire[p] # << >> /\ Head(wire[p]).head = "finish" /\ UNCHANGED handling
      BY <1>11 DEF ReceiveFinish, Reads, Ring!Receives, queryVars
    <2>2. CASE Ring!DropToken(p)
      BY <1>4, <2>1, <2>2 DEF Ring!DropToken
    <2>3. CASE Ring!PassToken(p) \/ Ring!CompleteToken(p)
      <3>1. PICK t : t = Head(wire[p])
        OBVIOUS
      <3>2. t \in Message
        <4>1. wire[p] \in Seq(Message)
          BY <1>1
        <4> QED
          BY <2>1, <3>1, <4>1, HeadTailProperties
      <3>3. t \in Ring!Token /\ t.idx \in Nat /\ t.cnt \in [Procs -> Nat]
        BY <2>1, <3>1, <3>2, MessageIs DEF Ring!Token, Procs
      <3>4. PICK u : u = Ring!Stamped(p, t.idx, t.cnt)
        OBVIOUS
      <3>5. u \in Message
        BY <3>3, <3>4, StampedType, IsMessage
      <3>6. wire' = [wire EXCEPT ![p] = Tail(@), ![Down(p)] = Append(@, u)]
        BY <2>3, <3>1, <3>4 DEF Ring!PassToken, Ring!CompleteToken,
                                Ring!Forward, Down
      <3>7. PICK w : w = [wire EXCEPT ![p] = Tail(@)]
        OBVIOUS
      <3>8. w \in [Procs -> Seq(Message)]
        BY <1>1, <2>1, <3>5, <3>7, WireSend
      <3>9. Down(p) \in Procs /\ Down(p) # p
        BY RingArithmetic
      <3>10. wire' = [w EXCEPT ![Down(p)] = Append(@, u)]
        BY <1>1, <3>6, <3>7, <3>9
      <3>11. wire' \in [Procs -> Seq(Message)]
        BY <3>5, <3>8, <3>9, <3>10, WireSend
      <3> QED
        BY <1>1, <2>1, <3>11 DEF MessagesTyped
    <2> QED
      BY <1>11, <2>2, <2>3 DEF ReceiveFinish, Ring!HandleFinish
  <1>12. ASSUME NEW p \in Procs,
                \/ ReceivePartKey(p) \/ ReceiveFinalPart(p) \/ ReceiveFinalAns(p)
         PROVE  MessagesTyped'
    <2>1. PICK e : e = Head(wire[p])
      OBVIOUS
    <2>2. wire[p] # << >> /\ wire' = [wire EXCEPT ![p] = Tail(@)]
      BY <1>12 DEF ReceivePartKey, ReceiveFinalPart, ReceiveFinalAns, Reads,
                   Consume, Ring!Receives
    <2>3. e \in Message
      <3>1. wire[p] \in Seq(Message)
        BY <1>1
      <3> QED
        BY <2>1, <2>2, <3>1, HeadTailProperties
    <2>4. \/ handling' = handling
          \/ /\ handling' = [handling EXCEPT ![p] =
                               [rest |-> "forward", msg |-> e]]
             /\ e \in KeyMsg \/ e \in SaleMsg
      <3>1. CASE ReceivePartKey(p)
        BY <2>1, <2>3, <3>1, MessageIs DEF ReceivePartKey, Reads, GoOn
      <3>2. CASE ReceiveFinalPart(p)
        BY <2>1, <2>3, <3>2, MessageIs DEF ReceiveFinalPart, Reads, GoOn
      <3>3. CASE ReceiveFinalAns(p)
        BY <3>3 DEF ReceiveFinalAns
      <3> QED
        BY <1>12, <3>1, <3>2, <3>3
    <2> QED
      BY <1>4, <2>1, <2>2, <2>4
  <1>13. ASSUME NEW p \in Procs, Forward(p) PROVE MessagesTyped'
    <2>1. PICK h : h = handling[p]
      OBVIOUS
    <2>2. h \in Hands /\ h.rest = "forward"
      BY <1>1, <1>13, <2>1 DEF Forward
    <2>3. /\ h.msg \in KeyMsg \/ h.msg \in SaleMsg
          /\ h = [rest |-> "forward", msg |-> h.msg]
      BY <2>2 DEF Hands, Idle
    <2>4. h.msg \in Message
      BY <2>3 DEF Message, KeyMsg, SaleMsg
    <2>5. /\ wire' = [wire EXCEPT ![Down(p)] = Append(@, h.msg)]
          /\ handling' = [handling EXCEPT ![p] =
                            IF h.msg.head = "finalPart"
                              THEN [h EXCEPT !.rest = "ans"] ELSE Idle]
      BY <1>13, <2>1 DEF Forward, Send
    <2>6. h.msg.head = "finalPart" => [h EXCEPT !.rest = "ans"] \in Hands
      <3> SUFFICES ASSUME h.msg.head = "finalPart"
                   PROVE  [h EXCEPT !.rest = "ans"] \in Hands
        OBVIOUS
      <3>1. h.msg \in SaleMsg
        BY <2>3 DEF KeyMsg
      <3>2. [h EXCEPT !.rest = "ans"] = [rest |-> "ans", msg |-> h.msg]
        BY <2>3
      <3> QED
        BY <3>1, <3>2 DEF Hands
    <2>7. Idle \in Hands
      BY DEF Hands
    <2>8. handling' \in [Procs -> Hands]
      BY <1>1, <2>5, <2>6, <2>7
    <2>9. wire' \in [Procs -> Seq(Message)]
      BY <1>1, <2>4, <2>5, RingArithmetic, WireSend
    <2> QED
      BY <2>8, <2>9 DEF MessagesTyped
  <1>14. ASSUME NEW p \in Procs, FallThrough(p) PROVE MessagesTyped'
    <2>1. Idle \in Hands
      BY DEF Hands
    <2> QED
      BY <1>1, <1>14, <2>1 DEF FallThrough, MessagesTyped
  <1>15. ASSUME NEW p \in Procs, Ring!Notify(p) /\ UNCHANGED queryVars
         PROVE  MessagesTyped'
    BY <1>2, <1>15 DEF Ring!Notify, queryVars
  <1>16. CASE Next
    <2> PICK p \in Procs : Calculate(p) \/ Synchronise(p) \/ Serve(p)
      BY <1>16 DEF Next
    <2>1. CASE Calculate(p)
      BY <1>6, <1>7, <1>8, <1>9, <2>1 DEF Calculate
    <2>2. CASE Serve(p)
      BY <1>11, <1>12, <1>13, <1>14, <1>15, <2>2 DEF Serve
    <2> QED
      BY <1>10, <2>1, <2>2
  <1> QED
    BY <1>5, <1>16

\* One more order is kept, and one more sum is inserted.
LEMMA KeepOrder ==
  ASSUME DataTyped, NEW p \in Procs, NEW i \in 1..Len(Orders[p]),
         NEW s, s = Append(orders[p], Orders[p][i])
  PROVE  s \in Seq(Order) /\ s \in Seq(Range(Orders[p]))
  <1>1. orders[p] \in Seq(Order) /\ orders[p] \in Seq(Range(Orders[p]))
    BY DEF DataTyped
  <1>2. Orders[p][i] \in Order /\ Orders[p][i] \in Range(Orders[p])
    BY OwnOrder
  <1> QED
    BY <1>1, <1>2, AppendProperties

LEMMA OwnSale ==
  ASSUME NEW o \in Order
  PROVE  Sale(o.lPartkey, o.lQuantity, 1) \in SaleType
  BY SaleIs DEF Order

LEMMA NextData ==
  ASSUME FlushInv, TypesInv, [Next]_vars
  PROVE  DataTyped'
  <1>1. ControlType /\ MessagesTyped /\ DataTyped
    BY DEF TypesInv, FlushInv, ControlInv
  <1>2. ASSUME UNCHANGED dataVars PROVE DataTyped'
    BY <1>1, <1>2 DEF DataTyped, dataVars
  <1>3. ASSUME NEW p \in Procs, NEW d \in SaleType,
               UNCHANGED <<orders, receivePartData, underSales>>,
               partData' = [partData EXCEPT ![p] = Insert(@, d)]
        PROVE  DataTyped'
    <2>1. /\ Insert(partData[p], d) \in Seq(SaleType)
          /\ OneEach(Insert(partData[p], d))
      BY <1>1, InsertAdds DEF DataTyped
    <2>2. partData' \in [Procs -> Seq(SaleType)]
      BY <1>1, <1>3, <2>1 DEF DataTyped
    <2>3. \A q \in Procs : OneEach(partData'[q])
      BY <1>1, <1>3, <2>1 DEF DataTyped
    <2> QED
      BY <1>1, <1>3, <2>2, <2>3 DEF DataTyped
  <1>4. ASSUME NEW p \in Procs, NEW u \in Nat,
               UNCHANGED <<orders, partData, receivePartData>>,
               underSales' = [underSales EXCEPT ![p] = u]
        PROVE  DataTyped'
    BY <1>1, <1>4 DEF DataTyped
  <1>5. CASE UNCHANGED vars
    BY <1>2, <1>5 DEF vars, queryVars
  <1>6. ASSUME NEW p \in Procs, AddPartKey(p) PROVE DataTyped'
    BY <1>1, <1>6 DEF AddPartKey, DataTyped
  <1>7. ASSUME NEW p \in Procs, SendPartKey(p) PROVE DataTyped'
    <2>1. PICK i : i = step[p] \div 2 + 1
      OBVIOUS
    <2>2. i \in 1..Len(Parts[p])
      BY <1>1, <1>7, <2>1, LoopIndex DEF SendPartKey
    <2>3. Sale(Parts[p][i], 0, 0) \in SaleType
      BY <2>2, OwnKey, KeysAreNumbers, SaleIs
    <2> QED
      BY <1>3, <1>7, <2>1, <2>3 DEF SendPartKey
  <1>8. ASSUME NEW p \in Procs, CollectOrder(p) PROVE DataTyped'
    <2>1. PICK i : i = step[p] + 1
      OBVIOUS
    <2>2. i \in 1..Len(Orders[p])
      BY <1>1, <1>8, <2>1, OrdersIndex DEF CollectOrder
    <2>3. PICK o : o = Orders[p][i]
      OBVIOUS
    <2>4. CASE UNCHANGED <<orders, partData>>
      BY <1>1, <1>8, <2>4 DEF CollectOrder, DataTyped
    <2>5. CASE /\ orders' = [orders EXCEPT ![p] = Append(@, o)]
               /\ partData' = [partData EXCEPT ![p] = SolveAnOrder(@, o)]
      <3>1. PICK s : s = Append(orders[p], o)
        OBVIOUS
      <3>2. s \in Seq(Order) /\ s \in Seq(Range(Orders[p]))
        BY <1>1, <2>2, <2>3, <3>1, KeepOrder
      <3>3. orders' = [orders EXCEPT ![p] = s]
        BY <2>5, <3>1
      <3>4. PICK d : d = Sale(o.lPartkey, o.lQuantity, 1)
        OBVIOUS
      <3>5. d \in SaleType
        BY <2>2, <2>3, <3>4, OwnOrder, OwnSale
      <3>6. PICK t : t = Insert(partData[p], d)
        OBVIOUS
      <3>7. t \in Seq(SaleType) /\ OneEach(t)
        BY <1>1, <3>5, <3>6, InsertAdds DEF DataTyped
      <3>8. partData' = [partData EXCEPT ![p] = t]
        BY <2>5, <3>4, <3>6 DEF SolveAnOrder
      <3>9. UNCHANGED <<receivePartData, underSales>>
        BY <1>8 DEF CollectOrder
      <3>10. /\ orders' \in [Procs -> Seq(Order)]
             /\ \A q \in Procs : orders'[q] \in Seq(Range(Orders[q]))
        BY <1>1, <3>2, <3>3 DEF DataTyped
      <3>11. /\ partData' \in [Procs -> Seq(SaleType)]
             /\ \A q \in Procs : OneEach(partData'[q])
        BY <1>1, <3>7, <3>8 DEF DataTyped
      <3> QED
        BY <1>1, <3>9, <3>10, <3>11 DEF DataTyped
    <2> QED
      BY <1>8, <2>1, <2>3, <2>4, <2>5 DEF CollectOrder
  <1>9. ASSUME NEW p \in Procs, SendPartSaleData(p) \/ SendFinalAns(p)
        PROVE  DataTyped'
    BY <1>2, <1>9 DEF SendPartSaleData, SendFinalAns
  <1>10. ASSUME NEW p \in Procs, MergeData(p) PROVE DataTyped'
    <2>1. PICK d : d = receivePartData[p][step[p] + 1]
      OBVIOUS
    <2>2. d \in SaleType
      BY <1>1, <1>10, <2>1, MergeIndex DEF MergeData
    <2> QED
      BY <1>3, <1>10, <2>1, <2>2 DEF MergeData
  <1>11. ASSUME NEW p \in Procs, GetLocalUnderSale(p) PROVE DataTyped'
    <2>1. UnderSale(orders[p], partData[p]) \in Nat
      BY <1>1, UnderSaleType DEF DataTyped
    <2> QED
      BY <1>4, <1>11, <2>1 DEF GetLocalUnderSale
  <1>12. ASSUME NEW p \in Procs, Synchronise(p) PROVE DataTyped'
    BY <1>2, <1>12 DEF Synchronise, EnterBarrier, LeaveBarrier, queryVars
  <1>13. ASSUME NEW p \in Procs, ReceiveFinish(p) PROVE DataTyped'
    BY <1>2, <1>13 DEF ReceiveFinish, queryVars
  <1>14. ASSUME NEW p \in Procs, ReceivePartKey(p) PROVE DataTyped'
    BY <1>1, <1>14 DEF ReceivePartKey, DataTyped
  <1>15. ASSUME NEW p \in Procs, ReceiveFinalPart(p) PROVE DataTyped'
    <2>1. PICK m : m = Head(wire[p])
      OBVIOUS
    <2>2. m \in Message /\ m.head = "finalPart"
      <3>1. wire[p] \in Seq(Message) /\ wire[p] # << >>
        BY <1>1, <1>15
           DEF MessagesTyped, ReceiveFinalPart, Reads, Ring!Receives
      <3> QED
        BY <1>15, <2>1, <3>1, HeadTailProperties DEF ReceiveFinalPart, Reads
    <2>3. m.sale \in SaleType
      BY <2>2, MessageIs
    <2>4. UNCHANGED <<orders, partData, underSales>>
      BY <1>15 DEF ReceiveFinalPart
    <2>5. CASE UNCHANGED receivePartData
      BY <1>1, <2>4, <2>5 DEF DataTyped
    <2>6. CASE receivePartData' =
                 [receivePartData EXCEPT ![p] = Insert(@, m.sale)]
      <3>1. PICK t : t = Insert(receivePartData[p], m.sale)
        OBVIOUS
      <3>2. t \in Seq(SaleType) /\ OneEach(t)
        BY <1>1, <2>3, <3>1, InsertAdds DEF DataTyped
      <3>3. receivePartData' = [receivePartData EXCEPT ![p] = t]
        BY <2>6, <3>1
      <3> QED
        BY <1>1, <2>4, <3>2, <3>3 DEF DataTyped
    <2> QED
      BY <1>15, <2>1, <2>5, <2>6 DEF ReceiveFinalPart
  <1>16. ASSUME NEW p \in Procs, ReceiveFinalAns(p) PROVE DataTyped'
    <2>1. PICK m : m = Head(wire[p])
      OBVIOUS
    <2>2. m \in Message /\ m.head = "finalAns"
      <3>1. wire[p] \in Seq(Message) /\ wire[p] # << >>
        BY <1>1, <1>16
           DEF MessagesTyped, ReceiveFinalAns, Reads, Ring!Receives
      <3> QED
        BY <1>16, <2>1, <3>1, HeadTailProperties DEF ReceiveFinalAns, Reads
    <2>3. underSales[p] + m.ans \in Nat
      BY <1>1, <2>2, MessageIs DEF DataTyped
    <2> QED
      BY <1>4, <1>16, <2>1, <2>3 DEF ReceiveFinalAns
  <1>17. ASSUME NEW p \in Procs, Forward(p) PROVE DataTyped'
    BY <1>2, <1>17 DEF Forward
  <1>18. ASSUME NEW p \in Procs, FallThrough(p) PROVE DataTyped'
    <2>1. PICK h : h = handling[p]
      OBVIOUS
    <2>2. h \in Hands /\ h.rest = "ans"
      BY <1>1, <1>18, <2>1 DEF FallThrough, MessagesTyped
    <2>3. h.msg \in SaleMsg
      BY <2>2 DEF Hands, Idle
    <2>4. h.msg.sale.partid \in Nat
      BY <2>3 DEF SaleMsg, SaleType
    <2>5. underSales[p] + h.msg.sale.partid \in Nat
      BY <1>1, <2>4 DEF DataTyped
    <2> QED
      BY <1>4, <1>18, <2>1, <2>5 DEF FallThrough
  <1>19. ASSUME NEW p \in Procs, Ring!Notify(p) /\ UNCHANGED queryVars
         PROVE  DataTyped'
    BY <1>2, <1>19 DEF queryVars
  <1>20. CASE Next
    <2> PICK p \in Procs : Calculate(p) \/ Synchronise(p) \/ Serve(p)
      BY <1>20 DEF Next
    <2>1. CASE Calculate(p)
      BY <1>6, <1>7, <1>8, <1>9, <1>10, <1>11, <2>1 DEF Calculate
    <2>2. CASE Serve(p)
      BY <1>13, <1>14, <1>15, <1>16, <1>17, <1>18, <1>19, <2>2 DEF Serve
    <2> QED
      BY <1>12, <2>1, <2>2
  <1> QED
    BY <1>5, <1>20

LEMMA InitTypes == Init => TypesInv
  <1> SUFFICES ASSUME Init PROVE TypesInv
    OBVIOUS
  <1>1. \A S : << >> \in Seq(S)
    BY EmptySeq
  <1>2. OneEach(<< >>)
    BY DEF OneEach
  <1>3. MessagesTyped
    BY <1>1 DEF Init, Ring!Init, MessagesTyped, Hands, Procs
  <1>4. DataTyped
    BY <1>1, <1>2 DEF Init, DataTyped
  <1> QED
    BY <1>3, <1>4 DEF TypesInv

LEMMA NextTypes == FlushInv /\ TypesInv /\ [Next]_vars => TypesInv'
  BY NextMessages, NextData DEF TypesInv

\* Keys, orders, sums and answers have their types, an entry of partData and
\* receivePartData for each part at most; what the handlers read in a message is
\* there.
THEOREM TypeCorrect == Spec => []TypeOK
  <1>1. FlushInv /\ TypesInv => TypeOK
    <2> SUFFICES ASSUME FlushInv, TypesInv PROVE TypeOK
      OBVIOUS
    <2>1. /\ step \in [Procs -> Nat]
          /\ partKeyMap \in [Procs -> SUBSET Nat]
      BY KeysAreNumbers DEF FlushInv, ControlInv, ControlType
    <2>2. ASSUME NEW p \in Procs
          PROVE  /\ \A i \in DOMAIN wire[p] : wire[p][i] \in Message
                 /\ \A i \in DOMAIN orders[p] : orders[p][i] \in Range(Orders[p])
                 /\ \A i \in DOMAIN partData[p] : partData[p][i] \in SaleType
                 /\ \A i \in DOMAIN receivePartData[p] :
                      receivePartData[p][i] \in SaleType
      <3>1. /\ wire[p] \in Seq(Message)
            /\ orders[p] \in Seq(Range(Orders[p]))
            /\ partData[p] \in Seq(SaleType) /\ receivePartData[p] \in Seq(SaleType)
        BY DEF TypesInv, MessagesTyped, DataTyped
      <3>2. \A S : \A s \in Seq(S) : \A i \in DOMAIN s : s[i] \in S
        BY ElementOfSeq, LenProperties
      <3> QED
        BY <3>1, <3>2
    <2>3. handling \in
            [Procs -> {Idle} \cup [rest : {"forward", "ans"}, msg : Message]]
      <3>1. Hands \subseteq {Idle} \cup [rest : {"forward", "ans"}, msg : Message]
        BY DEF Hands, Message, KeyMsg, SaleMsg
      <3> QED
        BY <3>1 DEF TypesInv, MessagesTyped
    <2> QED
      BY <2>1, <2>2, <2>3 DEF TypeOK, TypesInv, DataTyped
  <1>2. FlushInv /\ TypesInv /\ [Next]_vars => (FlushInv /\ TypesInv)'
    BY NextFlush, NextTypes
  <1> QED
    BY <1>1, <1>2, InitFlush, InitTypes, PTL DEF Spec

-------------------------------------------------------------------------------
(***************************************************************************)
(* What one instance has collected: the sums in partData are those of the  *)
(* orders it has scanned and of the sums it has merged, the orders it      *)
(* keeps are the scanned ones of matching parts, and each has its sum.     *)
(***************************************************************************)

\* How many orders p has scanned, and how many sums it has merged.
Collected(p) ==
  IF finish_index[p] = 0 THEN 0
  ELSE IF finish_index[p] = 1 THEN step[p] ELSE Len(Orders[p])

Merged(p) ==
  IF finish_index[p] < 3 THEN 0
  ELSE IF finish_index[p] = 3 THEN step[p] ELSE Len(receivePartData[p])

\* What the sum of an order weighs.
SaleOf(F) == [o \in Order |-> F[Sale(o.lPartkey, o.lQuantity, 1)]]

TotalOf(os, G) == Total([i \in DOMAIN os |-> G[os[i]]])

Collects(p, os, sales, c, received, m) ==
  /\ \A F \in Weights :
       WeighAll(sales, F) = OrderSum(p, c, SaleOf(F)) + Weigh(received, m, F)
  /\ \A G \in [Order -> Nat] : TotalOf(os, G) = OrderSum(p, c, G)
  /\ \A i \in DOMAIN os :
       os[i].lPartkey \in AllKeys /\ Has(sales, os[i].lPartkey)

CollectInv ==
  \A p \in Procs : Collects(p, orders[p], partData[p], Collected(p),
                            receivePartData[p], Merged(p))

\* The phase is not left before its work is done.
StepsDone ==
  \A p \in Procs :
    step[p] <= Work(p) /\ (pc[p] # "run" => step[p] = Work(p))

SalesInv == KeysInv /\ TypesInv /\ StepsDone

LEMMA SaleOfType ==
  ASSUME NEW F \in Weights
  PROVE  /\ SaleOf(F) \in [Order -> Nat]
         /\ \A o \in Order : SaleOf(F)[o] = F[Sale(o.lPartkey, o.lQuantity, 1)]
  <1>1. F \in [SaleType -> Nat]
    BY WeightType
  <1> QED
    BY <1>1, OwnSale DEF SaleOf

\* The steps of an instance leave the data of the others alone.
LEMMA OthersKeep ==
  ASSUME ControlType, DataTyped, NEW p \in Procs,
         Calculate(p) \/ Synchronise(p) \/ Serve(p),
         NEW q \in Procs, q # p
  PROVE  /\ orders'[q] = orders[q] /\ partData'[q] = partData[q]
         /\ receivePartData'[q] = receivePartData[q]
         /\ underSales'[q] = underSales[q]
         /\ step'[q] = step[q] /\ finish_index'[q] = finish_index[q]
         /\ pc'[q] = pc[q]
  <1>1. CASE Calculate(p)
    <2>1. Advance(p) /\ UNCHANGED mainVars
      BY <1>1 DEF Calculate, AddPartKey, SendPartKey, CollectOrder,
                  SendPartSaleData, MergeData, GetLocalUnderSale, SendFinalAns
    <2>2. /\ orders'[q] = orders[q] /\ partData'[q] = partData[q]
          /\ receivePartData'[q] = receivePartData[q]
          /\ underSales'[q] = underSales[q]
      <3> USE DEF DataTyped
      <3>1. CASE AddPartKey(p)
        BY <3>1 DEF AddPartKey
      <3>2. CASE SendPartKey(p)
        BY <3>2 DEF SendPartKey
      <3>3. CASE CollectOrder(p)
        BY <3>3 DEF CollectOrder
      <3>4. CASE SendPartSaleData(p) \/ SendFinalAns(p)
        BY <3>4 DEF SendPartSaleData, SendFinalAns, dataVars
      <3>5. CASE MergeData(p)
        BY <3>5 DEF MergeData
      <3>6. CASE GetLocalUnderSale(p)
        BY <3>6 DEF GetLocalUnderSale
      <3> QED
        BY <1>1, <3>1, <3>2, <3>3, <3>4, <3>5, <3>6 DEF Calculate
    <2> QED
      BY <2>1, <2>2 DEF Advance, mainVars, ControlType
  <1>2. CASE Synchronise(p)
    <2>1. UNCHANGED dataVars
      BY <1>2 DEF Synchronise, EnterBarrier, LeaveBarrier, queryVars
    <2>2. /\ step'[q] = step[q] /\ finish_index'[q] = finish_index[q]
          /\ pc'[q] = pc[q]
      <3>1. CASE EnterBarrier(p)
        BY <3>1 DEF EnterBarrier, Ring!EnterBarrier, queryVars, ControlType
      <3>2. CASE LeaveBarrier(p)
        BY <3>2 DEF LeaveBarrier, Ring!LeaveBarrier, ControlType
      <3>3. CASE Ring!SendFinish(p) /\ UNCHANGED queryVars
        BY <3>3 DEF Ring!SendFinish, queryVars, ControlType
      <3>4. CASE Ring!Wait(p) /\ UNCHANGED queryVars
        BY <3>4 DEF Ring!Wait, queryVars, ControlType
      <3> QED
        BY <1>2, <3>1, <3>2, <3>3, <3>4 DEF Synchronise
    <2> QED
      BY <2>1, <2>2 DEF dataVars
  <1>3. CASE Serve(p)
    <2> USE DEF DataTyped, ControlType
    <2>1. CASE ReceiveFinish(p)
      <3>1. UNCHANGED <<queryVars, pc, finish_index>>
        BY <2>1 DEF ReceiveFinish, Ring!HandleFinish, Ring!DropToken,
                    Ring!PassToken, Ring!CompleteToken, Ring!mainVars
      <3> QED
        BY <3>1 DEF queryVars, dataVars
    <2>2. CASE ReceivePartKey(p)
      BY <2>2 DEF ReceivePartKey, mainVars
    <2>3. CASE ReceiveFinalPart(p)
      BY <2>3 DEF ReceiveFinalPart, mainVars
    <2>4. CASE ReceiveFinalAns(p)
      BY <2>4 DEF ReceiveFinalAns, mainVars
    <2>5. CASE Forward(p)
      BY <2>5 DEF Forward, mainVars, dataVars
    <2>6. CASE FallThrough(p)
      BY <2>6 DEF FallThrough, mainVars
    <2>7. CASE Ring!Notify(p) /\ UNCHANGED queryVars
      BY <2>7 DEF Ring!Notify, queryVars, dataVars
    <2> QED
      BY <1>3, <2>1, <2>2, <2>3, <2>4, <2>5, <2>6, <2>7 DEF Serve
  <1> QED
    BY <1>1, <1>2, <1>3

\* The server leaves alone what only the main thread writes.
LEMMA ServerKeeps ==
  ASSUME ControlType, NEW p \in Procs, Serve(p)
  PROVE  /\ UNCHANGED <<step, finish_index, orders, partData>>
         /\ \A q \in Procs : pc'[q] = "run" <=> pc[q] = "run"
         /\ \/ UNCHANGED receivePartData
            \/ /\ Head(wire[p]).head = "finalPart" /\ wire[p] # << >>
               /\ Head(wire[p]).from # p
               /\ receivePartData' =
                    [receivePartData EXCEPT ![p] = Insert(@, Head(wire[p]).sale)]
  <1>1. CASE ReceiveFinish(p)
    <2>1. UNCHANGED <<queryVars, pc, finish_index>>
      BY <1>1 DEF ReceiveFinish, Ring!HandleFinish, Ring!DropToken,
                  Ring!PassToken, Ring!CompleteToken, Ring!mainVars
    <2> QED
      BY <2>1 DEF queryVars, dataVars
  <1>2. CASE ReceivePartKey(p)
    BY <1>2 DEF ReceivePartKey, mainVars
  <1>3. CASE ReceiveFinalPart(p)
    BY <1>3 DEF ReceiveFinalPart, mainVars, Reads, Ring!Receives
  <1>4. CASE ReceiveFinalAns(p)
    BY <1>4 DEF ReceiveFinalAns, mainVars
  <1>5. CASE Forward(p)
    BY <1>5 DEF Forward, mainVars, dataVars
  <1>6. CASE FallThrough(p)
    BY <1>6 DEF FallThrough, mainVars
  <1>7. CASE Ring!Notify(p) /\ UNCHANGED queryVars
    BY <1>7 DEF Ring!Notify, queryVars, dataVars, ControlType
  <1> QED
    BY <1>1, <1>2, <1>3, <1>4, <1>5, <1>6, <1>7 DEF Serve

\* The first message of a stream can be part of a phase that is not over.
LEMMA SalesComeEarly ==
  ASSUME FlushInv, TypesInv, NEW p \in Procs, wire[p] # << >>,
         Head(wire[p]).head = "finalPart"
  PROVE  finish_index[p] <= 2
  <1>1. wire[p] \in Seq(Message)
    BY DEF TypesInv, MessagesTyped
  <1>2. 1 \in DOMAIN wire[p] /\ Head(wire[p]) = wire[p][1]
    BY <1>1, HeadTailProperties, LenProperties, EmptySeq
  <1>3. Incoming(p, "finalPart")
    BY <1>2 DEF Incoming
  <1>4. finish_index[p] > 2 => Announced(p, 2)
    BY DEF FlushInv, ControlInv, ControlType, LeftAnnounced, Announced
  <1>5. Kind(2) = "finalPart" /\ 2 \in Phases
    BY DEF Kind, Phases
  <1>6. finish_index[p] \in Nat
    BY DEF FlushInv, ControlInv, ControlType
  <1> QED
    BY <1>3, <1>4, <1>5, <1>6, NothingAnnouncedComes

LEMMA WorkType ==
  ASSUME ControlType, TypesInv, NEW p \in Procs
  PROVE  Work(p) \in Nat /\ step[p] \in Nat /\ finish_index[p] \in Nat
  <1>1. /\ Len(Parts[p]) \in Nat /\ Len(Orders[p]) \in Nat
        /\ Len(partData[p]) \in Nat /\ Len(receivePartData[p]) \in Nat
    BY PartsAssumption, OrdersAssumption, LenProperties DEF TypesInv, DataTyped
  <1> QED
    BY <1>1 DEF Work, ControlType

LEMMA NextSteps ==
  ASSUME FlushInv, TypesInv, StepsDone, [Next]_vars
  PROVE  StepsDone'
  <1>1. ControlType /\ DataTyped
    BY DEF FlushInv, ControlInv, TypesInv
  <1>2. CASE UNCHANGED vars
    BY <1>2 DEF vars, Ring!vars, queryVars, dataVars, StepsDone, Work
  <1>3. ASSUME NEW p \in Procs, Calculate(p) \/ Synchronise(p) \/ Serve(p)
        PROVE  StepsDone'
    <2>1. ASSUME NEW q \in Procs, q # p
          PROVE  step'[q] <= Work(q)' /\ (pc'[q] # "run" => step'[q] = Work(q)')
      <3>1. /\ partData'[q] = partData[q]
            /\ receivePartData'[q] = receivePartData[q]
            /\ step'[q] = step[q] /\ finish_index'[q] = finish_index[q]
            /\ pc'[q] = pc[q]
        BY <1>1, <1>3, <2>1, OthersKeep
      <3>2. Work(q)' = Work(q)
        BY <3>1 DEF Work
      <3> QED
        BY <3>1, <3>2 DEF StepsDone
    <2>2. step'[p] <= Work(p)' /\ (pc'[p] # "run" => step'[p] = Work(p)')
      <3>1. /\ step[p] <= Work(p) /\ (pc[p] # "run" => step[p] = Work(p))
            /\ Work(p) \in Nat /\ step[p] \in Nat
        BY <1>1, WorkType DEF StepsDone
      <3>2. CASE Calculate(p)
        <4>1. /\ pc[p] = "run" /\ pc' = pc /\ finish_index' = finish_index
              /\ step'[p] = step[p] + 1 /\ step[p] < Work(p)
          BY <1>1, <3>2
             DEF Calculate, AddPartKey, SendPartKey, CollectOrder, MergeData,
                 SendPartSaleData, GetLocalUnderSale, SendFinalAns, Advance,
                 mainVars, InPhase, ControlType
        <4>2. finish_index[p] = 2 => partData' = partData
          BY <3>2 DEF Calculate, AddPartKey, SendPartKey, CollectOrder, MergeData,
                      SendPartSaleData, GetLocalUnderSale, SendFinalAns, dataVars,
                      InPhase
        <4>3. receivePartData' = receivePartData
          BY <3>2 DEF Calculate, AddPartKey, SendPartKey, CollectOrder, MergeData,
                      SendPartSaleData, GetLocalUnderSale, SendFinalAns, dataVars
        <4>4. Work(p)' = Work(p)
          BY <4>1, <4>2, <4>3 DEF Work
        <4> QED
          BY <3>1, <4>1, <4>4
      <3>3. CASE LeaveBarrier(p)
        <4>1. step'[p] = 0 /\ pc'[p] = "run"
          BY <1>1, <3>3 DEF LeaveBarrier, Ring!LeaveBarrier, ControlType
        <4>2. ControlType' /\ TypesInv'
          BY <1>3, NextControl, NextTypes DEF ControlInv, Next
        <4>3. Work(p)' \in Nat
          <5>1. /\ Len(Parts[p]) \in Nat /\ Len(Orders[p]) \in Nat
                /\ Len(partData'[p]) \in Nat /\ Len(receivePartData'[p]) \in Nat
            BY <4>2, PartsAssumption, OrdersAssumption, LenProperties
               DEF TypesInv, DataTyped
          <5> QED
            BY <5>1 DEF Work
        <4> QED
          BY <4>1, <4>3
      <3>4. CASE EnterBarrier(p)
        <4>1. step[p] = Work(p) /\ UNCHANGED <<queryVars, finish_index>>
          BY <3>4 DEF EnterBarrier, Ring!EnterBarrier
        <4>2. step'[p] = step[p] /\ Work(p)' = Work(p)
          BY <4>1 DEF queryVars, dataVars, Work
        <4> QED
          BY <3>1, <4>1, <4>2
      <3>5. CASE (Ring!SendFinish(p) \/ Ring!Wait(p)) /\ UNCHANGED queryVars
        <4>1. pc[p] # "run" /\ UNCHANGED <<queryVars, finish_index>>
          BY <3>5 DEF Ring!SendFinish, Ring!Wait
        <4>2. step'[p] = step[p] /\ Work(p)' = Work(p)
          BY <4>1 DEF queryVars, dataVars, Work
        <4> QED
          BY <3>1, <4>1, <4>2
      <3>6. CASE Serve(p)
        <4>1. /\ UNCHANGED <<step, finish_index, partData>>
              /\ pc'[p] = "run" <=> pc[p] = "run"
          BY <1>1, <3>6, ServerKeeps
        <4>2. finish_index[p] = 3 => receivePartData'[p] = receivePartData[p]
          BY <1>1, <3>6, ServerKeeps, SalesComeEarly
        <4>3. Work(p)' = Work(p)
          BY <4>1, <4>2 DEF Work
        <4> QED
          BY <3>1, <4>1, <4>3
      <3> QED
        BY <1>3, <3>2, <3>3, <3>4, <3>5, <3>6 DEF Synchronise
    <2> QED
      BY <2>1, <2>2 DEF StepsDone
  <1> QED
    BY <1>2, <1>3 DEF Next

\* The weight of what is merged may be written in another way.
LEMMA CollectsWeight ==
  ASSUME NEW p, NEW os, NEW sales, NEW c, NEW r, NEW m, NEW r2, NEW m2,
         Collects(p, os, sales, c, r, m),
         \A F \in Weights : Weigh(r2, m2, F) = Weigh(r, m, F)
  PROVE  Collects(p, os, sales, c, r2, m2)
  BY DEF Collects

\* A sum of no orders is inserted, or the next one of those received.
LEMMA CollectsInsert ==
  ASSUME NEW p \in Procs, NEW os, NEW sales \in Seq(SaleType), OneEach(sales),
         NEW c \in Nat, NEW r \in Seq(SaleType), NEW m \in Nat, NEW m2 \in Nat,
         NEW d \in SaleType, Collects(p, os, sales, c, r, m),
         \A F \in Weights : Weigh(r, m2, F) = Weigh(r, m, F) + F[d]
  PROVE  Collects(p, os, Insert(sales, d), c, r, m2)
  <1>1. PICK t : t = Insert(sales, d)
    OBVIOUS
  <1>2. /\ \A k : Has(t, k) <=> Has(sales, k) \/ k = d.partid
        /\ \A F \in Weights : WeighAll(t, F) = WeighAll(sales, F) + F[d]
    BY <1>1, InsertAdds
  <1>3. ASSUME NEW F \in Weights
        PROVE  WeighAll(t, F) = OrderSum(p, c, SaleOf(F)) + Weigh(r, m2, F)
    <2>1. WeighAll(sales, F) = OrderSum(p, c, SaleOf(F)) + Weigh(r, m, F)
      BY DEF Collects
    <2>2. /\ OrderSum(p, c, SaleOf(F)) \in Nat /\ Weigh(r, m, F) \in Nat
          /\ F[d] \in Nat
      BY SaleOfType, OrderSumNext, WeighNext, WeightType
    <2> QED
      BY <1>2, <2>1, <2>2
  <1> QED
    BY <1>1, <1>2, <1>3 DEF Collects

\* One more order is scanned.
LEMMA CollectsOrder ==
  ASSUME NEW p \in Procs, NEW os \in Seq(Order), NEW sales \in Seq(SaleType),
         OneEach(sales), NEW c \in Nat, c < Len(Orders[p]), NEW r,
         NEW o, o = Orders[p][c + 1], Collects(p, os, sales, c, r, 0),
         \A F \in Weights : Weigh(r, 0, F) = 0
  PROVE  /\ o.lPartkey \notin AllKeys => Collects(p, os, sales, c + 1, r, 0)
         /\ o.lPartkey \in AllKeys =>
              Collects(p, Append(os, o), SolveAnOrder(sales, o), c + 1, r, 0)
  <1>1. /\ o \in Order /\ o.lPartkey \in Nat
        /\ Len(Orders[p]) \in Nat
    <2>1. Len(Orders[p]) \in Nat
      BY OrdersAssumption, LenProperties
    <2>2. c + 1 \in 1..Len(Orders[p])
      BY <2>1
    <2> QED
      BY <2>1, <2>2, OwnOrder
  <1>2. \A G \in [Order -> Nat] :
          /\ OrderSum(p, c, G) \in Nat
          /\ OrderSum(p, c + 1, G) =
               OrderSum(p, c, G) + IF o.lPartkey \in AllKeys THEN G[o] ELSE 0
    BY OrderSumNext
  <1>3. CASE o.lPartkey \notin AllKeys
    <2>1. \A G \in [Order -> Nat] : OrderSum(p, c + 1, G) = OrderSum(p, c, G)
      BY <1>2, <1>3
    <2> QED
      BY <1>3, <2>1, SaleOfType DEF Collects
  <1>4. CASE o.lPartkey \in AllKeys
    <2>1. PICK d : d = Sale(o.lPartkey, o.lQuantity, 1)
      OBVIOUS
    <2>2. d \in SaleType /\ d.partid = o.lPartkey
      BY <1>1, <2>1, OwnSale, SaleIs DEF Order, Sale
    <2>3. PICK t : t = SolveAnOrder(sales, o)
      OBVIOUS
    <2>4. t = Insert(sales, d)
      BY <2>1, <2>3 DEF SolveAnOrder
    <2>5. /\ \A k : Has(t, k) <=> Has(sales, k) \/ k = d.partid
          /\ \A F \in Weights : WeighAll(t, F) = WeighAll(sales, F) + F[d]
      BY <2>2, <2>4, InsertAdds
    <2>6. PICK s : s = Append(os, o)
      OBVIOUS
    <2>7. ASSUME NEW F \in Weights
          PROVE  WeighAll(t, F) = OrderSum(p, c + 1, SaleOf(F)) + Weigh(r, 0, F)
      <3>1. WeighAll(sales, F) = OrderSum(p, c, SaleOf(F)) + Weigh(r, 0, F)
        BY DEF Collects
      <3>2. SaleOf(F) \in [Order -> Nat] /\ SaleOf(F)[o] = F[d]
        BY <1>1, <2>1, SaleOfType
      <3>3. /\ OrderSum(p, c + 1, SaleOf(F))
                 = OrderSum(p, c, SaleOf(F)) + SaleOf(F)[o]
            /\ OrderSum(p, c, SaleOf(F)) \in Nat
        BY <1>2, <1>4, <3>2
      <3>4. F[d] \in Nat /\ Weigh(r, 0, F) = 0
        BY <2>2, WeightType
      <3>5. WeighAll(t, F) = WeighAll(sales, F) + F[d]
        BY <2>5
      <3> QED
        BY <3>1, <3>2, <3>3, <3>4, <3>5
    <2>8. ASSUME NEW G \in [Order -> Nat]
          PROVE  TotalOf(s, G) = OrderSum(p, c + 1, G)
      <3>1. G \in [Order -> Int]
        OBVIOUS
      <3>2. TotalOf(s, G) = TotalOf(os, G) + G[o]
        BY <1>1, <2>6, <3>1, TotalMapAppend DEF TotalOf
      <3>3. TotalOf(os, G) = OrderSum(p, c, G)
        BY DEF Collects
      <3> QED
        BY <1>2, <1>4, <3>2, <3>3
    <2>9. ASSUME NEW i \in DOMAIN s
          PROVE  s[i].lPartkey \in AllKeys /\ Has(t, s[i].lPartkey)
      <3>1. \/ i \in DOMAIN os /\ s[i] = os[i]
            \/ s[i] = o
        BY <1>1, <2>6, AppendProperties, LenProperties
      <3> QED
        BY <1>4, <2>2, <2>5, <3>1 DEF Collects
    <2>10. Collects(p, s, t, c + 1, r, 0)
      BY <2>7, <2>8, <2>9 DEF Collects
    <2> QED
      BY <1>4, <2>3, <2>6, <2>10
  <1> QED
    BY <1>3, <1>4

\* What p collects in a step of its main thread.
LEMMA CalculateCollects ==
  ASSUME SalesInv, CollectInv, NEW p \in Procs, Calculate(p)
  PROVE  Collects(p, orders[p], partData[p], Collected(p),
                  receivePartData[p], Merged(p))'
  <1>1. /\ FlushInv /\ ControlType /\ TypesInv /\ DataTyped
        /\ EverybodyKnows
    BY KeysKnown DEF SalesInv, KeysInv, FlushInv, ControlInv, TypesInv
  <1>2. /\ orders[p] \in Seq(Order) /\ partData[p] \in Seq(SaleType)
        /\ OneEach(partData[p]) /\ receivePartData[p] \in Seq(SaleType)
        /\ step[p] \in Nat /\ finish_index[p] \in Nat
        /\ Len(Orders[p]) \in Nat /\ Len(receivePartData[p]) \in Nat
    BY <1>1, OrdersAssumption, LenProperties DEF DataTyped, ControlType
  <1>3. Collects(p, orders[p], partData[p], Collected(p), receivePartData[p],
                 Merged(p))
    BY DEF CollectInv
  <1>4. /\ finish_index' = finish_index /\ receivePartData' = receivePartData
        /\ step'[p] = step[p] + 1
    BY <1>1 DEF Calculate, AddPartKey, SendPartKey, CollectOrder, MergeData,
           SendPartSaleData, GetLocalUnderSale, SendFinalAns, Advance, mainVars,
           dataVars, ControlType
  <1>5. \A F \in Weights : Weigh(receivePartData[p], 0, F) = 0
    BY <1>2, WeighNext
  <1>6. CASE AddPartKey(p)
    <2>1. finish_index[p] = 0 /\ UNCHANGED <<orders, partData>>
      BY <1>6 DEF AddPartKey, InPhase
    <2> QED
      BY <1>3, <1>4, <2>1 DEF Collected, Merged
  <1>7. CASE SendPartKey(p)
    <2>1. PICK i : i = step[p] \div 2 + 1
      OBVIOUS
    <2>2. i \in 1..Len(Parts[p]) /\ finish_index[p] = 0
      BY <1>1, <1>7, <2>1, LoopIndex DEF SendPartKey
    <2>3. PICK d : d = Sale(Parts[p][i], 0, 0)
      OBVIOUS
    <2>4. d \in SaleType /\ \A F \in Weights : F[d] = 0
      <3>1. PICK k \in Nat : k = Parts[p][i]
        BY <2>2, OwnKey, KeysAreNumbers
      <3>2. PICK z \in Nat : z = 0
        OBVIOUS
      <3>3. Sale(k, z, z) \in SaleType
        BY SaleIs
      <3>4. \A F \in Weights : F[Sale(k, 0, 0)] = 0
        BY WeightType
      <3> QED
        BY <2>3, <3>1, <3>2, <3>3, <3>4, Zenon
    <2>5. orders' = orders /\ partData'[p] = Insert(partData[p], d)
      BY <1>1, <1>7, <2>1, <2>3 DEF SendPartKey, DataTyped
    <2>6. /\ Collected(p) = 0 /\ Merged(p) = 0
          /\ Collected(p)' = 0 /\ Merged(p)' = 0
      BY <1>4, <2>2 DEF Collected, Merged
    <2>7. Collects(p, orders[p], partData[p], 0, receivePartData[p], 0)
      BY <1>3, <2>6
    <2>8. \A F \in Weights : Weigh(receivePartData[p], 0, F)
                             = Weigh(receivePartData[p], 0, F) + F[d]
      BY <1>5, <2>4
    <2>9. Collects(p, orders[p], Insert(partData[p], d), 0, receivePartData[p], 0)
      BY <1>2, <2>4, <2>7, <2>8, CollectsInsert
    <2> QED
      BY <1>4, <2>5, <2>6, <2>9
  <1>8. CASE CollectOrder(p)
    <2>1. finish_index[p] = 1 /\ step[p] < Len(Orders[p])
      BY <1>1, <1>8, OrdersIndex DEF CollectOrder, InPhase
    <2>2. PICK o : o = Orders[p][step[p] + 1]
      OBVIOUS
    <2>3. PICK c \in Nat : c = step[p]
      BY <1>2
    <2>4. /\ Collected(p) = c /\ Merged(p) = 0
          /\ Collected(p)' = c + 1 /\ Merged(p)' = 0
      BY <1>4, <2>1, <2>3 DEF Collected, Merged
    <2>5. Collects(p, orders[p], partData[p], c, receivePartData[p], 0)
      BY <1>3, <2>4
    <2>6. /\ o.lPartkey \notin AllKeys =>
               Collects(p, orders[p], partData[p], c + 1, receivePartData[p], 0)
          /\ o.lPartkey \in AllKeys =>
               Collects(p, Append(orders[p], o), SolveAnOrder(partData[p], o),
                        c + 1, receivePartData[p], 0)
      BY <1>2, <1>5, <2>1, <2>2, <2>3, <2>5, CollectsOrder
    <2>7. partKeyMap[p] = AllKeys
      BY <1>1, <2>1 DEF EverybodyKnows
    <2>8. CASE o.lPartkey \notin AllKeys
      <3>1. orders'[p] = orders[p] /\ partData'[p] = partData[p]
        BY <1>8, <2>2, <2>7, <2>8 DEF CollectOrder
      <3> QED
        BY <1>4, <2>4, <2>6, <2>8, <3>1
    <2>9. CASE o.lPartkey \in AllKeys
      <3>1. /\ orders'[p] = Append(orders[p], o)
            /\ partData'[p] = SolveAnOrder(partData[p], o)
        BY <1>1, <1>8, <2>2, <2>7, <2>9 DEF CollectOrder, DataTyped
      <3> QED
        BY <1>4, <2>4, <2>6, <2>9, <3>1
    <2> QED
      BY <2>8, <2>9
  <1>9. CASE SendPartSaleData(p) \/ SendFinalAns(p)
    <2>1. finish_index[p] \notin {0, 1, 3} /\ UNCHANGED dataVars
      BY <1>9 DEF SendPartSaleData, SendFinalAns, InPhase
    <2> QED
      BY <1>2, <1>3, <1>4, <2>1 DEF Collected, Merged, dataVars
  <1>10. CASE MergeData(p)
    <2>1. finish_index[p] = 3 /\ step[p] < Len(receivePartData[p])
      BY <1>10 DEF MergeData, InPhase
    <2>2. PICK d : d = receivePartData[p][step[p] + 1]
      OBVIOUS
    <2>3. d \in SaleType
      BY <1>1, <2>1, <2>2, MergeIndex
    <2>4. orders' = orders /\ partData'[p] = Insert(partData[p], d)
      BY <1>1, <1>10, <2>2 DEF MergeData, DataTyped
    <2>5. PICK c \in Nat, n \in Nat : c = Len(Orders[p]) /\ n = step[p]
      BY <1>2
    <2>6. /\ Collected(p) = c /\ Merged(p) = n
          /\ Collected(p)' = c /\ Merged(p)' = n + 1
      BY <1>4, <2>1, <2>5 DEF Collected, Merged
    <2>7. Collects(p, orders[p], partData[p], c, receivePartData[p], n)
      BY <1>3, <2>6
    <2>8. \A F \in Weights : Weigh(receivePartData[p], n + 1, F)
                             = Weigh(receivePartData[p], n, F) + F[d]
      BY <1>2, <2>1, <2>2, <2>5, WeighNext
    <2>9. n + 1 \in Nat
      OBVIOUS
    <2>10. Collects(p, orders[p], Insert(partData[p], d), c, receivePartData[p],
                    n + 1)
      BY <1>2, <2>3, <2>7, <2>8, <2>9, CollectsInsert
    <2> QED
      BY <1>4, <2>4, <2>6, <2>10
  <1>11. CASE GetLocalUnderSale(p)
    <2>1. /\ finish_index[p] = 3 /\ step[p] = Len(receivePartData[p])
          /\ UNCHANGED <<orders, partData>>
      BY <1>11 DEF GetLocalUnderSale, InPhase
    <2>2. /\ Collected(p)' = Collected(p) /\ Merged(p) = step[p]
          /\ Merged(p)' = step[p] + 1
      BY <1>4, <2>1 DEF Collected, Merged
    <2>3. PICK n \in Nat : n = step[p]
      BY <1>2
    <2>4. n + 1 \in Nat /\ n + 1 >= n
      OBVIOUS
    <2>5. \A F \in Weights : Weigh(receivePartData[p], n + 1, F)
                             = Weigh(receivePartData[p], n, F)
      BY <1>2, <2>1, <2>3, <2>4, WeighNext
    <2>6. Collects(p, orders[p], partData[p], Collected(p), receivePartData[p], n)
      BY <1>3, <2>2, <2>3
    <2>7. Collects(p, orders[p], partData[p], Collected(p), receivePartData[p],
                   n + 1)
      BY <2>5, <2>6, CollectsWeight
    <2> QED
      BY <1>4, <2>1, <2>2, <2>3, <2>7
  <1> QED
    BY <1>6, <1>7, <1>8, <1>9, <1>10, <1>11 DEF Calculate

LEMMA LeaveCollects ==
  ASSUME SalesInv, CollectInv, NEW p \in Procs, LeaveBarrier(p)
  PROVE  Collects(p, orders[p], partData[p], Collected(p),
                  receivePartData[p], Merged(p))'
  <1>1. FlushInv /\ ControlType /\ TypesInv /\ DataTyped
    BY DEF SalesInv, KeysInv, FlushInv, ControlInv, TypesInv
  <1>2. /\ receivePartData[p] \in Seq(SaleType)
        /\ Len(Orders[p]) \in Nat /\ Len(receivePartData[p]) \in Nat
    BY <1>1, OrdersAssumption, LenProperties DEF DataTyped
  <1>3. Collects(p, orders[p], partData[p], Collected(p), receivePartData[p],
                 Merged(p))
    BY DEF CollectInv
  <1>4. /\ UNCHANGED <<orders, partData, receivePartData>>
        /\ step'[p] = 0 /\ finish_index'[p] = finish_index[p] + 1
        /\ pc[p] = "woken"
    BY <1>1 DEF LeaveBarrier, Ring!LeaveBarrier, ControlType, dataVars
  <1>5. step[p] = Work(p)
    BY <1>4 DEF SalesInv, StepsDone
  <1>6. PICK k \in Nat : k = finish_index[p]
    BY <1>1 DEF ControlType
  <1>7. Collected(p)' = Collected(p)
    <2>1. k = 1 => step[p] = Len(Orders[p])
      BY <1>5, <1>6 DEF Work
    <2>2. finish_index'[p] = k + 1
      BY <1>4, <1>6
    <2>3. CASE k = 0
      BY <1>4, <1>6, <2>2, <2>3 DEF Collected
    <2>4. CASE k = 1
      BY <1>4, <1>6, <2>1, <2>2, <2>4 DEF Collected
    <2>5. CASE k > 1
      BY <1>4, <1>6, <2>2, <2>5 DEF Collected
    <2> QED
      BY <2>3, <2>4, <2>5
  <1>8. \A F \in Weights : Weigh(receivePartData[p], Merged(p)', F)
                           = Weigh(receivePartData[p], Merged(p), F)
    <2>1. CASE k = 3
      <3>1. PICK n \in Nat : n = Len(receivePartData[p])
        BY <1>2
      <3>2. step[p] = n + 1
        BY <1>5, <1>6, <2>1, <3>1 DEF Work
      <3>3. Merged(p)' = n /\ Merged(p) = n + 1
        BY <1>4, <1>6, <2>1, <3>1, <3>2 DEF Merged
      <3>4. n + 1 \in Nat /\ n + 1 >= n /\ n >= n
        OBVIOUS
      <3>5. ASSUME NEW F \in Weights
            PROVE  Weigh(receivePartData[p], n + 1, F)
                   = Weigh(receivePartData[p], n, F)
        BY <1>2, <3>1, <3>4, WeighNext
      <3> QED
        BY <3>3, <3>5
    <2>2. CASE k # 3
      <3>1. finish_index'[p] = k + 1
        BY <1>4, <1>6
      <3>2. Merged(p)' = Merged(p)
        <4>1. CASE k < 2
          BY <1>6, <3>1, <4>1 DEF Merged
        <4>2. CASE k = 2
          BY <1>4, <1>6, <3>1, <4>2 DEF Merged
        <4>3. CASE k > 3
          BY <1>4, <1>6, <3>1, <4>3 DEF Merged
        <4> QED
          BY <2>2, <4>1, <4>2, <4>3
      <3> QED
        BY <3>2
    <2> QED
      BY <2>1, <2>2
  <1>9. Collects(p, orders[p], partData[p], Collected(p), receivePartData[p],
                 Merged(p)')
    BY <1>3, <1>8, CollectsWeight
  <1> QED
    BY <1>4, <1>7, <1>9

LEMMA ServeCollects ==
  ASSUME SalesInv, CollectInv, NEW p \in Procs, Serve(p)
  PROVE  Collects(p, orders[p], partData[p], Collected(p),
                  receivePartData[p], Merged(p))'
  <1>1. FlushInv /\ ControlType /\ TypesInv /\ DataTyped
    BY DEF SalesInv, KeysInv, FlushInv, ControlInv, TypesInv
  <1>2. UNCHANGED <<step, finish_index, orders, partData>>
    BY <1>1, ServerKeeps
  <1>3. Collects(p, orders[p], partData[p], Collected(p), receivePartData[p],
                 Merged(p))
    BY DEF CollectInv
  <1>4. Collected(p)' = Collected(p)
    BY <1>2 DEF Collected
  <1>5. CASE receivePartData' = receivePartData
    BY <1>2, <1>3, <1>4, <1>5 DEF Merged
  <1>6. CASE receivePartData' # receivePartData
    <2>1. finish_index[p] <= 2
      BY <1>1, <1>6, ServerKeeps, SalesComeEarly
    <2>2. finish_index[p] \in Nat
      BY <1>1 DEF ControlType
    <2>3. Merged(p) = 0 /\ Merged(p)' = 0
      BY <1>2, <2>1, <2>2 DEF Merged
    <2>4. /\ receivePartData'[p] \in Seq(SaleType)
          /\ receivePartData[p] \in Seq(SaleType)
      BY <1>1, NextTypes DEF Next, TypesInv, DataTyped
    <2>5. \A F \in Weights : Weigh(receivePartData'[p], 0, F)
                             = Weigh(receivePartData[p], 0, F)
      BY <2>4, WeighNext
    <2>6. Collects(p, orders[p], partData[p], Collected(p), receivePartData[p],
                   0)
      BY <1>3, <2>3
    <2>7. Collects(p, orders[p], partData[p], Collected(p), receivePartData'[p],
                   0)
      BY <2>5, <2>6, CollectsWeight
    <2> QED
      BY <1>2, <1>4, <2>3, <2>7
  <1> QED
    BY <1>5, <1>6

LEMMA NextCollect ==
  ASSUME SalesInv, CollectInv, [Next]_vars
  PROVE  CollectInv'
  <1>1. ControlType /\ DataTyped
    BY DEF SalesInv, KeysInv, FlushInv, ControlInv, TypesInv
  <1>2. CASE UNCHANGED vars
    BY <1>2 DEF vars, Ring!vars, queryVars, dataVars, CollectInv, Collected,
                Merged
  <1>3. ASSUME NEW p \in Procs, Calculate(p) \/ Synchronise(p) \/ Serve(p)
        PROVE  CollectInv'
    <2>1. ASSUME NEW q \in Procs, q # p
          PROVE  Collects(q, orders[q], partData[q], Collected(q),
                          receivePartData[q], Merged(q))'
      <3>1. /\ orders'[q] = orders[q] /\ partData'[q] = partData[q]
            /\ receivePartData'[q] = receivePartData[q]
            /\ step'[q] = step[q] /\ finish_index'[q] = finish_index[q]
        BY <1>1, <1>3, <2>1, OthersKeep
      <3> QED
        BY <3>1 DEF CollectInv, Collected, Merged
    <2>2. Collects(p, orders[p], partData[p], Collected(p),
                   receivePartData[p], Merged(p))'
      <3>1. CASE Synchronise(p) /\ ~ LeaveBarrier(p)
        <4>1. UNCHANGED <<queryVars, finish_index>>
          BY <3>1 DEF Synchronise, EnterBarrier, Ring!EnterBarrier,
                      Ring!SendFinish, Ring!Wait
        <4> QED
          BY <4>1 DEF queryVars, dataVars, CollectInv, Collected, Merged
      <3> QED
        BY <1>3, <3>1, CalculateCollects, LeaveCollects, ServeCollects
    <2> QED
      BY <2>1, <2>2 DEF CollectInv
  <1> QED
    BY <1>2, <1>3 DEF Next

LEMMA InitCollect == Init => CollectInv /\ StepsDone
  <1> SUFFICES ASSUME Init PROVE CollectInv /\ StepsDone
    OBVIOUS
  <1>1. /\ ControlType /\ TypesInv
    BY InitFlush, InitTypes DEF FlushInv, ControlInv
  <1>2. ASSUME NEW p \in Procs
        PROVE  Collects(p, orders[p], partData[p], Collected(p),
                        receivePartData[p], Merged(p))
    <2>1. /\ orders[p] = << >> /\ partData[p] = << >>
          /\ receivePartData[p] = << >> /\ finish_index[p] = 0
      BY DEF Init, Ring!Init, Procs
    <2>2. Collected(p) = 0 /\ Merged(p) = 0
      BY <2>1 DEF Collected, Merged
    <2>3. \A G \in [Order -> Nat] : OrderSum(p, 0, G) = 0
      BY OrderSumNext
    <2>4. PICK s : s = << >>
      OBVIOUS
    <2>5. s \in Seq(SaleType) /\ DOMAIN s = {} /\ Len(s) = 0
      BY <2>4, EmptySeq
    <2>6. \A F \in Weights : Weigh(s, 0, F) = 0 /\ WeighAll(s, F) = 0
      <3> SUFFICES ASSUME NEW F \in Weights
                   PROVE  Weigh(s, 0, F) = 0 /\ WeighAll(s, F) = 0
        OBVIOUS
      <3>1. PICK z \in Nat : z = 0 /\ z >= Len(s)
        BY <2>5
      <3>2. Weigh(s, 0, F) = 0 /\ Weigh(s, z, F) = WeighAll(s, F)
        BY <2>5, <3>1, WeighNext
      <3> QED
        BY <3>1, <3>2
    <2>7. \A G : TotalOf(s, G) = 0
      <3> SUFFICES ASSUME NEW G PROVE TotalOf(s, G) = 0
        OBVIOUS
      <3>1. [i \in DOMAIN s |-> G[s[i]]] = << >>
        BY <2>4
      <3> QED
        BY <3>1, TotalEmpty DEF TotalOf
    <2>8. Collects(p, s, s, 0, s, 0)
      BY <2>3, <2>5, <2>6, <2>7, SaleOfType DEF Collects
    <2> QED
      BY <2>1, <2>2, <2>4, <2>8
  <1>3. ASSUME NEW p \in Procs
        PROVE  step[p] <= Work(p) /\ (pc[p] # "run" => step[p] = Work(p))
    <2>1. step[p] = 0 /\ pc[p] = "run"
      BY DEF Init, Ring!Init, Procs
    <2>2. Work(p) \in Nat
      BY <1>1, WorkType
    <2> QED
      BY <2>1, <2>2
  <1> QED
    BY <1>2, <1>3 DEF CollectInv, StepsDone

-------------------------------------------------------------------------------
(***************************************************************************)
(* The sums on the way.  What the others have sent, p has received or is   *)
(* still to get: a sum is due at p while the place where it is comes       *)
(* before p on its way from its origin round the ring.                     *)
(***************************************************************************)

\* The message m in the stream of s has still to come to p.
Due(m, p, s) ==
  m.head = "finalPart" /\ m.from # p /\ Hops(m.from, s) <= Hops(m.from, p)

\* The server of s, which holds m, will send it on towards p.
GoesTo(m, p, s) ==
  m.head = "finalPart" /\ m.from # p /\ Hops(m.from, s) < Hops(m.from, p)

Value(m, p, s, F) == IF Due(m, p, s) THEN F[m.sale] ELSE 0

Carried(w, p, s, F) == Total([i \in DOMAIN w |-> Value(w[i], p, s, F)])

InHand(h, p, s, F) ==
  IF h.rest = "forward" /\ GoesTo(h.msg, p, s) THEN F[h.msg.sale] ELSE 0

Load(p, s, F) ==
  Carried(wire[s], p, s, F) + InHand(handling[s], p, s, F)

OnWay(p, F) == Total([s \in 1..N |-> Load(p, s, F)])

\* What q has sent of its own sums.
SentBy(q, F) ==
  IF finish_index[q] < 2 THEN 0
  ELSE IF finish_index[q] = 2 THEN Weigh(partData[q], step[q], F)
  ELSE OrderSum(q, Len(Orders[q]), SaleOf(F))

SentTo(p, F) == Total([q \in 1..N |-> IF q = p THEN 0 ELSE SentBy(q, F)])

FlowInv ==
  \A p \in Procs : \A F \in Weights :
    WeighAll(receivePartData[p], F) + OnWay(p, F) = SentTo(p, F)

LEMMA ValueType ==
  ASSUME NEW F \in Weights, NEW p, NEW s, NEW m \in Message
  PROVE  Value(m, p, s, F) \in Nat
  <1>1. m.head = "finalPart" => m.sale \in SaleType
    BY MessageIs
  <1>2. m.head = "finalPart" => F[m.sale] \in Nat
    BY <1>1, WeightType
  <1> QED
    BY <1>2 DEF Value, Due

\* A stream that is sent to or read.
LEMMA CarriedMoves ==
  ASSUME NEW F \in Weights, NEW p, NEW s, NEW w \in Seq(Message)
  PROVE  /\ Carried(w, p, s, F) \in Nat
         /\ \A e \in Message : Carried(Append(w, e), p, s, F)
                               = Carried(w, p, s, F) + Value(e, p, s, F)
         /\ w # << >> => Carried(Tail(w), p, s, F)
                         = Carried(w, p, s, F) - Value(Head(w), p, s, F)
  <1>1. PICK V : V = [m \in Message |-> Value(m, p, s, F)]
    OBVIOUS
  <1>2. V \in [Message -> Nat] /\ V \in [Message -> Int]
    BY <1>1, ValueType
  <1>3. ASSUME NEW v \in Seq(Message)
        PROVE  Carried(v, p, s, F) = Total([i \in DOMAIN v |-> V[v[i]]])
    <2>1. \A i \in DOMAIN v : v[i] \in Message
      BY ElementOfSeq, LenProperties
    <2>2. [i \in DOMAIN v |-> Value(v[i], p, s, F)]
            = [i \in DOMAIN v |-> V[v[i]]]
      BY <1>1, <2>1
    <2> QED
      BY <2>2 DEF Carried
  <1>4. Carried(w, p, s, F) \in Nat
    <2>1. PICK n \in Nat : n = Len(w)
      BY LenProperties
    <2>2. DOMAIN w = 1..n /\ \A i \in 1..n : w[i] \in Message
      BY <2>1, LenProperties, ElementOfSeq
    <2>3. PICK t : t = [i \in DOMAIN w |-> V[w[i]]]
      OBVIOUS
    <2>4. t = [i \in 1..n |-> t[i]] /\ \A i \in 1..n : t[i] \in Nat
      BY <1>2, <2>2, <2>3
    <2>5. t \in [1..n -> Nat]
      BY <2>4
    <2>6. t \in Seq(Nat)
      BY <2>5, Tuple
    <2> QED
      BY <1>3, <2>3, <2>6, TotalNat
  <1>5. ASSUME NEW e \in Message
        PROVE  Carried(Append(w, e), p, s, F)
               = Carried(w, p, s, F) + Value(e, p, s, F)
    <2>1. PICK v \in Seq(Message) : v = Append(w, e)
      BY AppendProperties
    <2>2. Total([i \in DOMAIN v |-> V[v[i]]])
            = Total([i \in DOMAIN w |-> V[w[i]]]) + V[e]
      BY <1>2, <2>1, TotalMapAppend
    <2> QED
      BY <1>1, <1>3, <2>1, <2>2
  <1>6. ASSUME w # << >>
        PROVE  Carried(Tail(w), p, s, F)
               = Carried(w, p, s, F) - Value(Head(w), p, s, F)
    <2>1. Tail(w) \in Seq(Message) /\ Head(w) \in Message
      BY <1>6, HeadTailProperties
    <2>2. PICK v \in Seq(Message) : v = Tail(w)
      BY <2>1
    <2>3. Total([i \in DOMAIN v |-> V[v[i]]])
            = Total([i \in DOMAIN w |-> V[w[i]]]) - V[Head(w)]
      BY <1>2, <1>6, <2>2, TotalMapTail
    <2> QED
      BY <1>1, <1>3, <2>1, <2>2, <2>3
  <1> QED
    BY <1>4, <1>5, <1>6

\* The hands of a server.
LEMMA HandIs ==
  ASSUME NEW F \in Weights, NEW p, NEW s, NEW h \in Hands
  PROVE  /\ InHand(h, p, s, F) \in Nat
         /\ h.rest # "forward" => InHand(h, p, s, F) = 0
         /\ InHand(Idle, p, s, F) = 0
         /\ h.rest = "forward" => /\ h.msg \in Message
                                  /\ h # Idle
                                  /\ h.msg.head = "finalPart" => h.msg \in SaleMsg
                                  /\ h.msg.head # "finalPart" => h.msg \in KeyMsg
  <1>1. h.rest = "forward" => h.msg \in KeyMsg \/ h.msg \in SaleMsg
    BY DEF Hands, Idle
  <1>2. h.rest = "forward" /\ h.msg.head = "finalPart" =>
          h.msg \in SaleMsg /\ h.msg.sale \in SaleType
    BY <1>1 DEF KeyMsg, SaleMsg
  <1>3. InHand(h, p, s, F) \in Nat
    BY <1>2, WeightType DEF InHand, GoesTo
  <1>4. h.rest = "forward" => h.msg \in Message
    BY <1>1 DEF Message, KeyMsg, SaleMsg
  <1>5. h.rest = "forward" => h # Idle
    BY DEF Idle
  <1>6. InHand(Idle, p, s, F) = 0
    BY DEF InHand, Idle
  <1>7. h.rest = "forward" /\ h.msg.head # "finalPart" => h.msg \in KeyMsg
    BY <1>1 DEF SaleMsg
  <1> QED
    BY <1>2, <1>3, <1>4, <1>5, <1>6, <1>7 DEF InHand

LEMMA LoadType ==
  ASSUME MessagesTyped, NEW F \in Weights, NEW p, NEW s \in Procs
  PROVE  /\ Carried(wire[s], p, s, F) \in Nat
         /\ InHand(handling[s], p, s, F) \in Nat
         /\ Load(p, s, F) \in Nat
  BY CarriedMoves, HandIs DEF MessagesTyped, Load

\* The sum over the instances is a sum of a sequence.
LEMMA OverProcs ==
  ASSUME NEW f, \A s \in Procs : f[s] \in Nat, NEW t, t = [s \in 1..N |-> f[s]]
  PROVE  t \in Seq(Nat) /\ t \in Seq(Int) /\ Len(t) = N /\ Total(t) \in Nat
  <1>1. N \in Nat
    BY NAssumption
  <1>2. t = [s \in 1..N |-> t[s]] /\ \A s \in 1..N : t[s] \in Nat
    BY DEF Procs, Ring!Procs
  <1>3. t \in [1..N -> Nat] /\ t \in [1..N -> Int]
    BY <1>2
  <1> QED
    BY <1>1, <1>3, Tuple, TotalNat

LEMMA OnWayType ==
  ASSUME MessagesTyped, NEW F \in Weights, NEW p
  PROVE  OnWay(p, F) \in Nat
  <1>1. PICK f : f = [s \in Procs |-> Load(p, s, F)]
    OBVIOUS
  <1>2. \A s \in Procs : f[s] \in Nat
    BY <1>1, LoadType
  <1>3. [s \in 1..N |-> Load(p, s, F)] = [s \in 1..N |-> f[s]]
    BY <1>1 DEF Procs, Ring!Procs
  <1> QED
    BY <1>2, <1>3, OverProcs DEF OnWay

LEMMA OnWaySame ==
  ASSUME NEW F, NEW p, \A s \in Procs : Load(p, s, F)' = Load(p, s, F)
  PROVE  OnWay(p, F)' = OnWay(p, F)
  <1>1. [s \in 1..N |-> Load(p, s, F)]' = [s \in 1..N |-> Load(p, s, F)]
    BY DEF Procs, Ring!Procs
  <1> QED
    BY <1>1 DEF OnWay

\* The load of one place changes, or that of two.
LEMMA OnWayChanges ==
  ASSUME MessagesTyped, MessagesTyped', NEW F \in Weights, NEW p,
         NEW c \in Procs, NEW d \in Procs,
         \A s \in Procs : s # c /\ s # d => Load(p, s, F)' = Load(p, s, F)
  PROVE  OnWay(p, F)' =
           IF c = d THEN OnWay(p, F) - Load(p, d, F) + Load(p, d, F)'
           ELSE (OnWay(p, F) - Load(p, c, F) + Load(p, c, F)')
                  - Load(p, d, F) + Load(p, d, F)'
  <1>1. Procs = 1..N /\ N \in Nat
    BY NAssumption DEF Procs, Ring!Procs
  <1>2. PICK f : f = [s \in Procs |-> Load(p, s, F)]
    OBVIOUS
  <1>3. PICK g : g = [s \in Procs |-> Load(p, s, F)']
    OBVIOUS
  <1>4. \A s \in Procs : f[s] \in Nat
    BY <1>2, LoadType
  <1>5. \A s \in Procs : g[s] \in Nat
    <2>1. ASSUME NEW s \in Procs PROVE Load(p, s, F)' \in Nat
      <3>1. /\ wire'[s] \in Seq(Message) /\ handling'[s] \in Hands
        BY DEF MessagesTyped
      <3>2. /\ Carried(wire'[s], p, s, F) \in Nat
            /\ InHand(handling'[s], p, s, F) \in Nat
        BY <3>1, CarriedMoves, HandIs
      <3> QED
        BY <3>2 DEF Load
    <2> QED
      BY <1>3, <2>1
  <1>6. PICK a : a = [s \in 1..N |-> f[s]]
    OBVIOUS
  <1>7. PICK b : b = [s \in 1..N |-> g[s]]
    OBVIOUS
  <1>8. a \in Seq(Int) /\ Len(a) = N /\ Total(a) \in Nat
    BY <1>4, <1>6, OverProcs
  <1>9. b \in Seq(Int) /\ Len(b) = N
    BY <1>5, <1>7, OverProcs
  <1>10. OnWay(p, F) = Total(a) /\ OnWay(p, F)' = Total(b)
    <2>1. [s \in 1..N |-> Load(p, s, F)] = a
      BY <1>1, <1>2, <1>6
    <2>2. [s \in 1..N |-> Load(p, s, F)'] = b
      BY <1>1, <1>3, <1>7
    <2> QED
      BY <2>1, <2>2 DEF OnWay
  <1>11. \A s \in 1..Len(a) : s # c /\ s # d => b[s] = a[s]
    BY <1>1, <1>2, <1>3, <1>6, <1>7, <1>8
  <1>12. c \in 1..Len(a) /\ d \in 1..Len(a)
    BY <1>1, <1>8
  <1>13. /\ a[c] = Load(p, c, F) /\ a[d] = Load(p, d, F)
         /\ b[c] = Load(p, c, F)' /\ b[d] = Load(p, d, F)'
    BY <1>1, <1>2, <1>3, <1>6, <1>7
  <1>14. CASE c = d
    <2>1. Total(b) = Total(a) - a[d] + b[d]
      BY <1>8, <1>9, <1>11, <1>12, <1>14, TotalReplaced
    <2> QED
      BY <1>10, <1>13, <1>14, <2>1
  <1>15. CASE c # d
    <2>1. Total(b) = (Total(a) - a[c] + b[c]) - a[d] + b[d]
      BY <1>8, <1>9, <1>11, <1>12, <1>15, TotalMoved
    <2> QED
      BY <1>10, <1>13, <1>15, <2>1
  <1> QED
    BY <1>14, <1>15

\* Nothing is sent or received.
LEMMA FlowSame ==
  ASSUME FlowInv,
         \A p, s \in Procs : \A F \in Weights : Load(p, s, F)' = Load(p, s, F),
         \A q \in Procs : \A F \in Weights : SentBy(q, F)' = SentBy(q, F),
         receivePartData' = receivePartData
  PROVE  FlowInv'
  <1> SUFFICES ASSUME NEW p \in Procs, NEW F \in Weights
               PROVE  WeighAll(receivePartData'[p], F) + OnWay(p, F)'
                      = SentTo(p, F)'
    BY DEF FlowInv
  <1>1. OnWay(p, F)' = OnWay(p, F)
    BY OnWaySame
  <1>2. SentTo(p, F)' = SentTo(p, F)
    <2>1. [q \in 1..N |-> IF q = p THEN 0 ELSE SentBy(q, F)']
            = [q \in 1..N |-> IF q = p THEN 0 ELSE SentBy(q, F)]
      BY DEF Procs, Ring!Procs
    <2> QED
      BY <2>1 DEF SentTo
  <1>3. WeighAll(receivePartData[p], F) + OnWay(p, F) = SentTo(p, F)
    BY DEF FlowInv
  <1> QED
    BY <1>1, <1>2, <1>3


LEMMA SentByType ==
  ASSUME ControlType, DataTyped, NEW q \in Procs, NEW F \in Weights
  PROVE  SentBy(q, F) \in Nat
  <1>1. partData[q] \in Seq(SaleType) /\ step[q] \in Nat /\ Len(Orders[q]) \in Nat
    BY OrdersAssumption, LenProperties DEF ControlType, DataTyped
  <1>2. Weigh(partData[q], step[q], F) \in Nat
    BY <1>1, WeighNext
  <1>3. OrderSum(q, Len(Orders[q]), SaleOf(F)) \in Nat
    BY <1>1, SaleOfType, OrderSumNext
  <1> QED
    BY <1>2, <1>3 DEF SentBy

\* Only communicatePartSale sends sums: when it is done, all of its own.
LEMMA SentBySame ==
  ASSUME SalesInv, CollectInv, NEW p \in Procs,
         Calculate(p) \/ Synchronise(p) \/ Serve(p), ~ SendPartSaleData(p)
  PROVE  \A q \in Procs : \A F \in Weights : SentBy(q, F)' = SentBy(q, F)
  <1> SUFFICES ASSUME NEW q \in Procs, NEW F \in Weights
               PROVE  SentBy(q, F)' = SentBy(q, F)
    OBVIOUS
  <1>1. /\ FlushInv /\ ControlType /\ TypesInv /\ DataTyped /\ StepsDone
    BY DEF SalesInv, KeysInv, FlushInv, ControlInv, TypesInv
  <1>2. CASE q # p
    <2>1. /\ partData'[q] = partData[q] /\ step'[q] = step[q]
          /\ finish_index'[q] = finish_index[q]
      BY <1>1, <1>2, OthersKeep
    <2> QED
      BY <2>1 DEF SentBy
  <1>3. CASE q = p /\ Serve(p)
    <2>1. UNCHANGED <<step, finish_index, partData>>
      BY <1>1, <1>3, ServerKeeps
    <2> QED
      BY <2>1 DEF SentBy
  <1>4. CASE q = p /\ Calculate(p)
    <2>1. finish_index' = finish_index
      BY <1>4 DEF Calculate, AddPartKey, SendPartKey, CollectOrder, MergeData,
           SendPartSaleData, GetLocalUnderSale, SendFinalAns, mainVars
    <2>2. finish_index[p] # 2 /\ finish_index[p] \in Nat
      BY <1>1, <1>4
         DEF Calculate, AddPartKey, SendPartKey, CollectOrder, MergeData,
             GetLocalUnderSale, SendFinalAns, InPhase, ControlType
    <2> QED
      BY <1>4, <2>1, <2>2 DEF SentBy
  <1>5. CASE q = p /\ LeaveBarrier(p)
    <2>1. /\ UNCHANGED <<orders, partData, receivePartData>>
          /\ step'[p] = 0 /\ finish_index'[p] = finish_index[p] + 1
          /\ pc[p] = "woken"
      BY <1>1, <1>5 DEF LeaveBarrier, Ring!LeaveBarrier, ControlType, dataVars
    <2>2. step[p] = Work(p)
      BY <1>1, <2>1 DEF StepsDone
    <2>3. /\ partData[p] \in Seq(SaleType) /\ receivePartData[p] \in Seq(SaleType)
          /\ Len(partData[p]) \in Nat /\ Len(Orders[p]) \in Nat
      BY <1>1, OrdersAssumption, LenProperties DEF DataTyped
    <2>4. PICK k \in Nat : k = finish_index[p]
      BY <1>1 DEF ControlType
    <2>5. finish_index'[p] = k + 1
      BY <2>1, <2>4
    <2>6. CASE k = 0
      BY <1>5, <2>4, <2>5, <2>6 DEF SentBy
    <2>7. CASE k = 1
      <3>1. SentBy(p, F) = 0
        BY <2>4, <2>7 DEF SentBy
      <3>2. SentBy(p, F)' = Weigh(partData[p], 0, F)
        BY <2>1, <2>5, <2>7 DEF SentBy
      <3>3. Weigh(partData[p], 0, F) = 0
        BY <2>3, WeighNext
      <3> QED
        BY <1>5, <3>1, <3>2, <3>3
    <2>8. CASE k = 2
      <3>1. PICK n \in Nat : n = Len(partData[p])
        BY <2>3
      <3>2. step[p] = n
        BY <2>2, <2>4, <2>8, <3>1 DEF Work
      <3>3. SentBy(p, F) = Weigh(partData[p], n, F)
        BY <2>4, <2>8, <3>2 DEF SentBy
      <3>4. Weigh(partData[p], n, F) = WeighAll(partData[p], F)
        BY <2>3, <3>1, WeighNext
      <3>5. Collected(p) = Len(Orders[p]) /\ Merged(p) = 0
        BY <2>4, <2>8 DEF Collected, Merged
      <3>6. WeighAll(partData[p], F) = OrderSum(p, Len(Orders[p]), SaleOf(F))
                                       + Weigh(receivePartData[p], 0, F)
        BY <3>5 DEF CollectInv, Collects
      <3>7. /\ Weigh(receivePartData[p], 0, F) = 0
            /\ OrderSum(p, Len(Orders[p]), SaleOf(F)) \in Nat
        BY <2>3, WeighNext, SaleOfType, OrderSumNext
      <3>8. SentBy(p, F)' = OrderSum(p, Len(Orders[p]), SaleOf(F))
        BY <2>5, <2>8 DEF SentBy
      <3> QED
        BY <1>5, <3>3, <3>4, <3>6, <3>7, <3>8
    <2>9. CASE k > 2
      BY <1>5, <2>4, <2>5, <2>9 DEF SentBy
    <2> QED
      BY <2>6, <2>7, <2>8, <2>9
  <1>6. CASE q = p /\ Synchronise(p) /\ ~ LeaveBarrier(p)
    <2>1. UNCHANGED <<queryVars, finish_index>>
      BY <1>6 DEF Synchronise, EnterBarrier, Ring!EnterBarrier,
                  Ring!SendFinish, Ring!Wait
    <2> QED
      BY <2>1 DEF queryVars, dataVars, SentBy
  <1> QED
    BY <1>2, <1>3, <1>4, <1>5, <1>6

\* A stream that is sent to or read, and what a server holds, when no sum is
\* concerned.
NoSaleSent(w, w2) ==
  \/ w2 = w
  \/ \E e \in Message : e.head # "finalPart" /\ w2 = Append(w, e)
  \/ w # << >> /\ Head(w).head # "finalPart" /\ w2 = Tail(w)

NoSaleHeld(h) == h.rest = "forward" => h.msg.head # "finalPart"

LEMMA LoadSame ==
  ASSUME MessagesTyped, NEW s \in Procs,
         NoSaleSent(wire[s], wire'[s]),
         \/ handling'[s] = handling[s]
         \/ NoSaleHeld(handling[s]) /\ NoSaleHeld(handling'[s])
  PROVE  \A p \in Procs : \A F \in Weights : Load(p, s, F)' = Load(p, s, F)
  <1> SUFFICES ASSUME NEW p \in Procs, NEW F \in Weights
               PROVE  Load(p, s, F)' = Load(p, s, F)
    OBVIOUS
  <1>1. wire[s] \in Seq(Message)
    BY DEF MessagesTyped
  <1>2. \A m : m.head # "finalPart" => Value(m, p, s, F) = 0
    BY DEF Value, Due
  <1>3. Carried(wire[s], p, s, F) \in Nat
    BY <1>1, CarriedMoves
  <1>4. Carried(wire'[s], p, s, F) = Carried(wire[s], p, s, F)
    <2>1. CASE wire'[s] = wire[s]
      BY <2>1
    <2>2. CASE \E e \in Message : e.head # "finalPart"
                                  /\ wire'[s] = Append(wire[s], e)
      <3>1. PICK e \in Message : e.head # "finalPart"
                                 /\ wire'[s] = Append(wire[s], e)
        BY <2>2
      <3>2. Carried(Append(wire[s], e), p, s, F)
              = Carried(wire[s], p, s, F) + Value(e, p, s, F)
        BY <1>1, CarriedMoves
      <3> QED
        BY <1>2, <1>3, <3>1, <3>2
    <2>3. CASE wire[s] # << >> /\ Head(wire[s]).head # "finalPart"
               /\ wire'[s] = Tail(wire[s])
      <3>1. Carried(Tail(wire[s]), p, s, F)
              = Carried(wire[s], p, s, F) - Value(Head(wire[s]), p, s, F)
        BY <1>1, <2>3, CarriedMoves
      <3> QED
        BY <1>2, <1>3, <2>3, <3>1
    <2> QED
      BY <2>1, <2>2, <2>3 DEF NoSaleSent
  <1>5. InHand(handling'[s], p, s, F) = InHand(handling[s], p, s, F)
    BY DEF InHand, GoesTo, NoSaleHeld
  <1> QED
    BY <1>4, <1>5 DEF Load

\* A sum is sent: it is due at all the others.
LEMMA SendFlow ==
  ASSUME SalesInv, CollectInv, FlowInv, NEW q \in Procs, SendPartSaleData(q)
  PROVE  FlowInv'
  <1>1. /\ FlushInv /\ ControlType /\ TypesInv /\ DataTyped /\ MessagesTyped
    BY DEF SalesInv, KeysInv, FlushInv, ControlInv, TypesInv
  <1>2. InPhase(q, 2) /\ step' = [step EXCEPT ![q] = @ + 1]
        /\ UNCHANGED <<finish_index, partData, receivePartData, handling>>
    BY DEF SendPartSaleData, Advance, mainVars, dataVars
  <1>3. PICK d : d = partData[q][step[q] + 1]
    OBVIOUS
  <1>4. PICK m : m = [head |-> "finalPart", sale |-> d, from |-> q]
    OBVIOUS
  <1>5. /\ d \in SaleType /\ m \in Message /\ step[q] \in Nat
        /\ step[q] < Len(partData[q])
    BY <1>1, <1>2, <1>3, <1>4, SalesIndex, IsMessage
  <1>6. m.head = "finalPart" /\ m.sale = d /\ m.from = q
    BY <1>4
  <1>7. wire' = [wire EXCEPT ![Down(q)] = Append(@, m)]
    BY <1>3, <1>4 DEF SendPartSaleData, Send
  <1>8. Down(q) \in Procs /\ Hops(q, Down(q)) = 1
    BY RingArithmetic
  <1>9. MessagesTyped'
    BY <1>1, NextTypes DEF Next, Calculate, TypesInv
  <1> SUFFICES ASSUME NEW p \in Procs, NEW F \in Weights
               PROVE  WeighAll(receivePartData'[p], F) + OnWay(p, F)'
                      = SentTo(p, F)'
    BY DEF FlowInv
  <1>10. PICK v \in Nat : v = IF p = q THEN 0 ELSE F[d]
    BY <1>5, WeightType
  <1>11. Value(m, p, Down(q), F) = v
    <2>1. Hops(q, p) \in 1..N /\ (Hops(q, p) = N <=> p = q)
      BY RingArithmetic
    <2>2. 1 <= Hops(q, p)
      BY <2>1, NAssumption
    <2> QED
      BY <1>6, <1>8, <1>10, <2>2 DEF Value, Due
  <1>12. \A s \in Procs : s # Down(q) => Load(p, s, F)' = Load(p, s, F)
    BY <1>1, <1>2, <1>7 DEF Load, MessagesTyped
  <1>13. Load(p, Down(q), F)' = Load(p, Down(q), F) + v
    <2>1. wire[Down(q)] \in Seq(Message)
          /\ wire'[Down(q)] = Append(wire[Down(q)], m)
      BY <1>1, <1>7, <1>8 DEF MessagesTyped
    <2>2. Carried(wire'[Down(q)], p, Down(q), F)
            = Carried(wire[Down(q)], p, Down(q), F) + v
      BY <1>5, <1>11, <2>1, CarriedMoves
    <2>3. Carried(wire[Down(q)], p, Down(q), F) \in Nat
          /\ InHand(handling[Down(q)], p, Down(q), F) \in Nat
      BY <1>1, <1>8, LoadType
    <2> QED
      BY <1>2, <2>2, <2>3 DEF Load
  <1>14. OnWay(p, F)' = OnWay(p, F) - Load(p, Down(q), F) + Load(p, Down(q), F)'
    BY <1>1, <1>8, <1>9, <1>12, OnWayChanges
  <1>15. OnWay(p, F) \in Nat /\ Load(p, Down(q), F) \in Nat
    BY <1>1, <1>8, OnWayType, LoadType
  <1>16. OnWay(p, F)' = OnWay(p, F) + v
    BY <1>13, <1>14, <1>15
  <1>17. SentTo(p, F)' = SentTo(p, F) + v
    <2>1. PICK f : f = [r \in Procs |-> IF r = p THEN 0 ELSE SentBy(r, F)]
      OBVIOUS
    <2>2. PICK g : g = [r \in Procs |-> IF r = p THEN 0 ELSE SentBy(r, F)']
      OBVIOUS
    <2>3. \A r \in Procs : SentBy(r, F) \in Nat
      BY <1>1, SentByType
    <2>4. SentBy(q, F)' = SentBy(q, F) + F[d]
      <3>1. finish_index[q] = 2 /\ finish_index'[q] = 2 /\ step'[q] = step[q] + 1
        BY <1>1, <1>2 DEF InPhase, ControlType
      <3>2. SentBy(q, F) = Weigh(partData[q], step[q], F)
            /\ SentBy(q, F)' = Weigh(partData[q], step[q] + 1, F)
        BY <1>2, <3>1 DEF SentBy
      <3>3. partData[q] \in Seq(SaleType)
        BY <1>1 DEF DataTyped
      <3> QED
        BY <1>3, <1>5, <3>2, <3>3, WeighNext
    <2>5. \A r \in Procs : r # q => SentBy(r, F)' = SentBy(r, F)
      BY <1>1, <1>2 DEF SentBy, ControlType
    <2>6. F[d] \in Nat
      BY <1>5, WeightType
    <2>7. /\ \A r \in Procs : f[r] \in Nat /\ g[r] \in Nat
          /\ g[q] = f[q] + v
          /\ \A r \in Procs : r # q => g[r] = f[r]
      BY <1>10, <2>1, <2>2, <2>3, <2>4, <2>5, <2>6
    <2>8. PICK a : a = [r \in 1..N |-> f[r]]
      OBVIOUS
    <2>9. PICK b : b = [r \in 1..N |-> g[r]]
      OBVIOUS
    <2>10. a \in Seq(Int) /\ Len(a) = N /\ Total(a) \in Nat
      BY <2>7, <2>8, OverProcs
    <2>11. b \in Seq(Int) /\ Len(b) = N
      BY <2>7, <2>9, OverProcs
    <2>12. Procs = 1..N
      BY DEF Procs, Ring!Procs
    <2>13. q \in 1..Len(a) /\ \A r \in 1..Len(a) : r # q => b[r] = a[r]
      BY <2>7, <2>8, <2>9, <2>10, <2>12
    <2>14. Total(b) = Total(a) - a[q] + b[q]
      BY <2>10, <2>11, <2>13, TotalReplaced
    <2>15. a[q] = f[q] /\ b[q] = g[q] /\ f[q] \in Nat
      BY <2>7, <2>8, <2>9, <2>12
    <2>16. Total(b) = Total(a) + v
      BY <2>7, <2>10, <2>14, <2>15
    <2>17. SentTo(p, F) = Total(a)
      <3>1. [r \in 1..N |-> IF r = p THEN 0 ELSE SentBy(r, F)] = a
        BY <2>1, <2>8, <2>12
      <3> QED
        BY <3>1 DEF SentTo
    <2>18. SentTo(p, F)' = Total(b)
      <3>1. [r \in 1..N |-> IF r = p THEN 0 ELSE SentBy(r, F)'] = b
        BY <2>2, <2>9, <2>12
      <3> QED
        BY <3>1 DEF SentTo
    <2> QED
      BY <2>16, <2>17, <2>18
  <1>18. WeighAll(receivePartData[p], F) + OnWay(p, F) = SentTo(p, F)
    BY DEF FlowInv
  <1>19. WeighAll(receivePartData[p], F) \in Nat
    BY <1>1, WeighNext DEF DataTyped
  <1> QED
    BY <1>2, <1>15, <1>16, <1>17, <1>18, <1>19

\* A sum comes: its receiver keeps it and holds it for the next ones.
LEMMA ReceiveFlow ==
  ASSUME SalesInv, CollectInv, FlowInv, NEW s \in Procs, ReceiveFinalPart(s)
  PROVE  FlowInv'
  <1>1. /\ FlushInv /\ ControlType /\ TypesInv /\ DataTyped /\ MessagesTyped
    BY DEF SalesInv, KeysInv, FlushInv, ControlInv, TypesInv
  <1>2. PICK m : m = Head(wire[s])
    OBVIOUS
  <1>3. /\ wire[s] # << >> /\ m.head = "finalPart" /\ handling[s] = Idle
        /\ wire' = [wire EXCEPT ![s] = Tail(@)]
    BY <1>2 DEF ReceiveFinalPart, Reads, Ring!Receives, Consume
  <1>4. wire[s] \in Seq(Message) /\ m \in Message /\ m.sale \in SaleType
        /\ m.from \in Procs /\ wire'[s] = Tail(wire[s])
    <2>1. wire[s] \in Seq(Message) /\ wire'[s] = Tail(wire[s])
      BY <1>1, <1>3 DEF MessagesTyped
    <2>2. m \in Message
      BY <1>2, <1>3, <2>1, HeadTailProperties
    <2> QED
      BY <1>3, <2>1, <2>2, MessageIs
  <1>5. Serve(s) /\ Next /\ MessagesTyped'
    BY <1>1, NextTypes DEF Serve, Next, TypesInv
  <1>6. \A q \in Procs : \A F \in Weights : SentBy(q, F)' = SentBy(q, F)
    <2>1. ~ SendPartSaleData(s)
      BY <1>1, <1>3 DEF ReceiveFinalPart, SendPartSaleData, Advance, ControlType
    <2> QED
      BY <1>5, <2>1, SentBySame
  <1>7. \A p \in Procs : \A F \in Weights : \A r \in Procs :
          r # s => Load(p, r, F)' = Load(p, r, F)
    BY <1>1, <1>3 DEF Load, MessagesTyped, ReceiveFinalPart, GoOn
  <1>8. ASSUME NEW p \in Procs, NEW F \in Weights
        PROVE  /\ Carried(wire[s], p, s, F) \in Nat
               /\ Carried(wire'[s], p, s, F)
                    = Carried(wire[s], p, s, F) - Value(m, p, s, F)
               /\ InHand(handling[s], p, s, F) = 0
               /\ F[m.sale] \in Nat
    BY <1>2, <1>3, <1>4, CarriedMoves, WeightType DEF InHand, Idle
  <1>9. CASE m.from = s
    <2>1. UNCHANGED <<receivePartData, handling>>
      BY <1>2, <1>9 DEF ReceiveFinalPart
    <2>2. ASSUME NEW p \in Procs, NEW F \in Weights
          PROVE  Load(p, s, F)' = Load(p, s, F)
      <3>1. Hops(s, s) = N /\ Hops(s, p) \in 1..N /\ (Hops(s, p) = N <=> p = s)
        BY RingArithmetic
      <3>2. ~ Due(m, p, s)
        BY <1>9, <3>1, NAssumption DEF Due
      <3>3. Value(m, p, s, F) = 0
        BY <3>2 DEF Value
      <3> QED
        BY <1>8, <2>1, <3>3 DEF Load
    <2> QED
      BY <1>6, <1>7, <2>1, <2>2, FlowSame
  <1>10. CASE m.from # s
    <2>1. /\ receivePartData'
               = [receivePartData EXCEPT ![s] = Insert(@, m.sale)]
          /\ handling' = [handling EXCEPT ![s] = [rest |-> "forward", msg |-> m]]
      BY <1>2, <1>10 DEF ReceiveFinalPart, GoOn
    <2>2. PICK h : h = [rest |-> "forward", msg |-> m]
      OBVIOUS
    <2>3. handling'[s] = h /\ h.rest = "forward" /\ h.msg = m
      BY <1>1, <2>1, <2>2 DEF MessagesTyped
    <2>4. /\ receivePartData'[s] = Insert(receivePartData[s], m.sale)
          /\ \A r \in Procs : r # s => receivePartData'[r] = receivePartData[r]
          /\ receivePartData[s] \in Seq(SaleType) /\ OneEach(receivePartData[s])
      BY <1>1, <2>1 DEF DataTyped
    <2> SUFFICES ASSUME NEW p \in Procs, NEW F \in Weights
                 PROVE  WeighAll(receivePartData'[p], F) + OnWay(p, F)'
                        = SentTo(p, F)'
      BY DEF FlowInv
    <2>5. PICK v \in Nat : v = F[m.sale]
      BY <1>8
    <2>6. OnWay(p, F)' = OnWay(p, F) - Load(p, s, F) + Load(p, s, F)'
      BY <1>1, <1>5, <1>7, OnWayChanges
    <2>7. OnWay(p, F) \in Nat /\ Load(p, s, F) \in Nat
      BY <1>1, OnWayType, LoadType
    <2>8. Load(p, s, F)' = Load(p, s, F) - IF p = s THEN v ELSE 0
      <3>1. Hops(m.from, p) \in 1..N /\ Hops(m.from, s) \in 1..N
            /\ (Hops(m.from, p) = Hops(m.from, s) => p = s)
        BY <1>4, RingArithmetic
      <3>2. CASE p = s
        <4>1. Due(m, p, s) /\ ~ GoesTo(m, p, s)
          BY <1>3, <1>10, <3>1, <3>2, NAssumption DEF Due, GoesTo
        <4>2. Value(m, p, s, F) = v /\ InHand(h, p, s, F) = 0
          BY <2>3, <2>5, <4>1 DEF Value, InHand
        <4>3. /\ Load(p, s, F) = Carried(wire[s], p, s, F) + 0
              /\ Load(p, s, F)' = Carried(wire'[s], p, s, F) + 0
          BY <1>8, <2>3, <4>2 DEF Load
        <4> QED
          BY <1>8, <2>5, <3>2, <4>2, <4>3
      <3>3. CASE p # s
        <4>1. Due(m, p, s) <=> GoesTo(m, p, s)
          BY <3>1, <3>3, NAssumption DEF Due, GoesTo
        <4>2. Value(m, p, s, F) = InHand(h, p, s, F) /\ Value(m, p, s, F) \in Nat
          BY <1>8, <2>3, <4>1 DEF Value, InHand
        <4>3. /\ Load(p, s, F) = Carried(wire[s], p, s, F) + 0
              /\ Load(p, s, F)' = Carried(wire'[s], p, s, F) + InHand(h, p, s, F)
          BY <1>8, <2>3 DEF Load
        <4> QED
          BY <1>8, <3>3, <4>2, <4>3
      <3> QED
        BY <3>2, <3>3
    <2>9. WeighAll(receivePartData'[p], F)
            = WeighAll(receivePartData[p], F) + IF p = s THEN v ELSE 0
      <3>1. WeighAll(receivePartData[p], F) \in Nat
        BY <1>1, WeighNext DEF DataTyped
      <3>2. CASE p = s
        <4>1. WeighAll(Insert(receivePartData[s], m.sale), F)
                = WeighAll(receivePartData[s], F) + F[m.sale]
          BY <1>4, <2>4, InsertAdds
        <4> QED
          BY <2>4, <2>5, <3>2, <4>1
      <3> QED
        BY <2>4, <3>1, <3>2
    <2>10. SentTo(p, F)' = SentTo(p, F)
      <3>1. [q \in 1..N |-> IF q = p THEN 0 ELSE SentBy(q, F)']
              = [q \in 1..N |-> IF q = p THEN 0 ELSE SentBy(q, F)]
        BY <1>6 DEF Procs, Ring!Procs
      <3> QED
        BY <3>1 DEF SentTo
    <2>11. WeighAll(receivePartData[p], F) + OnWay(p, F) = SentTo(p, F)
      BY DEF FlowInv
    <2>12. WeighAll(receivePartData[p], F) \in Nat
      BY <1>1, WeighNext DEF DataTyped
    <2> QED
      BY <2>5, <2>6, <2>7, <2>8, <2>9, <2>10, <2>11, <2>12
  <1> QED
    BY <1>9, <1>10

\* A sum goes on: it is due behind this instance as it was before.
LEMMA ForwardFlow ==
  ASSUME SalesInv, CollectInv, FlowInv, NEW s \in Procs, Forward(s)
  PROVE  FlowInv'
  <1>1. /\ FlushInv /\ ControlType /\ TypesInv /\ DataTyped /\ MessagesTyped
        /\ DataInv
    BY DEF SalesInv, KeysInv, FlushInv, ControlInv, TypesInv
  <1>2. PICK m : m = handling[s].msg
    OBVIOUS
  <1>3. /\ handling[s].rest = "forward" /\ receivePartData' = receivePartData
        /\ wire' = [wire EXCEPT ![Down(s)] = Append(@, m)]
    BY <1>2 DEF Forward, Send, dataVars
  <1>4. handling[s] \in Hands /\ handling[s] # Idle /\ m \in Message
    BY <1>1, <1>2, <1>3 DEF MessagesTyped, Hands, Idle, Message, KeyMsg, SaleMsg
  <1>5. m.head = "finalPart" => m.from \in Procs /\ m.from # s
    <2>1. ASSUME m.head = "finalPart" PROVE m.from \in Procs /\ m.from # s
      <3>1. Belongs(handling[s].msg, 2, s) /\ 2 \in Phases
        BY <1>2, <2>1 DEF Belongs, Kind, Phases
      <3>2. PICK q \in Procs : From(m, 2, q) /\ Placed(2, q, s, 0)
        BY <1>1, <1>2, <1>4, <3>1 DEF DataInv
      <3> QED
        BY <3>2 DEF From, Placed
    <2> QED
      BY <2>1
  <1>6. PICK h : h = handling'[s]
    OBVIOUS
  <1>7. h.rest # "forward"
    BY <1>1, <1>3, <1>6 DEF Forward, MessagesTyped, Idle
  <1>8. Serve(s) /\ Next /\ MessagesTyped'
    BY <1>1, NextTypes DEF Serve, Next, TypesInv
  <1>9. Down(s) \in Procs /\ Down(s) # s
    BY RingArithmetic
  <1>10. \A q \in Procs : \A F \in Weights : SentBy(q, F)' = SentBy(q, F)
    <2>1. step' = step
      BY DEF Forward
    <2>2. ~ SendPartSaleData(s)
      BY <1>1, <2>1 DEF SendPartSaleData, Advance, ControlType
    <2> QED
      BY <1>8, <2>2, SentBySame
  <1> SUFFICES ASSUME NEW p \in Procs, NEW F \in Weights
               PROVE  WeighAll(receivePartData'[p], F) + OnWay(p, F)'
                      = SentTo(p, F)'
    BY DEF FlowInv
  <1>11. PICK v \in Nat : v = InHand(handling[s], p, s, F)
    BY <1>4, HandIs
  <1>12. Value(m, p, Down(s), F) = v
    <2>1. CASE m.head # "finalPart"
      BY <1>2, <1>11, <2>1 DEF InHand, GoesTo, Value, Due
    <2>2. CASE m.head = "finalPart"
      <3>1. /\ Hops(m.from, Down(s)) = Hops(m.from, s) + 1
            /\ Hops(m.from, s) \in 1..N /\ Hops(m.from, p) \in 1..N
        BY <1>5, <2>2, RingArithmetic
      <3>2. Due(m, p, Down(s)) <=> GoesTo(m, p, s)
        BY <2>2, <3>1, NAssumption DEF Due, GoesTo
      <3> QED
        BY <1>2, <1>3, <1>11, <3>2 DEF InHand, Value
    <2> QED
      BY <2>1, <2>2
  <1>13. \A r \in Procs : r # s /\ r # Down(s) => Load(p, r, F)' = Load(p, r, F)
    BY <1>1, <1>3 DEF Load, MessagesTyped, Forward
  <1>14. Load(p, s, F)' = Load(p, s, F) - v
    <2>1. wire'[s] = wire[s]
      BY <1>1, <1>3, <1>9 DEF MessagesTyped
    <2>2. InHand(handling'[s], p, s, F) = 0
      BY <1>6, <1>7 DEF InHand
    <2>3. Carried(wire[s], p, s, F) \in Nat
      BY <1>1, LoadType
    <2> QED
      BY <1>11, <2>1, <2>2, <2>3 DEF Load
  <1>15. Load(p, Down(s), F)' = Load(p, Down(s), F) + v
    <2>1. wire[Down(s)] \in Seq(Message)
          /\ wire'[Down(s)] = Append(wire[Down(s)], m)
          /\ handling'[Down(s)] = handling[Down(s)]
      BY <1>1, <1>3, <1>9 DEF MessagesTyped, Forward
    <2>2. Carried(wire'[Down(s)], p, Down(s), F)
            = Carried(wire[Down(s)], p, Down(s), F) + v
      BY <1>4, <1>12, <2>1, CarriedMoves
    <2>3. Carried(wire[Down(s)], p, Down(s), F) \in Nat
          /\ InHand(handling[Down(s)], p, Down(s), F) \in Nat
      BY <1>1, <1>9, LoadType
    <2> QED
      BY <2>1, <2>2, <2>3 DEF Load
  <1>16. OnWay(p, F)' = (OnWay(p, F) - Load(p, s, F) + Load(p, s, F)')
                          - Load(p, Down(s), F) + Load(p, Down(s), F)'
    BY <1>1, <1>8, <1>9, <1>13, OnWayChanges
  <1>17. /\ OnWay(p, F) \in Nat
         /\ Load(p, Down(s), F) \in Nat /\ Load(p, s, F) \in Nat
    BY <1>1, <1>9, OnWayType, LoadType
  <1>18. OnWay(p, F)' = OnWay(p, F)
    BY <1>14, <1>15, <1>16, <1>17
  <1>19. SentTo(p, F)' = SentTo(p, F)
    <2>1. [q \in 1..N |-> IF q = p THEN 0 ELSE SentBy(q, F)']
            = [q \in 1..N |-> IF q = p THEN 0 ELSE SentBy(q, F)]
      BY <1>10 DEF Procs, Ring!Procs
    <2> QED
      BY <2>1 DEF SentTo
  <1>20. WeighAll(receivePartData[p], F) + OnWay(p, F) = SentTo(p, F)
    BY DEF FlowInv
  <1> QED
    BY <1>3, <1>18, <1>19, <1>20

\* The other steps move no sum.
LEMMA QuietFlow ==
  ASSUME SalesInv, CollectInv, FlowInv, NEW p \in Procs,
         Calculate(p) \/ Synchronise(p) \/ Serve(p),
         ~ SendPartSaleData(p), receivePartData' = receivePartData,
         \A s \in Procs : /\ NoSaleSent(wire[s], wire'[s])
                          /\ \/ handling'[s] = handling[s]
                             \/ NoSaleHeld(handling[s]) /\ NoSaleHeld(handling'[s])
  PROVE  FlowInv'
  <1>1. MessagesTyped
    BY DEF SalesInv, TypesInv
  <1>2. ASSUME NEW s \in Procs
        PROVE  \A q \in Procs : \A F \in Weights :
                 Load(q, s, F)' = Load(q, s, F)
    <2>1. NoSaleSent(wire[s], wire'[s])
      OBVIOUS
    <2>2. \/ handling'[s] = handling[s]
          \/ NoSaleHeld(handling[s]) /\ NoSaleHeld(handling'[s])
      OBVIOUS
    <2> QED
      BY <1>1, <2>1, <2>2, LoadSame
  <1>3. \A q \in Procs : \A F \in Weights : SentBy(q, F)' = SentBy(q, F)
    BY SentBySame
  <1> QED
    BY <1>2, <1>3, FlowSame

LEMMA NextFlow ==
  ASSUME SalesInv, CollectInv, FlowInv, [Next]_vars
  PROVE  FlowInv'
  <1>1. /\ FlushInv /\ ControlType /\ TypesInv /\ DataTyped /\ MessagesTyped
    BY DEF SalesInv, KeysInv, FlushInv, ControlInv, TypesInv
  <1>2. CASE UNCHANGED vars
    BY <1>2 DEF vars, Ring!vars, queryVars, dataVars, FlowInv, OnWay, SentTo,
                Load, SentBy
  <1>3. ASSUME NEW p \in Procs, Calculate(p) \/ Synchronise(p) \/ Serve(p)
        PROVE  FlowInv'
    <2>1. /\ Down(p) \in Procs /\ Down(p) # p
          /\ Down(p) = Ring!Down(p) /\ Procs = Ring!Procs
      BY RingArithmetic DEF Down, Procs
    <2>2. ASSUME NEW m \in Message, m.head # "finalPart", Send(p, m)
          PROVE  \A s \in Procs : NoSaleSent(wire[s], wire'[s])
      BY <1>1, <2>1, <2>2 DEF Send, NoSaleSent, MessagesTyped
    <2>3. ASSUME wire[p] # << >>, Head(wire[p]).head # "finalPart", Consume(p)
          PROVE  \A s \in Procs : NoSaleSent(wire[s], wire'[s])
      BY <1>1, <2>3 DEF Consume, NoSaleSent, MessagesTyped
    <2>4. CASE SendPartSaleData(p)
      BY <2>4, SendFlow
    <2>5. CASE Calculate(p) /\ ~ SendPartSaleData(p)
      <3>1. UNCHANGED <<receivePartData, handling>>
        BY <2>5 DEF Calculate, AddPartKey, SendPartKey, CollectOrder, MergeData,
               SendPartSaleData, GetLocalUnderSale, SendFinalAns, dataVars
      <3>2. CASE SendPartKey(p)
        <4>1. PICK k : k = Parts[p][step[p] \div 2 + 1] /\ Send(p, PartKey(k))
          BY <3>2 DEF SendPartKey
        <4>2. k \in Nat
          BY <1>1, <3>2, <4>1, LoopIndex, OwnKey, KeysAreNumbers DEF SendPartKey
        <4>3. PartKey(k) \in Message /\ PartKey(k).head # "finalPart"
          BY <4>2, IsMessage DEF PartKey
        <4> QED
          BY <2>2, <2>5, <3>1, <4>1, <4>3, QuietFlow
      <3>3. CASE SendFinalAns(p)
        <4>1. PICK m : m = [head |-> "finalAns", ans |-> underSales[p]]
          OBVIOUS
        <4>2. m \in Message /\ m.head # "finalPart"
          BY <1>1, <4>1, IsMessage DEF DataTyped
        <4>3. Send(p, m)
          BY <3>3, <4>1 DEF SendFinalAns
        <4> QED
          BY <2>2, <2>5, <3>1, <4>2, <4>3, QuietFlow
      <3>4. CASE wire' = wire
        BY <2>5, <3>1, <3>4, QuietFlow DEF NoSaleSent
      <3>5. CASE AddPartKey(p) \/ CollectOrder(p) \/ MergeData(p)
                 \/ GetLocalUnderSale(p)
        BY <3>4, <3>5 DEF AddPartKey, CollectOrder, MergeData, GetLocalUnderSale
      <3> QED
        BY <2>5, <3>2, <3>3, <3>5 DEF Calculate
    <2>6. CASE Synchronise(p)
      <3>1. UNCHANGED <<receivePartData, handling>>
        BY <2>6 DEF Synchronise, EnterBarrier, LeaveBarrier, queryVars, dataVars
      <3>2. ~ SendPartSaleData(p)
        <4>1. CASE LeaveBarrier(p)
          BY <1>1, <4>1 DEF LeaveBarrier, Ring!LeaveBarrier, SendPartSaleData,
                      InPhase, ControlType
        <4>2. CASE ~ LeaveBarrier(p)
          <5>1. step' = step
            BY <2>6, <4>2 DEF Synchronise, EnterBarrier, queryVars
          <5> QED
            BY <1>1, <5>1 DEF SendPartSaleData, Advance, ControlType
        <4> QED
          BY <4>1, <4>2
      <3>3. CASE Ring!SendFinish(p)
        <4>1. PICK m : /\ m = Ring!Stamped(p, finish_index[p], Ring!NoDigits)
                       /\ wire' = [wire EXCEPT ![Ring!Down(p)] = Append(@, m)]
          BY <3>3 DEF Ring!SendFinish
        <4>2. m \in Ring!Token
          BY <1>1, <4>1, StampedType, NoDigitsType DEF ControlType
        <4>3. m \in Message /\ m.head # "finalPart"
          BY <4>2, IsMessage DEF Ring!Token
        <4>4. Send(p, m)
          BY <2>1, <4>1 DEF Send
        <4> QED
          BY <2>2, <2>6, <3>1, <3>2, <4>3, <4>4, QuietFlow
      <3>4. CASE wire' = wire
        BY <2>6, <3>1, <3>2, <3>4, QuietFlow DEF NoSaleSent
      <3> QED
        BY <2>6, <3>3, <3>4
           DEF Synchronise, EnterBarrier, LeaveBarrier, Ring!EnterBarrier,
               Ring!LeaveBarrier, Ring!Wait
    <2>7. CASE Serve(p)
      <3>1. ~ SendPartSaleData(p)
        <4>1. step' = step
          BY <1>1, <2>7, ServerKeeps
        <4> QED
          BY <1>1, <4>1 DEF SendPartSaleData, Advance, ControlType
      <3>2. CASE ReceiveFinish(p)
        <4>1. UNCHANGED <<receivePartData, handling>>
          BY <3>2 DEF ReceiveFinish, queryVars, dataVars
        <4>2. /\ wire[p] # << >> /\ Head(wire[p]).head = "finish"
              /\ Head(wire[p]) \in Ring!Token
          <5>1. wire[p] # << >> /\ Head(wire[p]).head = "finish"
            BY <3>2 DEF ReceiveFinish, Reads, Ring!Receives
          <5>2. Head(wire[p]) \in Message
            BY <1>1, <5>1, HeadTailProperties DEF MessagesTyped
          <5> QED
            BY <5>1, <5>2, MessageIs
        <4>3. \A s \in Procs : NoSaleSent(wire[s], wire'[s])
          <5>1. CASE wire' = [wire EXCEPT ![p] = Tail(@)]
            BY <2>3, <4>2, <5>1 DEF Consume
          <5>2. CASE \E m : /\ m \in Message /\ m.head # "finalPart"
                            /\ wire' = [wire EXCEPT ![p] = Tail(@),
                                                    ![Down(p)] = Append(@, m)]
            BY <1>1, <2>1, <4>2, <5>2 DEF NoSaleSent, MessagesTyped
          <5>3. CASE Ring!PassToken(p) \/ Ring!CompleteToken(p)
            <6>1. PICK m : /\ m = Ring!Stamped(p, Head(wire[p]).idx,
                                                  Head(wire[p]).cnt)
                           /\ wire' = [wire EXCEPT ![p] = Tail(@),
                                              ![Ring!Down(p)] = Append(@, m)]
              BY <5>3 DEF Ring!PassToken, Ring!CompleteToken, Ring!Forward
            <6>2. m \in Ring!Token
              BY <4>2, <6>1, StampedType DEF Ring!Token, Procs
            <6>3. m \in Message /\ m.head # "finalPart"
              BY <6>2, IsMessage DEF Ring!Token
            <6> QED
              BY <2>1, <5>2, <6>1, <6>3
          <5> QED
            BY <3>2, <5>1, <5>3
               DEF ReceiveFinish, Ring!HandleFinish, Ring!DropToken
        <4> QED
          BY <2>7, <3>1, <4>1, <4>3, QuietFlow
      <3>3. CASE ReceivePartKey(p)
        <4>1. /\ receivePartData' = receivePartData /\ Consume(p)
              /\ wire[p] # << >> /\ Head(wire[p]).head = "partKey"
              /\ handling[p] = Idle
          BY <3>3 DEF ReceivePartKey, Reads, Ring!Receives
        <4>2. \A s \in Procs : s # p => handling'[s] = handling[s]
          BY <1>1, <3>3 DEF ReceivePartKey, GoOn, MessagesTyped
        <4>3. NoSaleHeld(handling[p]) /\ NoSaleHeld(handling'[p])
          <5>1. NoSaleHeld(handling[p])
            BY <4>1 DEF NoSaleHeld, Idle
          <5>2. \/ handling' = handling
                \/ handling'[p] = [rest |-> "forward", msg |-> Head(wire[p])]
            BY <1>1, <3>3 DEF ReceivePartKey, GoOn, MessagesTyped
          <5> QED
            BY <4>1, <5>1, <5>2 DEF NoSaleHeld
        <4>4. \A s \in Procs : NoSaleSent(wire[s], wire'[s])
          BY <2>3, <4>1
        <4> QED
          BY <2>7, <3>1, <4>1, <4>2, <4>3, <4>4, QuietFlow
      <3>4. CASE ReceiveFinalAns(p)
        <4>1. /\ UNCHANGED <<receivePartData, handling>> /\ Consume(p)
              /\ wire[p] # << >> /\ Head(wire[p]).head = "finalAns"
          BY <3>4 DEF ReceiveFinalAns, Reads, Ring!Receives
        <4>2. \A s \in Procs : NoSaleSent(wire[s], wire'[s])
          BY <2>3, <4>1
        <4> QED
          BY <2>7, <3>1, <4>1, <4>2, QuietFlow
      <3>5. CASE FallThrough(p)
        <4>1. UNCHANGED <<receivePartData, wire>>
          BY <3>5 DEF FallThrough
        <4>2. /\ \A s \in Procs : s # p => handling'[s] = handling[s]
              /\ handling[p].rest = "ans" /\ handling'[p] = Idle
          BY <1>1, <3>5 DEF FallThrough, MessagesTyped
        <4>3. NoSaleHeld(handling[p]) /\ NoSaleHeld(handling'[p])
          BY <4>2 DEF NoSaleHeld, Idle
        <4> QED
          BY <2>7, <3>1, <4>1, <4>2, <4>3, QuietFlow DEF NoSaleSent
      <3>6. CASE Ring!Notify(p) /\ UNCHANGED queryVars
        <4>1. UNCHANGED <<receivePartData, wire, handling>>
          BY <3>6 DEF Ring!Notify, queryVars, dataVars
        <4> QED
          BY <2>7, <3>1, <4>1, QuietFlow DEF NoSaleSent
      <3> QED
        BY <2>7, <3>2, <3>3, <3>4, <3>5, <3>6, ReceiveFlow, ForwardFlow DEF Serve
    <2> QED
      BY <1>3, <2>4, <2>5, <2>6, <2>7
  <1> QED
    BY <1>2, <1>3 DEF Next

LEMMA InitFlow == Init => FlowInv
  <1> SUFFICES ASSUME Init, NEW p \in Procs, NEW F \in Weights
               PROVE  WeighAll(receivePartData[p], F) + OnWay(p, F) = SentTo(p, F)
    BY DEF FlowInv
  <1>1. Procs = 1..N
    BY DEF Procs, Ring!Procs
  <1>2. receivePartData[p] = << >>
        /\ \A s \in Procs : /\ wire[s] = << >> /\ handling[s] = Idle
                            /\ finish_index[s] = 0
    BY DEF Init, Ring!Init, Procs
  <1>3. WeighAll(receivePartData[p], F) = 0
    <2>1. PICK s : s = << >>
      OBVIOUS
    <2>2. [i \in DOMAIN s |-> F[s[i]]] = << >>
      BY <2>1
    <2> QED
      BY <1>2, <2>1, <2>2, TotalEmpty DEF WeighAll
  <1>4. \A s \in Procs : Load(p, s, F) = 0
    <2> SUFFICES ASSUME NEW s \in Procs PROVE Load(p, s, F) = 0
      OBVIOUS
    <2>1. PICK w : w = << >>
      OBVIOUS
    <2>2. [i \in DOMAIN w |-> Value(w[i], p, s, F)] = << >>
      BY <2>1
    <2>3. Carried(wire[s], p, s, F) = 0
      BY <1>2, <2>1, <2>2, TotalEmpty DEF Carried
    <2>4. InHand(handling[s], p, s, F) = 0
      BY <1>2 DEF InHand, Idle
    <2> QED
      BY <2>3, <2>4 DEF Load
  <1>5. \A q \in Procs : SentBy(q, F) = 0
    BY <1>2 DEF SentBy
  <1>6. PICK f : f = [s \in Procs |-> 0]
    OBVIOUS
  <1>7. PICK a : a = [s \in 1..N |-> f[s]]
    OBVIOUS
  <1>8. a \in Seq(Int) /\ Len(a) = N
    BY <1>6, <1>7, OverProcs
  <1>9. \A s \in 1..Len(a) : a[s] = 0
    BY <1>1, <1>6, <1>7, <1>8
  <1>10. Total(a) = 0
    BY <1>8, <1>9, TotalZero
  <1>11. OnWay(p, F) = 0
    <2>1. [s \in 1..N |-> Load(p, s, F)] = a
      BY <1>1, <1>4, <1>6, <1>7
    <2> QED
      BY <1>10, <2>1 DEF OnWay
  <1>12. SentTo(p, F) = 0
    <2>1. [q \in 1..N |-> IF q = p THEN 0 ELSE SentBy(q, F)] = a
      BY <1>1, <1>5, <1>6, <1>7
    <2> QED
      BY <1>10, <2>1 DEF SentTo
  <1> QED
    BY <1>3, <1>11, <1>12

SumsInv == SalesInv /\ CollectInv /\ FlowInv

LEMMA NextSums == SumsInv /\ [Next]_vars => SumsInv'
  <1> SUFFICES ASSUME SumsInv, [Next]_vars PROVE SumsInv'
    OBVIOUS
  <1>1. SalesInv /\ CollectInv /\ FlowInv /\ KeysInv /\ TypesInv /\ StepsDone
        /\ FlushInv
    BY DEF SumsInv, SalesInv, KeysInv
  <1>2. KeysInv'
    BY <1>1, NextKeys
  <1>3. TypesInv' /\ StepsDone'
    BY <1>1, NextTypes, NextSteps
  <1>4. CollectInv' /\ FlowInv'
    BY <1>1, NextCollect, NextFlow
  <1> QED
    BY <1>2, <1>3, <1>4 DEF SumsInv, SalesInv

LEMMA AlwaysSumsInv == Spec => []SumsInv
  <1>1. Init => SumsInv
    BY InitKeys, InitTypes, InitCollect, InitFlow DEF SumsInv, SalesInv
  <1> QED
    BY <1>1, NextSums, PTL DEF Spec

-------------------------------------------------------------------------------
(***************************************************************************)
(* The sums are complete: at an instance whose server has announced the    *)
(* barrier of the sums nothing is on the way any more, and everybody has   *)
(* sent all of its own.                                                    *)
(***************************************************************************)

LEMMA NothingOnWay ==
  ASSUME FlushInv, TypesInv, NEW p \in Procs, Announced(p, 2), NEW F \in Weights
  PROVE  OnWay(p, F) = 0
  <1>1. MessagesTyped /\ DataInv /\ Procs = 1..N
    BY DEF FlushInv, TypesInv, Procs, Ring!Procs
  <1>2. 2 \in Phases /\ \A m, s : Belongs(m, 2, s) <=> m.head = "finalPart"
    BY DEF Phases, Belongs, Kind
  <1>3. ASSUME NEW s \in Procs, NEW m, NEW i,
               \E q \in Procs : From(m, 2, q) /\ Placed(2, q, s, i)
        PROVE  ~ Due(m, p, s) /\ ~ GoesTo(m, p, s)
    <2>1. PICK q \in Procs : From(m, 2, q) /\ Placed(2, q, s, i)
      BY <1>3
    <2>2. m.from = q /\ Hops(q, s) > Hops(q, p)
      BY <2>1 DEF From, Placed, Passed
    <2>3. Hops(q, s) \in 1..N /\ Hops(q, p) \in 1..N
      BY RingArithmetic
    <2> QED
      BY <2>2, <2>3, NAssumption DEF Due, GoesTo
  <1>4. ASSUME NEW s \in Procs PROVE Load(p, s, F) = 0
    <2>1. wire[s] \in Seq(Message)
      BY <1>1 DEF MessagesTyped
    <2>2. PICK n \in Nat : n = Len(wire[s])
      BY <2>1, LenProperties
    <2>3. DOMAIN wire[s] = 1..n
      BY <2>1, <2>2, LenProperties
    <2>4. ASSUME NEW i \in 1..n PROVE Value(wire[s][i], p, s, F) = 0
      <3>1. CASE wire[s][i].head = "finalPart"
        <4>1. \E q \in Procs : From(wire[s][i], 2, q) /\ Placed(2, q, s, i)
          BY <1>1, <1>2, <2>2, <3>1 DEF DataInv
        <4> QED
          BY <1>3, <4>1 DEF Value
      <3>2. CASE wire[s][i].head # "finalPart"
        BY <3>2 DEF Value, Due
      <3> QED
        BY <3>1, <3>2
    <2>5. Carried(wire[s], p, s, F) = 0
      <3>1. PICK t : t = [i \in DOMAIN wire[s] |-> Value(wire[s][i], p, s, F)]
        OBVIOUS
      <3>2. t = [i \in 1..n |-> t[i]] /\ \A i \in 1..n : t[i] \in Int /\ t[i] = 0
        BY <2>3, <2>4, <3>1
      <3>3. t \in [1..n -> Int]
        BY <3>2
      <3>4. t \in Seq(Int) /\ Len(t) = n
        BY <3>3, Tuple
      <3> QED
        BY <3>1, <3>2, <3>4, TotalZero DEF Carried
    <2>6. InHand(handling[s], p, s, F) = 0
      <3>1. CASE /\ handling[s].rest = "forward"
                 /\ handling[s].msg.head = "finalPart"
        <4>1. handling[s] # Idle
          BY <3>1 DEF Idle
        <4>2. \E q \in Procs :
                From(handling[s].msg, 2, q) /\ Placed(2, q, s, 0)
          BY <1>1, <1>2, <3>1, <4>1 DEF DataInv
        <4> QED
          BY <1>3, <4>2 DEF InHand
      <3> QED
        BY <3>1 DEF InHand, GoesTo
    <2> QED
      BY <2>5, <2>6 DEF Load
  <1>5. PICK f : f = [s \in Procs |-> 0]
    OBVIOUS
  <1>6. PICK a : a = [s \in 1..N |-> f[s]]
    OBVIOUS
  <1>7. a \in Seq(Int) /\ Len(a) = N
    BY <1>5, <1>6, OverProcs
  <1>8. \A s \in 1..Len(a) : a[s] = 0
    BY <1>1, <1>5, <1>6, <1>7
  <1>9. Total(a) = 0
    BY <1>7, <1>8, TotalZero
  <1>10. [s \in 1..N |-> Load(p, s, F)] = a
    BY <1>1, <1>4, <1>5, <1>6
  <1> QED
    BY <1>9, <1>10 DEF OnWay

\* What q's orders come to.
OwnSum(q, F) == OrderSum(q, Len(Orders[q]), SaleOf(F))

AllOf(F) == Total([q \in 1..N |-> OwnSum(q, F)])

LEMMA AllSumsSent ==
  ASSUME SalesInv, CollectInv, NEW p \in Procs, Announced(p, 2),
         NEW q \in Procs, NEW F \in Weights
  PROVE  SentBy(q, F) = OwnSum(q, F)
  <1>1. /\ FlushInv /\ ControlInv /\ ControlType /\ TypesInv /\ DataTyped
        /\ StepsDone
    BY DEF SalesInv, KeysInv, FlushInv, ControlInv, TypesInv
  <1>2. 2 \in is_finished[q]
    BY <1>1 DEF ControlInv, AnnouncedByAll
  <1>3. finish_index[q] > 2 \/ (finish_index[q] = 2 /\ pc[q] # "run")
    BY <1>1, <1>2 DEF ControlInv, FinishedIsPrefix, Ring!Inside, ControlType
  <1>4. CASE finish_index[q] > 2
    BY <1>1, <1>4 DEF SentBy, OwnSum, ControlType
  <1>5. CASE finish_index[q] = 2 /\ pc[q] # "run"
    <2>1. /\ partData[q] \in Seq(SaleType) /\ receivePartData[q] \in Seq(SaleType)
          /\ Len(partData[q]) \in Nat /\ Len(Orders[q]) \in Nat
      BY <1>1, OrdersAssumption, LenProperties DEF DataTyped
    <2>2. PICK n \in Nat : n = Len(partData[q])
      BY <2>1
    <2>3. step[q] = n
      BY <1>1, <1>5, <2>2 DEF StepsDone, Work
    <2>4. SentBy(q, F) = Weigh(partData[q], n, F)
      BY <1>5, <2>3 DEF SentBy
    <2>5. Weigh(partData[q], n, F) = WeighAll(partData[q], F)
      BY <2>1, <2>2, WeighNext
    <2>6. Collected(q) = Len(Orders[q]) /\ Merged(q) = 0
      BY <1>5 DEF Collected, Merged
    <2>7. WeighAll(partData[q], F)
            = OwnSum(q, F) + Weigh(receivePartData[q], 0, F)
      BY <2>6 DEF CollectInv, Collects, OwnSum
    <2>8. Weigh(receivePartData[q], 0, F) = 0 /\ OwnSum(q, F) \in Nat
      BY <2>1, WeighNext, SaleOfType, OrderSumNext DEF OwnSum
    <2> QED
      BY <2>4, <2>5, <2>7, <2>8
  <1> QED
    BY <1>3, <1>4, <1>5

LEMMA OwnSumType ==
  ASSUME NEW q \in Procs, NEW F \in Weights
  PROVE  OwnSum(q, F) \in Nat
  <1>1. Len(Orders[q]) \in Nat
    BY OrdersAssumption, LenProperties
  <1> QED
    BY <1>1, SaleOfType, OrderSumNext DEF OwnSum

\* What is received is what the others' orders come to.
LEMMA ReceivedAll ==
  ASSUME SumsInv, NEW p \in Procs, Announced(p, 2), NEW F \in Weights
  PROVE  OwnSum(p, F) + WeighAll(receivePartData[p], F) = AllOf(F)
  <1>1. /\ SalesInv /\ CollectInv /\ FlowInv /\ FlushInv /\ TypesInv
        /\ Procs = 1..N
    BY DEF SumsInv, SalesInv, KeysInv, Procs, Ring!Procs
  <1>2. WeighAll(receivePartData[p], F) \in Nat
    BY <1>1, WeighNext DEF TypesInv, DataTyped
  <1>3. OnWay(p, F) = 0
    BY <1>1, NothingOnWay
  <1>4. WeighAll(receivePartData[p], F) = SentTo(p, F)
    BY <1>1, <1>2, <1>3 DEF FlowInv
  <1>5. \A q \in Procs : OwnSum(q, F) \in Nat
    BY OwnSumType
  <1>6. PICK f : f = [q \in Procs |-> OwnSum(q, F)]
    OBVIOUS
  <1>7. PICK g : g = [q \in Procs |-> IF q = p THEN 0 ELSE OwnSum(q, F)]
    OBVIOUS
  <1>8. (\A q \in Procs : f[q] \in Nat) /\ (\A q \in Procs : g[q] \in Nat)
    BY <1>5, <1>6, <1>7
  <1>9. PICK a : a = [q \in 1..N |-> f[q]]
    OBVIOUS
  <1>10. PICK b : b = [q \in 1..N |-> g[q]]
    OBVIOUS
  <1>11. a \in Seq(Int) /\ Len(a) = N /\ Total(a) \in Nat
    BY <1>8, <1>9, OverProcs
  <1>12. b \in Seq(Int) /\ Len(b) = N
    BY <1>8, <1>10, OverProcs
  <1>13. p \in 1..Len(a) /\ \A q \in 1..Len(a) : q # p => b[q] = a[q]
    BY <1>1, <1>6, <1>7, <1>9, <1>10, <1>11
  <1>14. Total(b) = Total(a) - a[p] + b[p]
    BY <1>11, <1>12, <1>13, TotalReplaced
  <1>15. a[p] = OwnSum(p, F) /\ b[p] = 0 /\ OwnSum(p, F) \in Nat
    BY <1>1, <1>5, <1>6, <1>7, <1>9, <1>10
  <1>16. Total(a) = OwnSum(p, F) + Total(b)
    BY <1>11, <1>14, <1>15
  <1>17. AllOf(F) = Total(a)
    <2>1. [q \in 1..N |-> OwnSum(q, F)] = a
      BY <1>1, <1>6, <1>9
    <2> QED
      BY <2>1 DEF AllOf
  <1>18. SentTo(p, F) = Total(b)
    <2>1. \A q \in Procs : SentBy(q, F) = OwnSum(q, F)
      BY <1>1, AllSumsSent
    <2>2. [q \in 1..N |-> IF q = p THEN 0 ELSE SentBy(q, F)] = b
      BY <1>1, <1>7, <1>10, <2>1
    <2> QED
      BY <2>2 DEF SentTo
  <1> QED
    BY <1>4, <1>16, <1>17, <1>18

\* mergeData is done.
HasMerged(p) ==
  \/ finish_index[p] > 3
  \/ finish_index[p] = 3 /\ step[p] >= Len(receivePartData[p])

LEMMA MergedAll ==
  ASSUME SumsInv, NEW p \in Procs, HasMerged(p), NEW F \in Weights
  PROVE  WeighAll(partData[p], F) = AllOf(F)
  <1>1. /\ SalesInv /\ CollectInv /\ FlushInv /\ TypesInv /\ ControlType
        /\ LeftAnnounced
    BY DEF SumsInv, SalesInv, KeysInv, FlushInv, ControlInv
  <1>2. PICK k \in Nat, n \in Nat, m \in Nat :
          k = finish_index[p] /\ n = step[p] /\ m = Len(receivePartData[p])
    BY <1>1, LenProperties DEF ControlType, TypesInv, DataTyped
  <1>3. Announced(p, 2)
    BY <1>1, <1>2 DEF HasMerged, LeftAnnounced, Announced
  <1>4. Collected(p) = Len(Orders[p])
    BY <1>2 DEF HasMerged, Collected
  <1>5. Weigh(receivePartData[p], Merged(p), F) = WeighAll(receivePartData[p], F)
    <2>1. receivePartData[p] \in Seq(SaleType) /\ m >= m
      BY <1>1 DEF TypesInv, DataTyped
    <2>2. CASE k > 3
      <3>1. Merged(p) = m
        BY <1>2, <2>2 DEF Merged
      <3> QED
        BY <1>2, <2>1, <3>1, WeighNext
    <2>3. CASE k = 3
      <3>1. Merged(p) = n /\ n >= m
        BY <1>2, <2>3 DEF Merged, HasMerged
      <3> QED
        BY <1>2, <2>1, <3>1, WeighNext
    <2> QED
      BY <1>2, <2>2, <2>3 DEF HasMerged
  <1>6. WeighAll(partData[p], F)
          = OwnSum(p, F) + Weigh(receivePartData[p], Merged(p), F)
    BY <1>1, <1>4 DEF CollectInv, Collects, OwnSum
  <1> QED
    BY <1>3, <1>5, <1>6, ReceivedAll

\* The pieces of one part and the number of its orders are weights.
Pieces(k) == [d \in SaleType |-> IF d.partid = k THEN d.totalSale ELSE 0]

Count(k) == [d \in SaleType |-> IF d.partid = k THEN d.orderCount ELSE 0]

LEMMA PiecesAndCount ==
  ASSUME NEW k
  PROVE  Pieces(k) \in Weights /\ Count(k) \in Weights
  <1>1. Pieces(k) \in [SaleType -> Nat] /\ Count(k) \in [SaleType -> Nat]
    <2>1. \A d \in SaleType : d.totalSale \in Nat /\ d.orderCount \in Nat
      BY SaleParts
    <2> QED
      BY <2>1 DEF Pieces, Count
  <1>2. Pieces(k) \in Weights
    <2>1. PICK F : F = Pieces(k)
      OBVIOUS
    <2>2. F \in [SaleType -> Nat]
      BY <1>1, <2>1
    <2>3. ASSUME NEW x \in Nat, NEW a \in Nat, NEW b \in Nat, NEW c \in Nat,
                 NEW e \in Nat
          PROVE  F[Sale(x, a + b, c + e)] = F[Sale(x, a, c)] + F[Sale(x, b, e)]
      <3>1. PICK u \in Nat, v \in Nat : u = a + b /\ v = c + e
        OBVIOUS
      <3>2. F[Sale(x, u, v)] = IF x = k THEN u ELSE 0
        BY <2>1, SaleIs DEF Pieces
      <3>3. F[Sale(x, a, c)] = IF x = k THEN a ELSE 0
        BY <2>1, SaleIs DEF Pieces
      <3>4. F[Sale(x, b, e)] = IF x = k THEN b ELSE 0
        BY <2>1, SaleIs DEF Pieces
      <3>5. F[Sale(x, u, v)] = F[Sale(x, a, c)] + F[Sale(x, b, e)]
        BY <3>1, <3>2, <3>3, <3>4
      <3> QED
        BY <3>1, <3>5
    <2>4. \A x, a, b, c, e \in Nat :
            F[Sale(x, a + b, c + e)] = F[Sale(x, a, c)] + F[Sale(x, b, e)]
      BY <2>3, Zenon
    <2>5. F \in Weights
      BY <2>2, <2>4, Zenon DEF Weights
    <2> QED
      BY <2>1, <2>5
  <1>3. Count(k) \in Weights
    <2>1. PICK F : F = Count(k)
      OBVIOUS
    <2>2. F \in [SaleType -> Nat]
      BY <1>1, <2>1
    <2>3. ASSUME NEW x \in Nat, NEW a \in Nat, NEW b \in Nat, NEW c \in Nat,
                 NEW e \in Nat
          PROVE  F[Sale(x, a + b, c + e)] = F[Sale(x, a, c)] + F[Sale(x, b, e)]
      <3>1. PICK u \in Nat, v \in Nat : u = a + b /\ v = c + e
        OBVIOUS
      <3>2. F[Sale(x, u, v)] = IF x = k THEN v ELSE 0
        BY <2>1, SaleIs DEF Count
      <3>3. F[Sale(x, a, c)] = IF x = k THEN c ELSE 0
        BY <2>1, SaleIs DEF Count
      <3>4. F[Sale(x, b, e)] = IF x = k THEN e ELSE 0
        BY <2>1, SaleIs DEF Count
      <3>5. F[Sale(x, u, v)] = F[Sale(x, a, c)] + F[Sale(x, b, e)]
        BY <3>1, <3>2, <3>3, <3>4
      <3> QED
        BY <3>1, <3>5
    <2>4. \A x, a, b, c, e \in Nat :
            F[Sale(x, a + b, c + e)] = F[Sale(x, a, c)] + F[Sale(x, b, e)]
      BY <2>3, Zenon
    <2>5. F \in Weights
      BY <2>2, <2>4, Zenon DEF Weights
    <2> QED
      BY <2>1, <2>5
  <1> QED
    BY <1>2, <1>3

\* What they come to over the orders.
LEMMA OrdersComeTo ==
  ASSUME NEW k \in AllKeys, NEW q \in Procs
  PROVE  /\ OwnSum(q, Pieces(k)) = Ordered(q, k)
         /\ OwnSum(q, Count(k)) = NumberOf(q, k)
  <1>1. PICK n \in Nat : n = Len(Orders[q])
    BY OrdersAssumption, LenProperties
  <1>2. DOMAIN Orders[q] = 1..n /\ \A i \in 1..n : Orders[q][i] \in Order
    BY <1>1, OrdersAssumption, LenProperties, OwnOrder
  <1>3. ASSUME NEW o \in Order
        PROVE  /\ SaleOf(Pieces(k))[o]
                    = IF o.lPartkey = k THEN o.lQuantity ELSE 0
               /\ SaleOf(Count(k))[o] = IF o.lPartkey = k THEN 1 ELSE 0
    <2>1. PICK x \in Nat, a \in Nat, c \in Nat :
            x = o.lPartkey /\ a = o.lQuantity /\ c = 1
      BY DEF Order
    <2>2. /\ Pieces(k)[Sale(x, a, c)] = IF x = k THEN a ELSE 0
          /\ Count(k)[Sale(x, a, c)] = IF x = k THEN c ELSE 0
      BY SaleIs DEF Pieces, Count
    <2>3. /\ SaleOf(Pieces(k))[o] = Pieces(k)[Sale(x, a, c)]
          /\ SaleOf(Count(k))[o] = Count(k)[Sale(x, a, c)]
      BY <2>1, Zenon DEF SaleOf
    <2> QED
      BY <2>1, <2>2, <2>3
  <1>4. /\ [i \in DOMAIN Orders[q] |->
              IF i <= n /\ Orders[q][i].lPartkey \in AllKeys
                THEN SaleOf(Pieces(k))[Orders[q][i]] ELSE 0]
           = [i \in DOMAIN Orders[q] |->
                IF Orders[q][i].lPartkey = k THEN Orders[q][i].lQuantity ELSE 0]
        /\ [i \in DOMAIN Orders[q] |->
              IF i <= n /\ Orders[q][i].lPartkey \in AllKeys
                THEN SaleOf(Count(k))[Orders[q][i]] ELSE 0]
           = [i \in DOMAIN Orders[q] |->
                IF Orders[q][i].lPartkey = k THEN 1 ELSE 0]
    <2>1. \A i \in 1..n : i <= n
      OBVIOUS
    <2> QED
      BY <1>2, <1>3, <2>1
  <1> QED
    BY <1>1, <1>4 DEF OwnSum, OrderSum, Ordered, NumberOf

\* The entry of a part in merged sums.
LEMMA EntryIsSum ==
  ASSUME SumsInv, NEW p \in Procs, HasMerged(p), NEW k \in AllKeys,
         Has(partData[p], k)
  PROVE  EntryOf(partData[p], k) = SumOf[k]
  <1>1. partData[p] \in Seq(SaleType) /\ OneEach(partData[p])
    BY DEF SumsInv, SalesInv, TypesInv, DataTyped
  <1>2. PICK s \in Seq(SaleType) : s = partData[p]
    BY <1>1
  <1>3. PICK n \in Nat : n = Len(s)
    BY LenProperties
  <1>4. DOMAIN s = 1..n /\ \A i \in 1..n : s[i] \in SaleType
    BY <1>3, LenProperties, ElementOfSeq
  <1>5. PICK j \in 1..n : s[j].partid = k
    BY <1>2, <1>4 DEF Has
  <1>6. \A i \in 1..n : i # j => s[i].partid # k
    BY <1>1, <1>2, <1>4, <1>5 DEF OneEach
  <1>7. (CHOOSE i \in DOMAIN s : s[i].partid = k) = j
    BY <1>4, <1>5, <1>6
  <1>8. EntryOf(s, k) = s[j]
    BY <1>7 DEF EntryOf
  <1>9. ASSUME NEW F \in Weights,
               \A i \in 1..n : i # j => F[s[i]] = 0
        PROVE  WeighAll(s, F) = F[s[j]]
    <2>1. PICK t : t = [i \in DOMAIN s |-> F[s[i]]]
      OBVIOUS
    <2>2. F \in [SaleType -> Int]
      BY WeightType
    <2>3. t \in Seq(Int) /\ Len(t) = n
      BY <1>3, <2>1, <2>2, MappedType
    <2>4. j \in 1..Len(t) /\ \A i \in 1..Len(t) : i # j => t[i] = 0
      BY <1>4, <1>9, <2>1, <2>3
    <2>5. Total(t) = t[j]
      BY <2>3, <2>4, TotalSingle
    <2> QED
      BY <1>4, <2>1, <2>5 DEF WeighAll
  <1>10. /\ \A i \in 1..n : Pieces(k)[s[i]] = IF i = j THEN s[i].totalSale ELSE 0
         /\ \A i \in 1..n : Count(k)[s[i]] = IF i = j THEN s[i].orderCount ELSE 0
    BY <1>4, <1>5, <1>6 DEF Pieces, Count
  <1>11. s[j].totalSale = AllOf(Pieces(k)) /\ s[j].orderCount = AllOf(Count(k))
    <2>1. WeighAll(s, Pieces(k)) = s[j].totalSale
          /\ WeighAll(s, Count(k)) = s[j].orderCount
      BY <1>9, <1>10, PiecesAndCount
    <2>2. WeighAll(s, Pieces(k)) = AllOf(Pieces(k))
          /\ WeighAll(s, Count(k)) = AllOf(Count(k))
      BY <1>2, PiecesAndCount, MergedAll
    <2> QED
      BY <2>1, <2>2
  <1>12. /\ AllOf(Pieces(k)) = Total([q \in 1..N |-> Ordered(q, k)])
         /\ AllOf(Count(k)) = Total([q \in 1..N |-> NumberOf(q, k)])
    <2>1. Procs = 1..N
      BY DEF Procs, Ring!Procs
    <2>2. /\ [q \in 1..N |-> OwnSum(q, Pieces(k))]
               = [q \in 1..N |-> Ordered(q, k)]
          /\ [q \in 1..N |-> OwnSum(q, Count(k))]
               = [q \in 1..N |-> NumberOf(q, k)]
      BY <2>1, OrdersComeTo
    <2> QED
      BY <2>2 DEF AllOf
  <1>13. s[j] = Sale(k, s[j].totalSale, s[j].orderCount)
    BY <1>4, <1>5, SaleParts
  <1>14. s[j] = SumOf[k]
    BY <1>11, <1>12, <1>13 DEF SumOf
  <1> QED
    BY <1>2, <1>8, <1>14

\* The sums of the parts an instance has orders of, once merged.
LEMMA OrdersHaveSums ==
  ASSUME SumsInv, NEW p \in Procs, HasMerged(p), NEW i \in DOMAIN orders[p]
  PROVE  /\ orders[p][i].lPartkey \in AllKeys
         /\ EntryOf(partData[p], orders[p][i].lPartkey)
              = SumOf[orders[p][i].lPartkey]
  <1>1. /\ orders[p][i].lPartkey \in AllKeys
        /\ Has(partData[p], orders[p][i].lPartkey)
    BY DEF SumsInv, CollectInv, Collects
  <1> QED
    BY <1>1, EntryIsSum

\* Every instance that has merged has the sums over the orders of everybody:
\* none was lost on the way round the ring, none counted twice.
THEOREM SumsAreRight == Spec => []SumsAgree
  <1>1. SumsInv => SumsAgree
    BY OrdersHaveSums DEF SumsAgree, HasMerged
  <1> QED
    BY <1>1, AlwaysSumsInv, PTL

-------------------------------------------------------------------------------
(***************************************************************************)
(* The answer.  What an instance has, and what is still in its stream, are *)
(* its own share and, once the instance above it has sent, what that one   *)
(* has gathered.                                                           *)
(***************************************************************************)

\* getLocalUnderSale is done.
Counted(p) ==
  \/ finish_index[p] > 3
  \/ finish_index[p] = 3 /\ step[p] > Len(receivePartData[p])

\* The d-th stop has sent what it has gathered.
SentOn(d) ==
  \/ finish_index[Stop(d)] > d + 4
  \/ finish_index[Stop(d)] = d + 4 /\ step[Stop(d)] # 0

FromAbove(d) == IF d > 0 /\ SentOn(d - 1) THEN Gathered[d - 1] ELSE 0

Answers(w) ==
  Total([i \in DOMAIN w |-> IF w[i].head = "finalAns" THEN w[i].ans ELSE 0])

NoAnswers(w) == \A i \in DOMAIN w : w[i].head # "finalAns"

StopInv(d) ==
  /\ Counted(Stop(d)) =>
       underSales[Stop(d)] + Answers(wire[Stop(d)])
         = Share[Stop(d)] + FromAbove(d)
  /\ ~ (d > 0 /\ SentOn(d - 1)) => NoAnswers(wire[Stop(d)])

AnswerInv == \A d \in 0..N - 1 : StopInv(d)

\* A stream that is sent to or read, when no answer is concerned.
NoAnswerSent(w, w2) ==
  \/ w2 = w
  \/ \E e \in Message : e.head # "finalAns" /\ w2 = Append(w, e)
  \/ w # << >> /\ Head(w).head # "finalAns" /\ w2 = Tail(w)

LEMMA AnswersMove ==
  ASSUME NEW w \in Seq(Message)
  PROVE  /\ Answers(w) \in Nat
         /\ NoAnswers(w) => Answers(w) = 0
         /\ \A a \in Nat : Answers(Append(w, [head |-> "finalAns", ans |-> a]))
                           = Answers(w) + a
         /\ w # << >> /\ Head(w).head = "finalAns" =>
              /\ Answers(Tail(w)) = Answers(w) - Head(w).ans
              /\ Head(w).ans \in Nat /\ ~ NoAnswers(w)
         /\ \A w2 : NoAnswerSent(w, w2) =>
              /\ Answers(w2) = Answers(w)
              /\ NoAnswers(w) => NoAnswers(w2)
  <1>1. PICK V : V = [m \in Message |-> IF m.head = "finalAns" THEN m.ans ELSE 0]
    OBVIOUS
  <1>2. V \in [Message -> Nat] /\ V \in [Message -> Int]
    BY <1>1, MessageIs
  <1>3. ASSUME NEW v \in Seq(Message)
        PROVE  Answers(v) = Total([i \in DOMAIN v |-> V[v[i]]])
    <2>1. \A i \in DOMAIN v : v[i] \in Message
      BY ElementOfSeq, LenProperties
    <2>2. [i \in DOMAIN v |-> IF v[i].head = "finalAns" THEN v[i].ans ELSE 0]
            = [i \in DOMAIN v |-> V[v[i]]]
      BY <1>1, <2>1
    <2> QED
      BY <2>2 DEF Answers
  <1>4. PICK n \in Nat : n = Len(w)
    BY LenProperties
  <1>5. DOMAIN w = 1..n /\ \A i \in 1..n : w[i] \in Message
    BY <1>4, LenProperties, ElementOfSeq
  <1>6. PICK t : t = [i \in DOMAIN w |-> V[w[i]]]
    OBVIOUS
  <1>7. t \in Seq(Nat) /\ t \in Seq(Int) /\ Len(t) = n
    <2>1. t = [i \in 1..n |-> t[i]] /\ \A i \in 1..n : t[i] \in Nat
      BY <1>2, <1>5, <1>6
    <2>2. t \in [1..n -> Nat] /\ t \in [1..n -> Int]
      BY <2>1
    <2> QED
      BY <2>2, Tuple
  <1>8. Answers(w) \in Nat
    BY <1>3, <1>6, <1>7, TotalNat
  <1>9. ASSUME NoAnswers(w) PROVE Answers(w) = 0
    <2>1. \A i \in 1..Len(t) : t[i] = 0
      BY <1>1, <1>5, <1>6, <1>7, <1>9 DEF NoAnswers
    <2> QED
      BY <1>3, <1>6, <1>7, <2>1, TotalZero
  <1>10. ASSUME NEW e \in Message
         PROVE  /\ Answers(Append(w, e)) = Answers(w) + V[e]
                /\ e.head # "finalAns" /\ NoAnswers(w) => NoAnswers(Append(w, e))
    <2>1. PICK v \in Seq(Message) : v = Append(w, e)
      BY AppendProperties
    <2>2. Total([i \in DOMAIN v |-> V[v[i]]])
            = Total([i \in DOMAIN w |-> V[w[i]]]) + V[e]
      BY <1>2, <2>1, TotalMapAppend
    <2>3. \A i \in DOMAIN v : (i \in DOMAIN w /\ v[i] = w[i]) \/ v[i] = e
      BY <2>1, AppendProperties, LenProperties
    <2> QED
      BY <1>3, <2>1, <2>2, <2>3 DEF NoAnswers
  <1>11. ASSUME w # << >>
         PROVE  /\ Answers(Tail(w)) = Answers(w) - V[Head(w)]
                /\ Head(w) \in Message /\ Head(w) = w[1] /\ 1 \in DOMAIN w
                /\ NoAnswers(w) => NoAnswers(Tail(w))
    <2>1. Tail(w) \in Seq(Message) /\ Head(w) \in Message
      BY <1>11, HeadTailProperties
    <2>2. PICK v \in Seq(Message) : v = Tail(w)
      BY <2>1
    <2>3. Total([i \in DOMAIN v |-> V[v[i]]])
            = Total([i \in DOMAIN w |-> V[w[i]]]) - V[Head(w)]
      BY <1>2, <1>11, <2>2, TotalMapTail
    <2>4. /\ Head(w) = w[1] /\ 1 \in DOMAIN w
          /\ \A i \in DOMAIN v : i + 1 \in DOMAIN w /\ v[i] = w[i + 1]
      BY <1>11, <2>2, TailElements, LenProperties
    <2> QED
      BY <1>3, <2>1, <2>2, <2>3, <2>4 DEF NoAnswers
  <1>12. ASSUME NEW a \in Nat
         PROVE  Answers(Append(w, [head |-> "finalAns", ans |-> a]))
                = Answers(w) + a
    <2>1. PICK e : e = [head |-> "finalAns", ans |-> a]
      OBVIOUS
    <2>2. e \in Message /\ e.head = "finalAns" /\ e.ans = a
      BY <2>1, IsMessage
    <2>3. V[e] = a
      BY <1>1, <2>2
    <2> QED
      BY <1>10, <2>1, <2>2, <2>3
  <1>13. ASSUME w # << >>, Head(w).head = "finalAns"
         PROVE  /\ Answers(Tail(w)) = Answers(w) - Head(w).ans
                /\ Head(w).ans \in Nat /\ ~ NoAnswers(w)
    BY <1>1, <1>11, <1>13, MessageIs DEF NoAnswers
  <1>14. ASSUME NEW w2, NoAnswerSent(w, w2)
         PROVE  Answers(w2) = Answers(w) /\ (NoAnswers(w) => NoAnswers(w2))
    <2>1. CASE \E e \in Message : e.head # "finalAns" /\ w2 = Append(w, e)
      <3>1. PICK e \in Message : e.head # "finalAns" /\ w2 = Append(w, e)
        BY <2>1
      <3>2. V[e] = 0
        BY <1>1, <3>1
      <3> QED
        BY <1>8, <1>10, <3>1, <3>2
    <2>2. CASE w # << >> /\ Head(w).head # "finalAns" /\ w2 = Tail(w)
      <3>1. V[Head(w)] = 0
        BY <1>1, <1>11, <2>2
      <3> QED
        BY <1>8, <1>11, <2>2, <3>1
    <2> QED
      BY <1>14, <2>1, <2>2 DEF NoAnswerSent
  <1> QED
    BY <1>8, <1>9, <1>12, <1>13, <1>14

\* getLocalUnderSale finds the share of the instance.
LEMMA LocalIsShare ==
  ASSUME SumsInv, NEW p \in Procs, HasMerged(p), finish_index[p] = 3
  PROVE  UnderSale(orders[p], partData[p]) = Share[p]
  <1>1. orders[p] \in Seq(Order) /\ CollectInv
    BY DEF SumsInv, SalesInv, TypesInv, DataTyped
  <1>2. \A i \in DOMAIN orders[p] : orders[p][i] \in Order
    BY <1>1, ElementOfSeq, LenProperties
  <1>3. PICK G : G = [o \in Order |-> IF o.lPartkey \in AllKeys
                                        THEN Undersold(o, SumOf[o.lPartkey])
                                        ELSE 0]
    OBVIOUS
  <1>4. G \in [Order -> Nat]
    <2>1. \A o \in Order : \A e : Undersold(o, e) \in Nat
      BY DEF Undersold, Order
    <2> QED
      BY <1>3, <2>1
  <1>5. [i \in DOMAIN orders[p] |->
           Undersold(orders[p][i], EntryOf(partData[p], orders[p][i].lPartkey))]
          = [i \in DOMAIN orders[p] |-> G[orders[p][i]]]
    BY <1>2, <1>3, OrdersHaveSums
  <1>6. UnderSale(orders[p], partData[p]) = TotalOf(orders[p], G)
    BY <1>5 DEF UnderSale, TotalOf
  <1>7. Collected(p) = Len(Orders[p])
    BY DEF Collected
  <1>8. TotalOf(orders[p], G) = OrderSum(p, Len(Orders[p]), G)
    BY <1>1, <1>4, <1>7 DEF CollectInv, Collects
  <1>9. OrderSum(p, Len(Orders[p]), G) = Share[p]
    <2>1. PICK n \in Nat : n = Len(Orders[p])
      BY OrdersAssumption, LenProperties
    <2>2. /\ DOMAIN Orders[p] = 1..n
          /\ \A i \in 1..n : Orders[p][i] \in Order /\ i <= n
      BY <2>1, OrdersAssumption, LenProperties, OwnOrder
    <2>3. [i \in DOMAIN Orders[p] |->
             IF i <= n /\ Orders[p][i].lPartkey \in AllKeys
               THEN G[Orders[p][i]] ELSE 0]
            = [i \in DOMAIN Orders[p] |->
                 IF Orders[p][i].lPartkey \in AllKeys
                   THEN Undersold(Orders[p][i], SumOf[Orders[p][i].lPartkey])
                   ELSE 0]
      BY <1>3, <2>2
    <2> QED
      BY <2>1, <2>3 DEF OrderSum, Share
  <1> QED
    BY <1>6, <1>8, <1>9

\* The shares add up on the way.
LEMMA GatheredNext ==
  /\ Share \in [Procs -> Nat]
  /\ Gathered[0] = Share[Stop(0)]
  /\ \A d \in 1..N - 1 : Gathered[d] = Gathered[d - 1] + Share[Stop(d)]
  /\ \A d \in 0..N - 1 : Gathered[d] \in Nat
  <1>1. N \in Nat /\ N >= 2
    BY NAssumption
  <1>2. ASSUME NEW p \in Procs PROVE Share[p] \in Nat
    <2>1. PICK n \in Nat : n = Len(Orders[p])
      BY OrdersAssumption, LenProperties
    <2>2. DOMAIN Orders[p] = 1..n /\ \A i \in 1..n : Orders[p][i] \in Order
      BY <2>1, OrdersAssumption, LenProperties, OwnOrder
    <2>3. \A o \in Order : \A e : Undersold(o, e) \in Nat
      BY DEF Undersold, Order
    <2>4. PICK t : t = [i \in DOMAIN Orders[p] |->
                          IF Orders[p][i].lPartkey \in AllKeys
                            THEN Undersold(Orders[p][i],
                                           SumOf[Orders[p][i].lPartkey])
                            ELSE 0]
      OBVIOUS
    <2>5. t = [i \in 1..n |-> t[i]] /\ \A i \in 1..n : t[i] \in Nat
      BY <2>2, <2>3, <2>4
    <2>6. t \in [1..n -> Nat]
      BY <2>5
    <2>7. t \in Seq(Nat)
      BY <2>6, Tuple
    <2> QED
      BY <2>4, <2>7, TotalNat DEF Share
  <1>3. Share \in [Procs -> Nat]
    BY <1>2 DEF Share
  <1>4. ASSUME NEW d \in 0..N - 1, NEW t,
               t = [i \in 1..d + 1 |-> Share[Stop(i - 1)]]
        PROVE  /\ t \in Seq(Nat) /\ t \in Seq(Int) /\ Len(t) = d + 1
               /\ \A i \in 1..d + 1 : t[i] = Share[Stop(i - 1)] /\ t[i] \in Nat
               /\ Gathered[d] = Total(t)
    <2>1. \A i \in 1..d + 1 : i - 1 \in 0..N - 1
      BY <1>1
    <2>2. \A i \in 1..d + 1 : Share[Stop(i - 1)] \in Nat
      BY <1>3, <2>1, StopArithmetic
    <2>3. PICK n \in Nat : n = d + 1
      BY <1>1
    <2>4. t = [i \in 1..n |-> t[i]] /\ \A i \in 1..n : t[i] \in Nat
      BY <1>4, <2>2, <2>3
    <2>5. t \in [1..n -> Nat] /\ t \in [1..n -> Int]
      BY <2>4
    <2>6. t \in Seq(Nat) /\ t \in Seq(Int) /\ Len(t) = n
      BY <2>5, Tuple
    <2> QED
      BY <1>4, <2>2, <2>3, <2>6 DEF Gathered
  <1>5. \A d \in 0..N - 1 : Gathered[d] \in Nat
    BY <1>4, TotalNat
  <1>6. Gathered[0] = Share[Stop(0)]
    <2>1. PICK d \in 0..N - 1 : d = 0
      BY <1>1
    <2>2. PICK t : t = [i \in 1..d + 1 |-> Share[Stop(i - 1)]]
      OBVIOUS
    <2>3. t \in Seq(Int) /\ Len(t) = 1 /\ Gathered[d] = Total(t)
      <3>1. t \in Seq(Int) /\ Len(t) = d + 1 /\ Gathered[d] = Total(t)
        BY <1>4, <2>2
      <3> QED
        BY <2>1, <3>1
    <2>4. t[1] = Share[Stop(d)]
      <3>1. 1 \in 1..d + 1 /\ 1 - 1 = d
        BY <2>1
      <3> QED
        BY <1>4, <2>2, <3>1
    <2>5. Total(t) = t[1]
      <3>1. 1 \in 1..Len(t) /\ \A j \in 1..Len(t) : j # 1 => t[j] = 0
        BY <2>3
      <3> QED
        BY <2>3, <3>1, TotalSingle
    <2> QED
      BY <2>1, <2>3, <2>4, <2>5
  <1>7. ASSUME NEW d \in 1..N - 1
        PROVE  Gathered[d] = Gathered[d - 1] + Share[Stop(d)]
    <2>1. PICK c \in 0..N - 1 : c = d - 1
      BY <1>1
    <2>2. d \in 0..N - 1 /\ d = c + 1
      BY <1>1, <2>1
    <2>3. PICK s : s = [i \in 1..c + 1 |-> Share[Stop(i - 1)]]
      OBVIOUS
    <2>4. PICK t : t = [i \in 1..d + 1 |-> Share[Stop(i - 1)]]
      OBVIOUS
    <2>5. /\ s \in Seq(Nat) /\ s \in Seq(Int) /\ Len(s) = d
          /\ \A i \in 1..d : s[i] = Share[Stop(i - 1)]
          /\ Gathered[c] = Total(s)
      BY <1>4, <2>1, <2>2, <2>3
    <2>6. /\ t \in Seq(Nat) /\ Len(t) = d + 1
          /\ \A i \in 1..d + 1 : t[i] = Share[Stop(i - 1)]
          /\ Gathered[d] = Total(t)
      BY <1>4, <2>2, <2>4
    <2>7. PICK x \in Nat : x = Share[Stop(d)]
      BY <1>3, <2>2, StopArithmetic
    <2>8. t[d + 1] = x
      <3>1. d + 1 \in 1..d + 1 /\ (d + 1) - 1 = d
        BY <1>1
      <3> QED
        BY <2>6, <2>7, <3>1
    <2>9. t = Append(s, x)
      <3>1. PICK u : u = Append(s, x)
        OBVIOUS
      <3>2. /\ u \in Seq(Nat) /\ Len(u) = d + 1 /\ u[d + 1] = x
            /\ \A i \in 1..d : u[i] = s[i]
        BY <2>5, <2>7, <3>1, AppendProperties
      <3>3. ASSUME NEW i \in 1..Len(t) PROVE t[i] = u[i]
        <4>1. d \in Nat /\ i \in 1..d + 1
          BY <1>1, <2>6
        <4>2. CASE i = d + 1
          BY <2>8, <3>2, <4>2
        <4>3. CASE i # d + 1
          <5>1. i \in 1..d
            BY <4>1, <4>3
          <5> QED
            BY <2>5, <2>6, <3>2, <4>1, <5>1
        <4> QED
          BY <4>2, <4>3
      <3>4. DOMAIN t = 1..Len(t) /\ DOMAIN u = 1..Len(u)
        BY <2>6, <3>2, LenProperties
      <3>5. t = u
        BY <2>6, <3>2, <3>3, SeqEqual
      <3> QED
        BY <3>1, <3>5
    <2>10. Total(t) = Total(s) + x
      BY <2>5, <2>7, <2>9, TotalAppend
    <2> QED
      BY <2>1, <2>5, <2>6, <2>7, <2>10
  <1> QED
    BY <1>3, <1>5, <1>6, <1>7

LEMMA NextStop ==
  ASSUME NEW d \in 1..N - 1
  PROVE  /\ d - 1 \in 0..N - 2 /\ d - 1 \in 0..N - 1 /\ d \in 0..N - 1
         /\ Stop(d) \in Procs /\ Stop(d - 1) \in Procs /\ Stop(d - 1) # Stop(d)
         /\ Down(Stop(d - 1)) = Stop(d)
         /\ d + 3 \in Phases /\ d + 3 \in 4..N + 2
         /\ N \in Nat /\ N >= 2
  <1>1. N \in Nat /\ N >= 2
    BY NAssumption
  <1>2. PICK c \in 0..N - 2 : c = d - 1
    BY <1>1
  <1>3. c \in 0..N - 1 /\ d \in 0..N - 1 /\ d = c + 1 /\ c # d
    BY <1>1, <1>2
  <1>4. d + 3 \in 4..N + 2
    BY <1>1
  <1>5. Stop(c) \in Procs /\ Stop(d) \in Procs /\ Stop(c) # Stop(d)
        /\ Down(Stop(c)) = Stop(d)
    BY <1>3, StopArithmetic
  <1> QED
    BY <1>1, <1>2, <1>3, <1>4, <1>5 DEF Phases

\* A stop sends its answer when everybody has left the phase before.
LEMMA SentOnLate ==
  ASSUME ControlInv, NEW d \in 1..N - 1, SentOn(d - 1), NEW p \in Procs
  PROVE  finish_index[p] > d + 2 \/ (finish_index[p] = d + 2 /\ pc[p] # "run")
  <1>1. PICK k \in Nat : k = d + 2
    BY NextStop
  <1>2. Stop(d - 1) \in Procs /\ finish_index[Stop(d - 1)] \in Nat
    BY NextStop DEF ControlInv, ControlType
  <1>3. finish_index[Stop(d - 1)] > k
    BY <1>1, <1>2, NextStop DEF SentOn
  <1>4. k \in is_finished[p]
    BY <1>2, <1>3 DEF ControlInv, LeftAnnounced, AnnouncedByAll, Announced
  <1>5. finish_index[p] > k \/ (finish_index[p] = k /\ pc[p] # "run")
    BY <1>4 DEF ControlInv, ControlType, FinishedIsPrefix, Ring!Inside
  <1> QED
    BY <1>1, <1>5

\* An instance that has left the barrier of the phase of the stop above has
\* what that one has gathered, and its own share.
LEMMA AnswerHasCome ==
  ASSUME SumsInv, AnswerInv, NEW d \in 0..N - 1, finish_index[Stop(d)] > d + 3
  PROVE  /\ underSales[Stop(d)] = Gathered[d]
         /\ NoAnswers(wire[Stop(d)])
  <1>1. /\ FlushInv /\ ControlInv /\ ControlType /\ TypesInv /\ StepsDone
    BY DEF SumsInv, SalesInv, KeysInv, FlushInv, ControlInv
  <1>2. PICK p \in Procs : p = Stop(d)
    BY StopArithmetic
  <1>3. /\ wire[p] \in Seq(Message) /\ underSales[p] \in Nat
        /\ finish_index[p] \in Nat
    BY <1>1 DEF TypesInv, MessagesTyped, DataTyped, ControlType
  <1>4. finish_index[p] > 3 /\ Counted(p)
    BY <1>2, <1>3 DEF Counted
  <1>5. underSales[p] + Answers(wire[p]) = Share[p] + FromAbove(d)
    BY <1>2, <1>4 DEF AnswerInv, StopInv
  <1>6. ASSUME NoAnswers(wire[p]) PROVE underSales[p] = Share[p] + FromAbove(d)
    BY <1>3, <1>5, <1>6, AnswersMove
  <1>7. CASE d = 0
    <2>1. FromAbove(d) = 0
      BY <1>7 DEF FromAbove
    <2>2. NoAnswers(wire[p])
      BY <1>2, <1>7 DEF AnswerInv, StopInv
    <2>3. underSales[p] = Share[p]
      BY <1>6, <2>1, <2>2, GatheredNext
    <2> QED
      BY <1>2, <1>7, <2>2, <2>3, GatheredNext
  <1>8. CASE d # 0
    <2>1. d \in 1..N - 1
      BY <1>8
    <2>2. PICK k \in 4..N + 2 : k = d + 3
      BY <2>1, NextStop
    <2>3. k \in Phases /\ k \in Nat /\ k - 3 = d
      BY <2>1, <2>2, NextStop
    <2>4. Announced(p, k)
      BY <1>1, <1>2, <2>2, <2>3 DEF ControlInv, LeftAnnounced, Announced
    <2>5. \A i \in 1..Len(wire[p]) : ~ Belongs(wire[p][i], k, p)
      BY <1>1, <2>3, <2>4, NothingAnnouncedComes
    <2>6. NoAnswers(wire[p])
      BY <1>2, <1>3, <2>2, <2>3, <2>5, LenProperties DEF NoAnswers, Belongs, Kind
    <2>7. SentOn(d - 1)
      <3>1. PICK q \in Procs : q = Stop(d - 1)
        BY <2>1, NextStop
      <3>2. k \in is_finished[q]
        BY <1>1, <2>4 DEF ControlInv, AnnouncedByAll
      <3>3. finish_index[q] > k \/ (finish_index[q] = k /\ pc[q] # "run")
        BY <1>1, <2>3, <3>2 DEF ControlInv, ControlType, FinishedIsPrefix,
                                Ring!Inside
      <3>4. ASSUME finish_index[q] = k, pc[q] # "run" PROVE step[q] = 1
        <4>1. step[q] = Work(q)
          BY <1>1, <3>4 DEF StepsDone
        <4>2. k - 4 \in 0..N - 2 /\ k - 4 = d - 1
          BY <2>1, <2>2, NextStop
        <4>3. Now[k - 4] = q
          BY <3>1, <4>2, NowIsStop
        <4>4. Work(q) = 1
          BY <2>2, <2>3, <3>4, <4>3, NextStop DEF Work
        <4> QED
          BY <4>1, <4>4
      <3>5. d - 1 + 4 = k
        BY <2>2
      <3> QED
        BY <3>1, <3>3, <3>4, <3>5 DEF SentOn
    <2>8. FromAbove(d) = Gathered[d - 1]
      BY <2>1, <2>7 DEF FromAbove
    <2>9. underSales[p] = Share[p] + Gathered[d - 1]
      BY <1>6, <2>6, <2>8
    <2>10. Share[p] \in Nat /\ Gathered[d - 1] \in Nat
      BY <2>1, GatheredNext, NextStop
    <2>11. Gathered[d] = Gathered[d - 1] + Share[p]
      BY <1>2, <2>1, GatheredNext
    <2> QED
      BY <1>2, <2>6, <2>9, <2>10, <2>11
  <1> QED
    BY <1>7, <1>8

\* What a step leaves alone.
LEMMA AnswerStreams ==
  ASSUME FlushInv, TypesInv, NEW p \in Procs,
         Calculate(p) \/ Synchronise(p) \/ Serve(p),
         ~ SendFinalAns(p), ~ ReceiveFinalAns(p)
  PROVE  \A s \in Procs : NoAnswerSent(wire[s], wire'[s])
  <1>1. ControlType /\ DataTyped /\ MessagesTyped
    BY DEF FlushInv, ControlInv, TypesInv
  <1>2. /\ Down(p) \in Procs /\ Down(p) # p
        /\ Down(p) = Ring!Down(p) /\ Procs = Ring!Procs
    BY RingArithmetic DEF Down, Procs
  <1>3. ASSUME NEW m \in Message, m.head # "finalAns", Send(p, m)
        PROVE  \A s \in Procs : NoAnswerSent(wire[s], wire'[s])
    BY <1>1, <1>2, <1>3 DEF Send, NoAnswerSent, MessagesTyped
  <1>4. ASSUME wire[p] # << >>, Head(wire[p]).head # "finalAns", Consume(p)
        PROVE  \A s \in Procs : NoAnswerSent(wire[s], wire'[s])
    BY <1>1, <1>4 DEF Consume, NoAnswerSent, MessagesTyped
  <1>5. CASE wire' = wire
    BY <1>5 DEF NoAnswerSent
  <1>6. CASE Calculate(p)
    <2>1. CASE SendPartKey(p)
      <3>1. PICK k : k = Parts[p][step[p] \div 2 + 1] /\ Send(p, PartKey(k))
        BY <2>1 DEF SendPartKey
      <3>2. k \in Nat
        BY <1>1, <2>1, <3>1, LoopIndex, OwnKey, KeysAreNumbers DEF SendPartKey
      <3>3. PartKey(k) \in Message /\ PartKey(k).head # "finalAns"
        BY <3>2, IsMessage DEF PartKey
      <3> QED
        BY <1>3, <3>1, <3>3
    <2>2. CASE SendPartSaleData(p)
      <3>1. PICK m : /\ m = [head |-> "finalPart",
                             sale |-> partData[p][step[p] + 1], from |-> p]
                     /\ Send(p, m)
        BY <2>2 DEF SendPartSaleData
      <3>2. m \in Message /\ m.head # "finalAns"
        BY <1>1, <2>2, <3>1, SalesIndex, IsMessage DEF SendPartSaleData
      <3> QED
        BY <1>3, <3>1, <3>2
    <2>3. CASE AddPartKey(p) \/ CollectOrder(p) \/ MergeData(p)
               \/ GetLocalUnderSale(p)
      BY <1>5, <2>3 DEF AddPartKey, CollectOrder, MergeData, GetLocalUnderSale
    <2> QED
      BY <1>6, <2>1, <2>2, <2>3 DEF Calculate
  <1>7. CASE Synchronise(p)
    <2>1. CASE Ring!SendFinish(p)
      <3>1. PICK m : /\ m = Ring!Stamped(p, finish_index[p], Ring!NoDigits)
                     /\ wire' = [wire EXCEPT ![Ring!Down(p)] = Append(@, m)]
        BY <2>1 DEF Ring!SendFinish
      <3>2. m \in Ring!Token
        BY <1>1, <3>1, StampedType, NoDigitsType DEF ControlType
      <3>3. m \in Message /\ m.head # "finalAns"
        BY <3>2, IsMessage DEF Ring!Token
      <3>4. Send(p, m)
        BY <1>2, <3>1 DEF Send
      <3> QED
        BY <1>3, <3>3, <3>4
    <2> QED
      BY <1>5, <1>7, <2>1
         DEF Synchronise, EnterBarrier, LeaveBarrier, Ring!EnterBarrier,
             Ring!LeaveBarrier, Ring!Wait
  <1>8. CASE Serve(p)
    <2>1. CASE ReceiveFinish(p)
      <3>1. /\ wire[p] # << >> /\ Head(wire[p]).head = "finish"
            /\ Head(wire[p]) \in Ring!Token
        <4>1. wire[p] # << >> /\ Head(wire[p]).head = "finish"
          BY <2>1 DEF ReceiveFinish, Reads, Ring!Receives
        <4>2. Head(wire[p]) \in Message
          BY <1>1, <4>1, HeadTailProperties DEF MessagesTyped
        <4> QED
          BY <4>1, <4>2, MessageIs
      <3>2. CASE wire' = [wire EXCEPT ![p] = Tail(@)]
        BY <1>4, <3>1, <3>2 DEF Consume
      <3>3. CASE \E m : /\ m \in Message /\ m.head # "finalAns"
                        /\ wire' = [wire EXCEPT ![p] = Tail(@),
                                                ![Down(p)] = Append(@, m)]
        BY <1>1, <1>2, <3>1, <3>3 DEF NoAnswerSent, MessagesTyped
      <3>4. CASE Ring!PassToken(p) \/ Ring!CompleteToken(p)
        <4>1. PICK m : /\ m = Ring!Stamped(p, Head(wire[p]).idx,
                                              Head(wire[p]).cnt)
                       /\ wire' = [wire EXCEPT ![p] = Tail(@),
                                          ![Ring!Down(p)] = Append(@, m)]
          BY <3>4 DEF Ring!PassToken, Ring!CompleteToken, Ring!Forward
        <4>2. m \in Ring!Token
          BY <3>1, <4>1, StampedType DEF Ring!Token, Procs
        <4>3. m \in Message /\ m.head # "finalAns"
          BY <4>2, IsMessage DEF Ring!Token
        <4> QED
          BY <1>2, <3>3, <4>1, <4>3
      <3> QED
        BY <2>1, <3>2, <3>4
           DEF ReceiveFinish, Ring!HandleFinish, Ring!DropToken
    <2>2. CASE ReceivePartKey(p) \/ ReceiveFinalPart(p)
      <3>1. /\ Consume(p) /\ wire[p] # << >>
            /\ Head(wire[p]).head # "finalAns"
        BY <2>2 DEF ReceivePartKey, ReceiveFinalPart, Reads, Ring!Receives
      <3> QED
        BY <1>4, <3>1
    <2>3. CASE Forward(p)
      <3>1. PICK m : m = handling[p].msg
        OBVIOUS
      <3>2. handling[p].rest = "forward" /\ Send(p, m) /\ handling[p] \in Hands
        BY <1>1, <2>3, <3>1 DEF Forward, MessagesTyped
      <3>3. m \in KeyMsg \/ m \in SaleMsg
        BY <3>1, <3>2 DEF Hands, Idle
      <3>4. m \in Message /\ m.head # "finalAns"
        BY <3>3 DEF Message, KeyMsg, SaleMsg
      <3> QED
        BY <1>3, <3>2, <3>4
    <2>4. CASE FallThrough(p) \/ (Ring!Notify(p) /\ UNCHANGED queryVars)
      BY <1>5, <2>4 DEF FallThrough, Ring!Notify
    <2> QED
      BY <1>8, <2>1, <2>2, <2>3, <2>4 DEF Serve
  <1> QED
    BY <1>6, <1>7, <1>8

LEMMA SentOnSame ==
  ASSUME SalesInv, NEW p \in Procs,
         Calculate(p) \/ Synchronise(p) \/ Serve(p), ~ SendFinalAns(p),
         NEW d \in 0..N - 2
  PROVE  SentOn(d)' <=> SentOn(d)
  <1>1. /\ FlushInv /\ ControlType /\ TypesInv /\ DataTyped /\ StepsDone
    BY DEF SalesInv, KeysInv, FlushInv, ControlInv, TypesInv
  <1>2. PICK q \in Procs : q = Stop(d)
    <2>1. d \in 0..N - 1
      BY NAssumption
    <2> QED
      BY <2>1, StopArithmetic
  <1>3. CASE q # p
    BY <1>1, <1>2, <1>3, OthersKeep DEF SentOn
  <1>4. CASE q = p /\ Serve(p)
    <2>1. UNCHANGED <<step, finish_index>>
      BY <1>1, <1>4, ServerKeeps
    <2> QED
      BY <2>1 DEF SentOn
  <1>5. CASE q = p /\ Calculate(p)
    <2>1. finish_index' = finish_index
      BY <1>5 DEF Calculate, AddPartKey, SendPartKey, CollectOrder, MergeData,
           SendPartSaleData, GetLocalUnderSale, SendFinalAns, mainVars
    <2>2. finish_index[p] \in 0..3
      BY <1>5 DEF Calculate, AddPartKey, SendPartKey, CollectOrder, MergeData,
             SendPartSaleData, GetLocalUnderSale, InPhase
    <2> QED
      BY <1>2, <1>5, <2>1, <2>2 DEF SentOn
  <1>6. CASE q = p /\ LeaveBarrier(p)
    <2>1. /\ step'[p] = 0 /\ finish_index'[p] = finish_index[p] + 1
          /\ pc[p] = "woken"
      BY <1>1, <1>6 DEF LeaveBarrier, Ring!LeaveBarrier, ControlType
    <2>2. step[p] = Work(p)
      BY <1>1, <2>1 DEF StepsDone
    <2>3. PICK k \in Nat : k = finish_index[p]
      BY <1>1 DEF ControlType
    <2>4. k = d + 4 => step[p] = 1
      <3>1. ASSUME k = d + 4 PROVE Work(p) = 1
        <4>1. k \in 4..N + 2 /\ k - 4 = d /\ k \notin {0, 1, 2, 3}
          BY <3>1, NAssumption
        <4>2. Now[k - 4] = p
          BY <1>2, <1>6, <4>1, NowIsStop
        <4> QED
          BY <2>3, <4>1, <4>2 DEF Work
      <3> QED
        BY <2>2, <3>1
    <2> QED
      BY <1>2, <1>6, <2>1, <2>3, <2>4 DEF SentOn
  <1>7. CASE q = p /\ Synchronise(p) /\ ~ LeaveBarrier(p)
    <2>1. UNCHANGED <<queryVars, finish_index>>
      BY <1>7 DEF Synchronise, EnterBarrier, Ring!EnterBarrier,
                  Ring!SendFinish, Ring!Wait
    <2> QED
      BY <2>1 DEF queryVars, SentOn
  <1> QED
    BY <1>3, <1>4, <1>5, <1>6, <1>7

LEMMA CountedSame ==
  ASSUME SalesInv, NEW p \in Procs,
         Calculate(p) \/ Synchronise(p) \/ Serve(p), ~ GetLocalUnderSale(p),
         NEW q \in Procs, Counted(q)'
  PROVE  Counted(q)
  <1>1. /\ FlushInv /\ ControlType /\ TypesInv /\ DataTyped /\ StepsDone
    BY DEF SalesInv, KeysInv, FlushInv, ControlInv, TypesInv
  <1>2. CASE q # p
    BY <1>1, <1>2, OthersKeep DEF Counted
  <1>3. PICK k \in Nat, m \in Nat, n \in Nat :
          /\ k = finish_index[p] /\ m = Len(receivePartData[p]) /\ n = step[p]
    BY <1>1, LenProperties DEF ControlType, DataTyped
  <1>4. CASE q = p /\ Serve(p)
    <2>1. UNCHANGED <<step, finish_index>>
      BY <1>1, <1>4, ServerKeeps
    <2>2. finish_index[p] = 3 => receivePartData'[p] = receivePartData[p]
      BY <1>1, <1>4, ServerKeeps, SalesComeEarly
    <2> QED
      BY <1>3, <1>4, <2>1, <2>2 DEF Counted
  <1>5. CASE q = p /\ Calculate(p)
    <2>1. finish_index' = finish_index /\ receivePartData' = receivePartData
          /\ step'[p] = n + 1
      BY <1>1, <1>3, <1>5
         DEF Calculate, AddPartKey, SendPartKey, CollectOrder, MergeData,
             SendPartSaleData, GetLocalUnderSale, SendFinalAns, mainVars,
             dataVars, Advance, ControlType
    <2>2. k = 3 => n < m
      BY <1>3, <1>5 DEF Calculate, AddPartKey, SendPartKey, CollectOrder,
           MergeData, SendPartSaleData, SendFinalAns, InPhase
    <2> QED
      BY <1>3, <1>5, <2>1, <2>2 DEF Counted
  <1>6. CASE q = p /\ LeaveBarrier(p)
    <2>1. /\ step'[p] = 0 /\ finish_index'[p] = k + 1
          /\ pc[p] = "woken" /\ receivePartData' = receivePartData
      BY <1>1, <1>3, <1>6 DEF LeaveBarrier, Ring!LeaveBarrier, ControlType,
                              dataVars
    <2>2. k = 3 => n = m + 1
      <3>1. n = Work(p)
        BY <1>1, <1>3, <2>1 DEF StepsDone
      <3>2. k = 3 => Work(p) = m + 1
        BY <1>3 DEF Work
      <3> QED
        BY <3>1, <3>2
    <2> QED
      BY <1>3, <1>6, <2>1, <2>2 DEF Counted
  <1>7. CASE q = p /\ Synchronise(p) /\ ~ LeaveBarrier(p)
    <2>1. UNCHANGED <<queryVars, finish_index>>
      BY <1>7 DEF Synchronise, EnterBarrier, Ring!EnterBarrier,
                  Ring!SendFinish, Ring!Wait
    <2> QED
      BY <2>1 DEF queryVars, dataVars, Counted
  <1> QED
    BY <1>2, <1>4, <1>5, <1>6, <1>7

\* The fall-through adds to a sum that is still to be reset.
LEMMA UnderSalesSame ==
  ASSUME SalesInv, NEW p \in Procs,
         Calculate(p) \/ Synchronise(p) \/ Serve(p),
         ~ GetLocalUnderSale(p), ~ ReceiveFinalAns(p),
         NEW q \in Procs, Counted(q)
  PROVE  underSales'[q] = underSales[q]
  <1>1. /\ FlushInv /\ ControlInv /\ ControlType /\ TypesInv /\ DataTyped
    BY DEF SalesInv, KeysInv, FlushInv, ControlInv, TypesInv
  <1>2. CASE q # p
    BY <1>1, <1>2, OthersKeep
  <1>3. CASE FallThrough(p)
    <2>1. handling[p].rest = "ans"
      BY <1>3 DEF FallThrough
    <2>2. handling[p] # Idle /\ handling[p].msg.head = "finalPart"
      BY <1>1, <2>1 DEF TypesInv, MessagesTyped, Hands, Idle, SaleMsg
    <2>3. Kind(2) = "finalPart" /\ 2 \in Phases
      BY DEF Kind, Phases
    <2>4. ~ Announced(p, 2)
      BY <1>1, <2>2, <2>3, NothingAnnouncedComes DEF Incoming
    <2>5. finish_index[p] <= 2 /\ finish_index[p] \in Nat
      BY <1>1, <2>4 DEF ControlInv, LeftAnnounced, ControlType, Announced
    <2> QED
      BY <1>2, <2>5 DEF Counted
  <1>4. CASE Calculate(p)
    BY <1>4 DEF Calculate, AddPartKey, SendPartKey, CollectOrder, MergeData,
         SendPartSaleData, SendFinalAns, dataVars
  <1>5. CASE Synchronise(p)
    BY <1>5 DEF Synchronise, EnterBarrier, LeaveBarrier, queryVars, dataVars
  <1>6. CASE Serve(p) /\ ~ FallThrough(p)
    <2>1. CASE ReceiveFinish(p) \/ (Ring!Notify(p) /\ UNCHANGED queryVars)
      BY <2>1 DEF ReceiveFinish, queryVars, dataVars
    <2>2. CASE ReceivePartKey(p) \/ ReceiveFinalPart(p) \/ Forward(p)
      BY <2>2 DEF ReceivePartKey, ReceiveFinalPart, Forward, dataVars
    <2> QED
      BY <1>6, <2>1, <2>2 DEF Serve
  <1> QED
    BY <1>3, <1>4, <1>5, <1>6

\* A step that concerns neither the sum nor the stream of a stop.
LEMMA StopQuiet ==
  ASSUME MessagesTyped, NEW d \in 0..N - 1, StopInv(d),
         NoAnswerSent(wire[Stop(d)], wire'[Stop(d)]),
         d > 0 => (SentOn(d - 1)' <=> SentOn(d - 1)),
         Counted(Stop(d))' => /\ Counted(Stop(d))
                              /\ underSales'[Stop(d)] = underSales[Stop(d)]
  PROVE  StopInv(d)'
  <1>1. PICK p \in Procs : p = Stop(d)
    BY StopArithmetic
  <1>2. wire[p] \in Seq(Message)
    BY DEF MessagesTyped
  <1>3. /\ Answers(wire'[p]) = Answers(wire[p])
        /\ NoAnswers(wire[p]) => NoAnswers(wire'[p])
    BY <1>1, <1>2, AnswersMove
  <1>4. FromAbove(d)' = FromAbove(d)
    BY DEF FromAbove
  <1> QED
    BY <1>1, <1>3, <1>4 DEF StopInv

LEMMA StopsQuiet ==
  ASSUME SumsInv, AnswerInv, NEW p \in Procs,
         Calculate(p) \/ Synchronise(p) \/ Serve(p),
         ~ SendFinalAns(p), ~ ReceiveFinalAns(p),
         NEW d \in 0..N - 1, ~ GetLocalUnderSale(p) \/ Stop(d) # p
  PROVE  StopInv(d)'
  <1>1. /\ SalesInv /\ FlushInv /\ ControlType /\ TypesInv /\ DataTyped
        /\ MessagesTyped
    BY DEF SumsInv, SalesInv, KeysInv, FlushInv, ControlInv, TypesInv
  <1>2. PICK q \in Procs : q = Stop(d)
    BY StopArithmetic
  <1>3. NoAnswerSent(wire[q], wire'[q])
    BY <1>1, AnswerStreams
  <1>4. d > 0 => (SentOn(d - 1)' <=> SentOn(d - 1))
    <2>1. ASSUME d > 0 PROVE SentOn(d - 1)' <=> SentOn(d - 1)
      <3>1. d - 1 \in 0..N - 2
        BY <2>1, NAssumption
      <3> QED
        BY <1>1, <3>1, SentOnSame
    <2> QED
      BY <2>1
  <1>5. ASSUME Counted(q)'
        PROVE  Counted(q) /\ underSales'[q] = underSales[q]
    <2>1. CASE GetLocalUnderSale(p)
      <3>1. q # p
        BY <1>2, <2>1
      <3> QED
        BY <1>1, <1>5, <3>1, OthersKeep DEF Counted
    <2>2. CASE ~ GetLocalUnderSale(p)
      <3>1. Counted(q)
        BY <1>1, <1>5, <2>2, CountedSame
      <3> QED
        BY <1>1, <2>2, <3>1, UnderSalesSame
    <2> QED
      BY <2>1, <2>2
  <1>6. StopInv(d)
    BY DEF AnswerInv
  <1> QED
    BY <1>1, <1>2, <1>3, <1>4, <1>5, <1>6, StopQuiet

\* getLocalUnderSale sets the sum to the share of the instance, before anything
\* comes from above.
LEMMA LocalStop ==
  ASSUME SumsInv, AnswerInv, NEW d \in 0..N - 1, GetLocalUnderSale(Stop(d))
  PROVE  StopInv(d)'
  <1>1. /\ SalesInv /\ FlushInv /\ ControlInv /\ ControlType /\ TypesInv
        /\ DataTyped /\ MessagesTyped
    BY DEF SumsInv, SalesInv, KeysInv, FlushInv, ControlInv, TypesInv
  <1>2. PICK p \in Procs : p = Stop(d)
    BY StopArithmetic
  <1>3. /\ pc[p] = "run" /\ finish_index[p] = 3
        /\ step[p] = Len(receivePartData[p]) /\ wire' = wire
        /\ underSales' = [underSales EXCEPT ![p] =
                                    UnderSale(orders[p], partData[p])]
    BY <1>2 DEF GetLocalUnderSale, InPhase
  <1>4. Calculate(p) /\ ~ SendFinalAns(p)
    BY <1>2, <1>3 DEF Calculate, SendFinalAns
  <1>5. HasMerged(p)
    <2>1. Len(receivePartData[p]) \in Nat
      BY <1>1, LenProperties DEF DataTyped
    <2> QED
      BY <1>3, <2>1 DEF HasMerged
  <1>6. underSales'[p] = Share[p]
    BY <1>1, <1>3, <1>5, LocalIsShare DEF DataTyped
  <1>7. ~ (d > 0 /\ SentOn(d - 1))
    <2>1. ASSUME d > 0, SentOn(d - 1) PROVE FALSE
      <3>1. d \in 1..N - 1 /\ d + 2 >= 3
        BY <2>1
      <3> QED
        BY <1>1, <1>3, <2>1, <3>1, SentOnLate
    <2> QED
      BY <2>1
  <1>8. ~ (d > 0 /\ SentOn(d - 1)')
    <2>1. ASSUME d > 0, SentOn(d - 1)' PROVE FALSE
      <3>1. d - 1 \in 0..N - 2
        BY <2>1, NAssumption
      <3>2. SentOn(d - 1)
        BY <1>1, <1>4, <2>1, <3>1, SentOnSame
      <3> QED
        BY <1>7, <2>1, <3>2
    <2> QED
      BY <2>1
  <1>9. NoAnswers(wire[p])
    BY <1>2, <1>7 DEF AnswerInv, StopInv
  <1>10. Answers(wire[p]) = 0 /\ Share[p] \in Nat
    BY <1>1, <1>9, AnswersMove, GatheredNext DEF MessagesTyped
  <1>11. FromAbove(d)' = 0
    BY <1>8 DEF FromAbove
  <1>12. underSales'[p] + Answers(wire'[p]) = Share[p] + FromAbove(d)'
    BY <1>3, <1>6, <1>10, <1>11
  <1> QED
    BY <1>2, <1>3, <1>9, <1>12 DEF StopInv

\* The answer is added.
LEMMA ReceiveStop ==
  ASSUME SumsInv, AnswerInv, NEW p \in Procs, ReceiveFinalAns(p),
         NEW d \in 0..N - 1
  PROVE  StopInv(d)'
  <1>1. /\ SalesInv /\ FlushInv /\ ControlType /\ TypesInv /\ DataTyped
        /\ MessagesTyped
    BY DEF SumsInv, SalesInv, KeysInv, FlushInv, ControlInv, TypesInv
  <1>2. PICK q \in Procs : q = Stop(d)
    BY StopArithmetic
  <1>3. /\ wire[p] # << >> /\ Head(wire[p]).head = "finalAns"
        /\ wire' = [wire EXCEPT ![p] = Tail(@)]
        /\ underSales' = [underSales EXCEPT ![p] = @ + Head(wire[p]).ans]
        /\ UNCHANGED <<step, finish_index, receivePartData>>
    BY DEF ReceiveFinalAns, Reads, Ring!Receives, Consume, mainVars
  <1>4. /\ Counted(q)' <=> Counted(q)
        /\ d > 0 => (SentOn(d - 1)' <=> SentOn(d - 1))
    BY <1>3 DEF Counted, SentOn
  <1>5. StopInv(d)
    BY DEF AnswerInv
  <1>6. CASE q # p
    <2>1. wire'[q] = wire[q] /\ underSales'[q] = underSales[q]
      BY <1>1, <1>3, <1>6 DEF MessagesTyped, DataTyped
    <2> QED
      BY <1>1, <1>2, <1>4, <1>5, <2>1, StopQuiet DEF NoAnswerSent
  <1>7. CASE q = p
    <2>1. /\ wire'[q] = Tail(wire[q]) /\ wire[q] \in Seq(Message)
          /\ underSales'[q] = underSales[q] + Head(wire[q]).ans
          /\ underSales[q] \in Nat
      BY <1>1, <1>3, <1>7 DEF MessagesTyped, DataTyped
    <2>2. /\ Answers(Tail(wire[q])) = Answers(wire[q]) - Head(wire[q]).ans
          /\ Head(wire[q]).ans \in Nat /\ ~ NoAnswers(wire[q])
          /\ Answers(wire[q]) \in Nat
      BY <1>3, <1>7, <2>1, AnswersMove
    <2>3. d > 0 /\ SentOn(d - 1)
      BY <1>2, <1>5, <2>2 DEF StopInv
    <2>4. underSales'[q] + Answers(wire'[q]) = underSales[q] + Answers(wire[q])
      BY <2>1, <2>2
    <2>5. FromAbove(d)' = FromAbove(d)
      BY <1>4 DEF FromAbove
    <2> QED
      BY <1>2, <1>4, <1>5, <2>3, <2>4, <2>5 DEF StopInv
  <1> QED
    BY <1>6, <1>7

\* A stop sends what it has gathered, all of it.
LEMMA SendStop ==
  ASSUME SumsInv, AnswerInv, NEW p \in Procs, SendFinalAns(p),
         NEW d \in 0..N - 1
  PROVE  StopInv(d)'
  <1>1. /\ SalesInv /\ FlushInv /\ ControlType /\ TypesInv /\ DataTyped
        /\ MessagesTyped /\ N \in Nat /\ N >= 2
    BY NAssumption
       DEF SumsInv, SalesInv, KeysInv, FlushInv, ControlInv, TypesInv
  <1>2. PICK k \in 4..N + 2 : k = finish_index[p]
    BY DEF SendFinalAns
  <1>3. PICK c \in 0..N - 2 : c = k - 4
    BY <1>1, <1>2
  <1>4. p = Stop(c) /\ step[p] = 0
    BY <1>1, <1>2, <1>3, SendersTurn DEF SendFinalAns, ControlType
  <1>5. c \in 0..N - 1 /\ c + 1 \in 1..N - 1 /\ c + 1 \in 0..N - 1 /\ k = c + 4
    BY <1>1, <1>2, <1>3
  <1>6. /\ wire' = [wire EXCEPT ![Down(p)] =
                      Append(@, [head |-> "finalAns", ans |-> underSales[p]])]
        /\ step' = [step EXCEPT ![p] = @ + 1]
        /\ UNCHANGED <<finish_index, receivePartData, underSales>>
    BY DEF SendFinalAns, Send, Advance, mainVars, dataVars
  <1>7. underSales[p] = Gathered[c]
    BY <1>2, <1>4, <1>5, AnswerHasCome
  <1>8. Down(p) = Stop(c + 1)
    BY <1>3, <1>4, StopArithmetic
  <1>9. PICK q \in Procs : q = Stop(d)
    BY StopArithmetic
  <1>10. Counted(q)' => Counted(q)
    <2>1. q # p => step'[q] = step[q]
      BY <1>1, <1>6 DEF ControlType
    <2> QED
      BY <1>2, <1>6, <2>1 DEF Counted
  <1>11. StopInv(d)
    BY DEF AnswerInv
  <1>12. CASE d # c + 1
    <2>1. q # Down(p)
      BY <1>5, <1>8, <1>9, <1>12, StopArithmetic
    <2>2. wire'[q] = wire[q]
      BY <1>1, <1>6, <2>1 DEF MessagesTyped
    <2>3. ASSUME d > 0 PROVE SentOn(d - 1)' <=> SentOn(d - 1)
      <3>1. d - 1 \in 0..N - 1 /\ d - 1 # c
        BY <1>1, <1>12, <2>3
      <3>2. Stop(d - 1) \in Procs /\ Stop(d - 1) # p
        BY <1>4, <1>5, <3>1, StopArithmetic
      <3>3. step'[Stop(d - 1)] = step[Stop(d - 1)]
        BY <1>1, <1>6, <3>2 DEF ControlType
      <3> QED
        BY <1>6, <3>3 DEF SentOn
    <2> QED
      BY <1>1, <1>6, <1>9, <1>10, <1>11, <2>2, <2>3, StopQuiet DEF NoAnswerSent
  <1>13. CASE d = c + 1
    <2>1. q = Down(p) /\ d - 1 = c /\ d > 0
      BY <1>5, <1>8, <1>9, <1>13
    <2>2. ~ SentOn(c)
      BY <1>2, <1>4, <1>5 DEF SentOn
    <2>3. SentOn(c)'
      <3>1. step'[p] = 1
        BY <1>1, <1>4, <1>6 DEF ControlType
      <3> QED
        BY <1>2, <1>4, <1>5, <1>6, <3>1 DEF SentOn
    <2>4. FromAbove(d) = 0 /\ FromAbove(d)' = Gathered[c]
      BY <2>1, <2>2, <2>3 DEF FromAbove
    <2>5. /\ wire[q] \in Seq(Message) /\ underSales[q] \in Nat
          /\ underSales[p] \in Nat
          /\ wire'[q] = Append(wire[q],
                               [head |-> "finalAns", ans |-> underSales[p]])
      BY <1>1, <1>6, <2>1 DEF MessagesTyped, DataTyped
    <2>6. Answers(wire'[q]) = Answers(wire[q]) + underSales[p]
          /\ Answers(wire[q]) \in Nat
      BY <2>5, AnswersMove
    <2>7. Share[q] \in Nat
      BY GatheredNext
    <2>8. Counted(q)' => underSales'[q] + Answers(wire'[q])
                         = Share[q] + FromAbove(d)'
      <3> SUFFICES ASSUME Counted(q)'
                   PROVE  underSales'[q] + Answers(wire'[q])
                          = Share[q] + FromAbove(d)'
        OBVIOUS
      <3>1. underSales[q] + Answers(wire[q]) = Share[q] + 0
        BY <1>9, <1>10, <1>11, <2>4 DEF StopInv
      <3> QED
        BY <1>6, <1>7, <2>4, <2>5, <2>6, <2>7, <3>1
    <2> QED
      BY <1>9, <2>1, <2>3, <2>8 DEF StopInv
  <1> QED
    BY <1>12, <1>13

LEMMA NextAnswer ==
  ASSUME SumsInv, AnswerInv, [Next]_vars
  PROVE  AnswerInv'
  <1>1. CASE UNCHANGED vars
    BY <1>1 DEF vars, Ring!vars, queryVars, dataVars, AnswerInv, StopInv,
                Counted, FromAbove, SentOn
  <1>2. ASSUME NEW p \in Procs, Calculate(p) \/ Synchronise(p) \/ Serve(p),
               NEW d \in 0..N - 1
        PROVE  StopInv(d)'
    <2>1. CASE SendFinalAns(p)
      BY <2>1, SendStop
    <2>2. CASE ReceiveFinalAns(p)
      BY <2>2, ReceiveStop
    <2>3. CASE GetLocalUnderSale(p) /\ Stop(d) = p
      BY <2>3, LocalStop
    <2>4. CASE /\ ~ SendFinalAns(p) /\ ~ ReceiveFinalAns(p)
               /\ ~ GetLocalUnderSale(p) \/ Stop(d) # p
      BY <1>2, <2>4, StopsQuiet
    <2> QED
      BY <2>1, <2>2, <2>3, <2>4
  <1> QED
    BY <1>1, <1>2 DEF Next, AnswerInv

LEMMA InitAnswer == Init => AnswerInv
  <1> SUFFICES ASSUME Init, NEW d \in 0..N - 1 PROVE StopInv(d)
    BY DEF AnswerInv
  <1>1. PICK p \in Procs : p = Stop(d)
    BY StopArithmetic
  <1>2. finish_index[p] = 0 /\ wire[p] = << >>
    BY DEF Init, Ring!Init, Procs
  <1>3. ~ Counted(p) /\ NoAnswers(wire[p])
    BY <1>2 DEF Counted, NoAnswers
  <1> QED
    BY <1>1, <1>3 DEF StopInv

\* On its way down the ring every instance adds exactly its own share to the
\* answer, none is skipped or added twice: the instance where the query was
\* typed ends with what one instance with all parts and orders would compute.
THEOREM AnswersAreRight == Spec => []AnswerIsRight
  <1>1. SumsInv /\ AnswerInv => AnswerIsRight
    <2> SUFFICES ASSUME SumsInv, AnswerInv, NEW d \in 0..N - 1
                 PROVE  /\ pc[Stop(d)] = "run"
                             /\ finish_index[Stop(d)] \in 4..d + 2
                             => underSales[Stop(d)] = Share[Stop(d)]
                        /\ finish_index[Stop(d)] > d + 3
                             => underSales[Stop(d)] = Gathered[d]
      BY DEF AnswerIsRight
    <2>1. finish_index[Stop(d)] > d + 3 => underSales[Stop(d)] = Gathered[d]
      BY AnswerHasCome
    <2>2. ASSUME pc[Stop(d)] = "run", finish_index[Stop(d)] \in 4..d + 2
          PROVE  underSales[Stop(d)] = Share[Stop(d)]
      <3>1. PICK p \in Procs : p = Stop(d)
        BY StopArithmetic
      <3>2. /\ wire[p] \in Seq(Message) /\ underSales[p] \in Nat
            /\ ControlInv /\ finish_index[p] > 3 /\ finish_index[p] <= d + 2
        BY <2>2, <3>1
           DEF SumsInv, SalesInv, KeysInv, FlushInv, TypesInv, MessagesTyped,
               DataTyped
      <3>3. ~ (d > 0 /\ SentOn(d - 1))
        <4>1. ASSUME d > 0, SentOn(d - 1) PROVE FALSE
          <5>1. d \in 1..N - 1
            BY <4>1
          <5>2. finish_index[p] > d + 2 \/ pc[p] # "run"
            BY <3>2, <4>1, <5>1, SentOnLate
          <5>3. finish_index[p] \in Nat
            BY <3>2 DEF ControlInv, ControlType
          <5> QED
            BY <2>2, <3>1, <3>2, <5>2, <5>3
        <4> QED
          BY <4>1
      <3>4. Counted(p)
        BY <3>2 DEF Counted
      <3>5. NoAnswers(wire[p]) /\ FromAbove(d) = 0
            /\ underSales[p] + Answers(wire[p]) = Share[p] + FromAbove(d)
        BY <3>1, <3>3, <3>4 DEF AnswerInv, StopInv, FromAbove
      <3>6. Answers(wire[p]) = 0 /\ Share[p] \in Nat
        BY <3>2, <3>5, AnswersMove, GatheredNext
      <3> QED
        BY <3>1, <3>2, <3>5, <3>6
    <2> QED
      BY <2>1, <2>2
  <1>2. Init => AnswerInv
    BY InitAnswer
  <1>3. SumsInv /\ AnswerInv /\ [Next]_vars => AnswerInv'
    BY NextAnswer
  <1> QED
    BY <1>1, <1>2, <1>3, AlwaysSumsInv, PTL DEF Spec

===============================================================================
