------------------------------- MODULE PartTable -------------------------------
(***************************************************************************)
(* The second of the three calculators: AdvancedCalculator::doCalculate,   *)
(* and the cases part and partData of the server thread.                   *)
(*                                                                         *)
(* Every instance gets the whole part table, counts its own orders, and    *)
(* the counts are added up along the ring towards the instance that was    *)
(* asked.  The phases are separated by the barrier of RingBarrier:         *)
(*                                                                         *)
(*   0        send the part table                                          *)
(*   1        count the local orders                                       *)
(*   2..N     the instances send their counts, one in each phase           *)
(*   N + 1    nothing                                                      *)
(*   N + 2    the answer; close the connection                             *)
(*                                                                         *)
(* There are brands enough for every part to have its own: a brand is      *)
(* named by its part, and the key of a count is the brand it is filed      *)
(* under and the part.                                                     *)
(***************************************************************************)
EXTENDS Integers, Sequences, SequencesExt, FiniteSetsExt, Functions, Totals,
        Turns

CONSTANTS N,         \* as in RingBarrier
          Parts,     \* Parts[p]: the keys of the part table p has loaded
          Orders,    \* Orders[p]: p's orders
          select_idx \* the instance asked for the answer

VARIABLES pc, finish_index, is_finished, is_notify, has_notify, notifying,
          wire, disturbed, lost,
          step,        \* position of the main thread within the phase
          parts,       \* the vector reader.parts
          partIdHash,  \* positions in parts, by key
          sz,          \* the number of parts to send, once it has been read
          saleCount,   \* the quantities sold, by brand and part
          sent,        \* the keys of saleCount the main thread has sent
          partCount,
          underSale,   \* the answer
          closed, handling

Ring == INSTANCE RingBarrier WITH Rounds <- N + 2, Disturbed <- {}

Procs == Ring!Procs
Down(p) == Ring!Down(p)

AllParts == UNION {Range(Parts[p]) : p \in Procs}

ASSUME NAssumption == N \in Nat /\ N >= 2

\* Instances load different lines of the table, and it has each key once.
ASSUME PartsAssumption ==
  /\ Parts \in [Procs -> Seq(Nat)]
  /\ \A p \in Procs : IsInjective(Parts[p])
  /\ \A p, q \in Procs :
       p # q => Range(Parts[p]) \cap Range(Parts[q]) = {}
ASSUME OrdersAssumption ==
  Orders \in [Procs -> Seq([lPartkey : AllParts, lQuantity : Nat])]
ASSUME SelectAssumption == select_idx \in Procs

tableVars == <<parts, partIdHash>>
countVars == <<saleCount, sent>>
answerVars == <<partCount, underSale>>
advancedVars == <<step, tableVars, sz, countVars, answerVars, closed, handling>>
vars == <<Ring!vars, advancedVars>>

None == [head |-> "none"]

Init ==
  /\ Ring!Init
  /\ step = [p \in Procs |-> 0]
  /\ parts = Parts
  /\ partIdHash = [p \in Procs |->
       [k \in Range(Parts[p]) |->
          CHOOSE i \in DOMAIN Parts[p] : Parts[p][i] = k]]
  /\ sz = [p \in Procs |-> 0]
  /\ saleCount = [p \in Procs |-> << >>]
  /\ sent = [p \in Procs |-> {}]
  /\ partCount = [p \in Procs |-> 0]
  /\ underSale = [p \in Procs |-> {}]
  /\ closed = {}
  /\ handling = [p \in Procs |-> None]

-------------------------------------------------------------------------------
(***************************************************************************)
(* The tables.                                                             *)
(***************************************************************************)

Send(p, m) ==
  wire' = IF p \in closed THEN wire
                          ELSE [wire EXCEPT ![Down(p)] = Append(@, m)]

Part(key) == [head |-> "part", part |-> key]

WithEntry(f, key, value) ==
  [k \in DOMAIN f \cup {key} |-> IF k = key THEN value ELSE f[k]]

\* Mutant: a count that comes in replaces the one that is there.
MergedOver(sums, key, count) == WithEntry(sums, key, count)

\* updateData and mergePartData: add to the entry, or make it.
Merged(sums, key, count) ==
  WithEntry(sums, key, count + (IF key \in DOMAIN sums THEN sums[key] ELSE 0))

\* part.saleCount < avg * 0.3, with avg = sales / number
SellsBadly(count, sales, number) == 10 * count * number < 3 * sales

\* The instance whose turn it is in phase k, a round of the loop of
\* partDataCommunicate.
Now(k) == TurnOf(k - 2, select_idx, N)

-------------------------------------------------------------------------------
(***************************************************************************)
(* The main thread.                                                        *)
(***************************************************************************)

mainVars == <<pc, finish_index, is_finished, is_notify>>
serverVars == <<has_notify, notifying, lost, disturbed>>

InPhase(p, k) == pc[p] = "run" /\ finish_index[p] = k

Advance(p) == step' = [step EXCEPT ![p] = @ + 1]

\* int sz = reader.parts.size(): parts of others may have come already
ReadSize(p) ==
  /\ InPhase(p, 0) /\ step[p] = 0
  /\ Advance(p)
  /\ sz' = [sz EXCEPT ![p] = Len(parts[p])]
  /\ UNCHANGED <<mainVars, serverVars, wire, tableVars, countVars, answerVars,
                 closed, handling>>

SendPart(p) ==
  /\ InPhase(p, 0) /\ step[p] \in 1..sz[p]
  /\ Advance(p)
  /\ Send(p, Part(parts[p][step[p]]))
  /\ UNCHANGED <<mainVars, serverVars, tableVars, sz, countVars, answerVars,
                 closed, handling>>

\* Mutant: the size that was read before the communication.
SetPartCountEarly(p) ==
  /\ InPhase(p, 1) /\ step[p] = 0
  /\ Advance(p)
  /\ partCount' = [partCount EXCEPT ![p] = sz[p]]
  /\ UNCHANGED <<mainVars, serverVars, wire, tableVars, sz, countVars,
                 underSale, closed, handling>>

SetPartCount(p) ==
  /\ InPhase(p, 1) /\ step[p] = 0
  /\ Advance(p)
  /\ partCount' = [partCount EXCEPT ![p] = Len(parts[p])]
  /\ UNCHANGED <<mainVars, serverVars, wire, tableVars, sz, countVars,
                 underSale, closed, handling>>

\* One iteration over the orders.  reader.partIdHash[key] makes an entry with
\* position 0 when there is none, and the count is filed under the brand there.
SolveOrder(p) ==
  /\ InPhase(p, 1) /\ step[p] \in 1..Len(Orders[p])
  /\ Advance(p)
  /\ LET o == Orders[p][step[p]]
         known == o.lPartkey \in DOMAIN partIdHash[p]
         i == IF known THEN partIdHash[p][o.lPartkey] ELSE 1
     IN /\ partIdHash' = [partIdHash EXCEPT ![p] = WithEntry(@, o.lPartkey, i)]
        /\ saleCount' = [saleCount EXCEPT ![p] =
             Merged(@, <<parts[p][i], o.lPartkey>>, o.lQuantity)]
  /\ UNCHANGED <<mainVars, serverVars, wire, parts, sz, sent, answerVars,
                 closed, handling>>

\* The loop runs over the table as it is, entries the server appends included.
SendPartData(p) ==
  /\ pc[p] = "run" /\ finish_index[p] \in 2..N
  /\ Now(finish_index[p]) = p
  /\ \E k \in DOMAIN saleCount[p] \ sent[p] :
       /\ Send(p, [head |-> "partData", key |-> k, count |-> saleCount[p][k]])
       /\ sent' = [sent EXCEPT ![p] = @ \cup {k}]
  /\ UNCHANGED <<mainVars, serverVars, step, tableVars, sz, saleCount,
                 answerVars, closed, handling>>

\* getTotalDatas, calculateUnderSale
CalculateUnderSale(p) ==
  /\ InPhase(p, N + 2) /\ step[p] = 0 /\ p = select_idx
  /\ Advance(p)
  /\ LET sums == saleCount[p]
         sales == MapThenSumSet(LAMBDA k : sums[k], DOMAIN sums)
     IN underSale' = [underSale EXCEPT ![p] = @ \cup
          {[key |-> k, count |-> sums[k]] :
             k \in {j \in DOMAIN sums :
                      SellsBadly(sums[j], sales, partCount[p])}}]
  /\ UNCHANGED <<mainVars, serverVars, wire, tableVars, sz, countVars,
                 partCount, closed, handling>>

Close(p) ==
  /\ InPhase(p, N + 2) /\ p \notin closed
  /\ step[p] = 1 \/ p # select_idx
  /\ closed' = closed \cup {p}
  /\ UNCHANGED <<mainVars, serverVars, wire, step, tableVars, sz, countVars,
                 answerVars, handling>>

Calculate(p) ==
  \/ ReadSize(p) \/ SendPart(p) \/ SetPartCount(p) \/ SolveOrder(p)
  \/ SendPartData(p) \/ CalculateUnderSale(p) \/ Close(p)

\* What is left to do before the doAsync at the end of the phase.
PhaseDone(p) ==
  LET k == finish_index[p] IN
  CASE k = 0 -> step[p] = sz[p] + 1
    [] k = 1 -> step[p] = Len(Orders[p]) + 1
    [] k \in 2..N -> Now(k) = p => sent[p] = DOMAIN saleCount[p]
    [] OTHER -> TRUE

EnterBarrier(p) ==
  /\ PhaseDone(p)
  /\ Ring!EnterBarrier(p)
  /\ UNCHANGED advancedVars

LeaveBarrier(p) ==
  /\ Ring!LeaveBarrier(p)
  /\ step' = [step EXCEPT ![p] = 0]
  /\ UNCHANGED <<tableVars, sz, countVars, answerVars, closed, handling>>

Synchronise(p) ==
  \/ EnterBarrier(p)
  \/ LeaveBarrier(p)
  \/ (Ring!SendFinish(p) \/ Ring!Wait(p)) /\ UNCHANGED advancedVars

-------------------------------------------------------------------------------
(***************************************************************************)
(* The server thread.                                                      *)
(***************************************************************************)

Reads(p, head) ==
  /\ handling[p] = None
  /\ Ring!Receives(p)
  /\ Head(wire[p]).head = head

Consume(p) == wire' = [wire EXCEPT ![p] = Tail(@)]

GoOn(p) == handling' = [handling EXCEPT ![p] = Head(wire[p])]

\* Mutant: the hash names the part before the new one.
InsertBehind(p, key) ==
  /\ parts' = [parts EXCEPT ![p] = Append(@, key)]
  /\ partIdHash' = [partIdHash EXCEPT ![p] = WithEntry(@, key, Len(parts[p]))]

\* What insertPart does with a part it does not know.
Insert(p, key) ==
  /\ parts' = [parts EXCEPT ![p] = Append(@, key)]
  /\ partIdHash' =
       [partIdHash EXCEPT ![p] = WithEntry(@, key, Len(parts[p]) + 1)]

ReceiveFinish(p) ==
  /\ Reads(p, "finish")
  /\ Ring!HandleFinish(p)
  /\ UNCHANGED advancedVars

\* Mutant: the part is listed without looking whether it is there.
ReceivePartTwice(p) ==
  /\ Reads(p, "part")
  /\ Consume(p)
  /\ parts' = [parts EXCEPT ![p] = Append(@, Head(wire[p]).part)]
  /\ UNCHANGED <<mainVars, serverVars, step, partIdHash, sz, countVars,
                 answerVars, closed, handling>>

\* insertPart: a part that is in the table goes no further.
ReceivePart(p) ==
  /\ Reads(p, "part")
  /\ Consume(p)
  /\ LET key == Head(wire[p]).part IN
       \/ /\ key \in DOMAIN partIdHash[p]
          /\ UNCHANGED <<tableVars, handling>>
       \/ /\ key \notin DOMAIN partIdHash[p]
          /\ Insert(p, key)
          /\ GoOn(p)
  /\ UNCHANGED <<mainVars, serverVars, step, sz, countVars, answerVars, closed>>

\* mergePartData; nothing is forwarded
ReceivePartData(p) ==
  /\ Reads(p, "partData")
  /\ Consume(p)
  /\ saleCount' = [saleCount EXCEPT ![p] =
       Merged(@, Head(wire[p]).key, Head(wire[p]).count)]
  /\ UNCHANGED <<mainVars, serverVars, step, tableVars, sz, sent, answerVars,
                 closed, handling>>

\* calculator.sendPart(part_)
Forward(p) ==
  /\ handling[p] # None
  /\ Send(p, handling[p])
  /\ handling' = [handling EXCEPT ![p] = None]
  /\ UNCHANGED <<mainVars, serverVars, step, tableVars, sz, countVars,
                 answerVars, closed>>

Serve(p) ==
  \/ ReceiveFinish(p) \/ ReceivePart(p) \/ ReceivePartData(p) \/ Forward(p)
  \/ Ring!Notify(p) /\ UNCHANGED advancedVars

Next == \E p \in Procs : Calculate(p) \/ Synchronise(p) \/ Serve(p)

Spec == Init /\ [][Next]_vars

-------------------------------------------------------------------------------
(***************************************************************************)
(* Properties.                                                             *)
(***************************************************************************)

\* What p's orders of a part come to, and all its orders.
Ordered(p, key) ==
  Total([i \in DOMAIN Orders[p] |->
           IF Orders[p][i].lPartkey = key THEN Orders[p][i].lQuantity ELSE 0])

Quantity(p) ==
  Total([i \in DOMAIN Orders[p] |-> Orders[p][i].lQuantity])

\* What the orders of some instances come to: the sums by part, each filed
\* under the brand of its part.
SumOf(S) ==
  [k \in {<<o.lPartkey, o.lPartkey>> : o \in UNION {Range(Orders[p]) : p \in S}}
     |-> Total([p \in 1..N |-> IF p \in S THEN Ordered(p, k[2]) ELSE 0])]

\* The phase in which p sends its counts; select_idx would be the next.
Turn(p) == 2 + ((select_idx - 1 - p + N) % N)

\* The instances whose counts p has when its turn comes.
Until(p) == {q \in Procs : Turn(q) <= Turn(p)}

Undersold ==
  {[key |-> k, count |-> SumOf(Procs)[k]] :
     k \in {j \in DOMAIN SumOf(Procs) :
              SellsBadly(SumOf(Procs)[j], Total([p \in 1..N |-> Quantity(p)]),
                         Cardinality(AllParts))}}

Key == AllParts \X AllParts

Message == [head : {"finish"}, idx : Nat, cnt : [Procs -> Nat]]
           \cup [head : {"part"}, part : AllParts]
           \cup [head : {"partData"}, key : Key, count : Nat]

TypeOK ==
  /\ \A p \in Procs :
       /\ \A i \in DOMAIN wire[p] : wire[p][i] \in Message
       /\ IsInjective(parts[p]) /\ Range(parts[p]) \subseteq AllParts
       /\ \A k \in DOMAIN partIdHash[p] : partIdHash[p][k] \in DOMAIN parts[p]
       /\ DOMAIN saleCount[p] \subseteq Key
       /\ \A k \in DOMAIN saleCount[p] : saleCount[p][k] \in Nat
       /\ sent[p] \subseteq DOMAIN saleCount[p]
  /\ sz \in [Procs -> 0..Cardinality(AllParts)]
  /\ step \in [Procs -> Nat] /\ partCount \in [Procs -> Nat]
  /\ underSale \in [Procs -> SUBSET [key : Key, count : Nat]]
  /\ closed \subseteq Procs
  /\ handling \in [Procs -> {None} \cup Message]

\* An instance that counts its orders has the whole table, and its hash names
\* the right position of every part, although the server appended to the vector
\* while the main thread was sending it, and parts were sent more than once.
\* So no part that is still on its way is forwarded any more.
TablesComplete ==
  \A p \in Procs : finish_index[p] > 0 =>
    /\ Range(parts[p]) = AllParts
    /\ Len(parts[p]) = Cardinality(AllParts)
    /\ \A k \in AllParts : parts[p][partIdHash[p][k]] = k

\* When its turn comes an instance has received all the counts of those before
\* it, each once, and they do not change while it sends: what it sends is the
\* sum over all of them and itself.
ChainComplete ==
  \A p \in Procs :
    finish_index[p] >= Turn(p) => saleCount[p] = SumOf(Until(p))

\* The answer is the one a single instance with all parts and orders would give.
AnswerIsRight ==
  step[select_idx] = 1 /\ finish_index[select_idx] = N + 2 =>
    underSale[select_idx] = Undersold

===============================================================================
