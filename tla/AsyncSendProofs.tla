---------------------------- MODULE AsyncSendProofs ----------------------------
(***************************************************************************)
(* For every capacity of the socket, and any number of messages and        *)
(* barriers: AsyncSend keeps its types, loses no event of the reactor, and *)
(* writes the messages in the order they were sent as long as no message   *)
(* is sent while an earlier one has bytes left.  In the second half: the   *)
(* work the scheduler counts is the writes that are not finished, so that  *)
(* run() returns when all that was sent before it was called has been      *)
(* written.                                                                *)
(***************************************************************************)
EXTENDS AsyncSend, SequenceTheorems, FiniteSetTheorems, TLAPS

-------------------------------------------------------------------------------
(***************************************************************************)
(* The inductive invariant.                                                *)
(***************************************************************************)

\* A thread is between taking the lock and starting the write.
Copying == \E t \in Threads : at[t] \in {"copy", "start"}

\* The messages whose write has been started.
Started == IF Copying THEN 1..(Len(left) - 1) ELSE 1..Len(left)

\* m_mtx
Locked ==
  /\ \A t, u \in Threads : at[t] # "out" /\ at[u] # "out" => t = u
  /\ \A t \in Threads : at[t] # "out" => Len(left) > 0

QueuesStarted ==
  /\ write_queue \in Seq(Started)
  /\ current \in Seq(Started)
  /\ op_queue \in Seq({TaskOperation, DescriptorState} \cup Started)

\* What the positions of main say of the other variables.
Positions ==
  /\ main # "calculate" => finish_index < Rounds
  /\ main = "complete" => current # << >>

\* Only the last message may have bytes left, the stream ends with what has
\* been written of it, and the buffer is its.
InOrder ==
  /\ \A m \in 1..(Len(left) - 1) : left[m] = 0
  /\ Len(left) = 0 => stream = << >>
  /\ Len(left) > 0 => Len(stream) = Half * Len(left) - left[Len(left)]
  /\ Copying => left[Len(left)] = Half
  /\ \A i \in 1..Len(stream) : stream[i] = i
  /\ Len(left) > 0 => msgToServer[1] = HalfOf(Len(left), 1)
  /\ Len(left) > 0 /\ (\A t \in Threads : at[t] # "copy") =>
       msgToServer[2] = HalfOf(Len(left), 2)

OrderInv == ~ overlapped => InOrder

DescriptorQueued == \E i \in 1..Len(op_queue) : op_queue[i] = DescriptorState

\* The socket owes an event, or it has come and is not yet handled.
EventDue == ready \/ nospace \/ main = "io" \/ DescriptorQueued

EventInv ==
  /\ write_queue # << >> => registered /\ EventDue
  /\ registered /\ ~ try_speculative => EventDue
  /\ main = "io" /\ ~ try_speculative => registered /\ (ready \/ nospace)

-------------------------------------------------------------------------------
(***************************************************************************)
(* Sequences and the socket.                                               *)
(***************************************************************************)

LEMMA AppendElements ==
  ASSUME NEW S, NEW s \in Seq(S), NEW e \in S
  PROVE  /\ Append(s, e) \in Seq(S)
         /\ Len(Append(s, e)) = Len(s) + 1
         /\ \A i \in 1..Len(s) : Append(s, e)[i] = s[i]
         /\ Append(s, e)[Len(s) + 1] = e
  BY AppendProperties, LenProperties

LEMMA SingleSeq ==
  ASSUME NEW S, NEW e \in S
  PROVE  <<e>> \in Seq(S) /\ Len(<<e>>) = 1 /\ <<e>>[1] = e /\ <<e>> # << >>
  OBVIOUS

LEMMA RoomType ==
  ASSUME TypeOK
  PROVE  Room \in 0..Capacity /\ Len(stream) \in Nat /\ Len(left) \in Nat
  BY CapacityAssumption, LenProperties DEF TypeOK, Room, Messages

LEMMA LeftType ==
  ASSUME TypeOK, NEW m \in Messages
  PROVE  /\ left[m] \in 0..Half
         /\ \A k \in 0..Half : /\ [left EXCEPT ![m] = k] \in Seq(0..Half)
                               /\ Len([left EXCEPT ![m] = k]) = Len(left)
  <1>1. left \in Seq(0..Half) /\ m \in 1..Len(left)
    BY DEF TypeOK, Messages
  <1>2. left[m] \in 0..Half
    BY <1>1, ElementOfSeq
  <1>3. ASSUME NEW k \in 0..Half
        PROVE  /\ [left EXCEPT ![m] = k] \in Seq(0..Half)
               /\ Len([left EXCEPT ![m] = k]) = Len(left)
    BY <1>1, ExceptSeq
  <1> QED
    BY <1>2, <1>3

\* What one send() to the socket does: n halves are taken, all that are left or
\* all there is room for, and they become the end of the stream.
LEMMA Performed ==
  ASSUME TypeOK, NEW m \in Messages, Perform(m)
  PROVE  \E n \in 0..left[m] :
           /\ n <= Room /\ (n = 0 => left[m] = 0)
           /\ left' = [left EXCEPT ![m] = @ - n]
           /\ left' \in Seq(0..Half) /\ Len(left') = Len(left)
           /\ stream' \in Seq(0..Half * Len(left))
           /\ Len(stream') = Len(stream) + n
           /\ \A i \in 1..Len(stream) : stream'[i] = stream[i]
           /\ \A i \in 1..n :
                stream'[Len(stream) + i] = msgToServer[Half - left[m] + i]
           /\ try_speculative' = (n = left[m])
           /\ nospace' = (nospace \/ n < left[m])
  <1> DEFINE n == IF Room < left[m] THEN Room ELSE left[m]
             from == Half + 1 - left[m]
             part == SubSeq(msgToServer, from, from + n - 1)
  <1>1. left[m] \in 0..Half /\ Room \in Nat /\ Room > 0 /\ Half = 2
    BY LeftType, RoomType DEF Perform, Half
  <1>2. n \in 0..left[m] /\ n <= Room /\ (n = 0 => left[m] = 0)
    BY <1>1
  <1>3. from \in 1..3 /\ from + n - 1 \in 0..2
    BY <1>1, <1>2
  <1> HIDE DEF n, from, part
  <1>4. \A i \in from..(from + n - 1) : msgToServer[i] \in 0..Half * Len(left)
    <2>1. msgToServer \in [1..2 -> 0..Half * Len(left)]
      BY <1>1 DEF TypeOK
    <2>2. from..(from + n - 1) \subseteq 1..2
      BY <1>3
    <2> QED
      BY <2>1, <2>2
  <1>5. /\ part \in Seq(0..Half * Len(left))
        /\ Len(part) = n
        /\ \A i \in 1..n : part[i] = msgToServer[from + i - 1]
    <2>1. from \in Int /\ from + n - 1 \in Int
      BY <1>3
    <2>2. /\ part \in Seq(0..Half * Len(left))
          /\ Len(part) = IF from <= from + n - 1 THEN (from + n - 1) - from + 1
                                                 ELSE 0
          /\ \A i \in 1..((from + n - 1) - from + 1) :
               part[i] = msgToServer[from + i - 1]
      BY <1>4, <2>1, SubSeqProperties DEF part
    <2>3. n \in Nat /\ from \in Int
      BY <1>1, <1>2, <1>3
    <2>4. (from + n - 1) - from + 1 = n /\ (from <= from + n - 1 <=> n > 0)
      BY <2>3
    <2> QED
      BY <2>2, <2>3, <2>4
  <1>6. stream \in Seq(0..Half * Len(left)) /\ stream' = stream \o part
    BY DEF TypeOK, Perform, n, from, part
  <1>7. /\ stream' \in Seq(0..Half * Len(left))
        /\ Len(stream') = Len(stream) + n
        /\ \A i \in 1..(Len(stream) + n) :
             stream'[i] = IF i <= Len(stream) THEN stream[i]
                                              ELSE part[i - Len(stream)]
    BY <1>5, <1>6, ConcatProperties
  <1>8. \A i \in 1..n :
          stream'[Len(stream) + i] = msgToServer[Half - left[m] + i]
    <2> SUFFICES ASSUME NEW i \in 1..n
                 PROVE  stream'[Len(stream) + i] = msgToServer[Half - left[m] + i]
      OBVIOUS
    <2>1. Len(stream) \in Nat /\ n \in Nat
      BY <1>1, <1>2, RoomType
    <2>2. /\ Len(stream) + i \in 1..(Len(stream) + n)
          /\ ~ (Len(stream) + i <= Len(stream))
          /\ Len(stream) + i - Len(stream) = i
      BY <2>1
    <2>3. from + i - 1 = Half - left[m] + i
      BY <1>1, <2>1 DEF from
    <2>4. stream'[Len(stream) + i] = part[i]
      BY <1>7, <2>2
    <2> QED
      BY <1>5, <2>3, <2>4
  <1>9. \A i \in 1..Len(stream) : stream'[i] = stream[i]
    BY <1>1, <1>2, <1>7, RoomType
  <1>10. left[m] - n \in 0..Half
    BY <1>1, <1>2 
  <1>11. /\ left' = [left EXCEPT ![m] = @ - n]
         /\ left' \in Seq(0..Half) /\ Len(left') = Len(left)
    BY <1>10, LeftType DEF Perform, n
  <1>12. try_speculative' = (n = left[m]) /\ nospace' = (nospace \/ n < left[m])
    BY DEF Perform, n
  <1> QED
    BY <1>2, <1>7, <1>8, <1>9, <1>11, <1>12


-------------------------------------------------------------------------------
(***************************************************************************)
(* Types.                                                                  *)
(***************************************************************************)

TypeInv == TypeOK /\ Locked /\ Positions

LEMMA InitTypeInv == Init => TypeInv
  <1> SUFFICES ASSUME Init PROVE TypeInv
    OBVIOUS
  <1>1. /\ << >> \in Seq(0..Half) /\ << >> \in Seq(Messages)
        /\ << >> \in Seq(0..Half * Len(left)) /\ Len(<< >>) = 0
    BY EmptySeq
  <1>2. <<TaskOperation>> \in Seq({TaskOperation, DescriptorState} \cup Messages)
    BY SingleSeq
  <1>3. msgToServer \in [1..Half -> 0..Half * Len(left)]
    BY <1>1 DEF Init, Half
  <1>4. Capacity \in Nat /\ Rounds \in Nat /\ Len(left) = 0 /\ Len(stream) = 0
    BY <1>1, CapacityAssumption, RoundsAssumption DEF Init
  <1>5. /\ read \in 0..Len(stream) /\ Len(stream) - read <= Capacity
        /\ finish_index \in 0..Rounds
        /\ token \in 0..Len(left) /\ before \in 0..Len(left)
    BY <1>4 DEF Init
  <1>6. at \in [Threads -> {"out", "copy", "start", "post"}]
    BY DEF Init
  <1>7. /\ left \in Seq(0..Half) /\ current \in Seq(Messages)
        /\ write_queue \in Seq(Messages) /\ stream \in Seq(0..Half * Len(left))
        /\ op_queue \in Seq({TaskOperation, DescriptorState} \cup Messages)
    BY <1>1, <1>2 DEF Init
  <1>8. TypeOK
    <2>1. /\ main = "calculate" /\ next = "calculate"
          /\ outstanding_work \in Int
      BY DEF Init
    <2>2. /\ stopped \in BOOLEAN /\ try_speculative \in BOOLEAN
          /\ registered \in BOOLEAN /\ ready \in BOOLEAN
          /\ nospace \in BOOLEAN /\ overlapped \in BOOLEAN
      BY DEF Init
    <2> QED
      BY <1>3, <1>5, <1>6, <1>7, <2>1, <2>2 DEF TypeOK
  <1>9. Locked /\ Positions
    BY DEF Init, Locked, Positions
  <1> QED
    BY <1>8, <1>9 DEF TypeInv

\* A message is added, and everything that names messages keeps its type.
LEMMA BeginType ==
  ASSUME TypeOK, Locked, NEW t \in Threads, Begin(t)
  PROVE  /\ at' \in [Threads -> {"out", "copy", "start", "post"}]
         /\ msgToServer' \in [1..Half -> 0..Half * Len(left')]
         /\ left' \in Seq(0..Half) /\ Len(left') = Len(left) + 1
         /\ overlapped' \in BOOLEAN
         /\ token \in 0..Len(left') /\ before \in 0..Len(left')
         /\ op_queue \in Seq({TaskOperation, DescriptorState} \cup Messages')
         /\ current \in Seq(Messages') /\ write_queue \in Seq(Messages')
         /\ stream \in Seq(0..Half * Len(left'))
         /\ Locked'
  <1>1. Len(left) \in Nat /\ Half \in 0..Half /\ Half = 2
    BY RoomType DEF Half
  <1>2. /\ left' = Append(left, Half) /\ left' \in Seq(0..Half)
        /\ Len(left') = Len(left) + 1
    BY <1>1, AppendElements DEF Begin, TypeOK
  <1>3. Messages \subseteq Messages'
        /\ 0..Half * Len(left) \subseteq 0..Half * Len(left')
    BY <1>1, <1>2 DEF Messages
  <1>4. HalfOf(Len(left'), 1) \in 0..Half * Len(left')
    BY <1>1, <1>2 DEF HalfOf
  <1>5. msgToServer' \in [1..Half -> 0..Half * Len(left')]
    BY <1>3, <1>4 DEF Begin, TypeOK
  <1>6. /\ op_queue \in Seq({TaskOperation, DescriptorState} \cup Messages')
        /\ current \in Seq(Messages') /\ write_queue \in Seq(Messages')
        /\ stream \in Seq(0..Half * Len(left'))
    BY <1>3, SeqMonotonic DEF TypeOK
  <1>7. at' \in [Threads -> {"out", "copy", "start", "post"}] /\ Locked'
    BY <1>1, <1>2 DEF Begin, Moves, TypeOK, Locked
  <1>8. token \in 0..Len(left') /\ before \in 0..Len(left')
    BY <1>1, <1>2 DEF TypeOK
  <1>9. overlapped' \in BOOLEAN
    BY DEF Begin, TypeOK
  <1> QED
    BY <1>2, <1>5, <1>6, <1>7, <1>8, <1>9

\* The kernel's variables after a send().
LEMMA PerformType ==
  ASSUME TypeOK, NEW m \in Messages, Perform(m), read' = read
  PROVE  /\ left' \in Seq(0..Half) /\ Len(left') = Len(left)
         /\ stream' \in Seq(0..Half * Len(left'))
         /\ read' \in 0..Len(stream') /\ Len(stream') - read' <= Capacity
         /\ try_speculative' \in BOOLEAN /\ nospace' \in BOOLEAN
  <1>1. PICK n \in 0..left[m] :
           /\ n <= Room /\ left' \in Seq(0..Half) /\ Len(left') = Len(left)
           /\ stream' \in Seq(0..Half * Len(left))
           /\ Len(stream') = Len(stream) + n
           /\ try_speculative' = (n = left[m])
           /\ nospace' = (nospace \/ n < left[m])
    BY Performed
  <1>2. n \in Nat /\ Len(stream) \in Nat /\ read \in 0..Len(stream)
    BY <1>1, LeftType, RoomType DEF TypeOK, Half
  <1>3. read' \in 0..Len(stream') /\ Len(stream') - read' <= Capacity
    BY <1>1, <1>2, CapacityAssumption DEF Room
  <1>4. try_speculative' \in BOOLEAN /\ nospace' \in BOOLEAN
    BY <1>1 DEF TypeOK
  <1> QED
    BY <1>1, <1>3, <1>4

\* The reactor's and the kernel's variables after start_op.
LEMMA StartOpType ==
  ASSUME TypeOK, NEW m \in Messages, read' = read,
         StartPerformed(m) \/ StartQueued(m)
  PROVE  /\ left' \in Seq(0..Half) /\ Len(left') = Len(left)
         /\ stream' \in Seq(0..Half * Len(left'))
         /\ read' \in 0..Len(stream') /\ Len(stream') - read' <= Capacity
         /\ write_queue' \in Seq(Messages)
         /\ try_speculative' \in BOOLEAN /\ registered' \in BOOLEAN
         /\ ready' \in BOOLEAN /\ nospace' \in BOOLEAN
  <1>1. CASE StartPerformed(m)
    BY <1>1, PerformType DEF StartPerformed, TypeOK
  <1>2. CASE StartQueued(m)
    <2>1. write_queue' \in Seq(Messages)
      BY <1>2, AppendElements DEF StartQueued, TypeOK
    <2>2. registered' \in BOOLEAN /\ ready' \in BOOLEAN /\ nospace' \in BOOLEAN
      BY <1>2 DEF StartQueued, Rearm, TypeOK
    <2> QED
      BY <1>2, <2>1, <2>2 DEF StartQueued, TypeOK
  <1> QED
    BY <1>1, <1>2

\* The types of the queues do not change when the number of messages does not.
LEMMA SameMessages ==
  ASSUME Len(left') = Len(left)
  PROVE  Messages' = Messages
  BY DEF Messages

LEMMA NextTypeInv == TypeInv /\ [Next]_vars => TypeInv'
  <1> SUFFICES ASSUME TypeOK, Locked, Positions, [Next]_vars PROVE TypeInv'
    BY DEF TypeInv
  <1>a. Rounds \in Nat /\ Capacity \in Nat
    BY CapacityAssumption, RoundsAssumption
  <1>b. Len(left) \in Nat /\ Len(stream) \in Nat /\ Room \in 0..Capacity
    BY RoomType
  <1>1. ASSUME NEW t \in Threads, SendData(t) PROVE TypeInv'
    <2>1. Begin(t)
      BY <1>1 DEF SendData
    <2> QED
      BY <1>1, <2>1, BeginType
         DEF SendData, TypeInv, TypeOK, Positions, mainVars, schedulerVars,
             reactorVars, kernelVars
  <1>2. CASE SendFinish
    <2>1. Begin("main") /\ "main" \in Threads
      BY <1>2 DEF SendFinish, Threads
    <2>2. token' \in 0..Len(left')
      BY <1>2, <1>b, <2>1, BeginType DEF SendFinish
    <2> QED
      BY <1>2, <2>1, <2>2, BeginType
         DEF SendFinish, TypeInv, TypeOK, Positions, mainVars, schedulerVars,
             reactorVars, kernelVars
  <1>3. ASSUME NEW t \in Threads, Copy(t) PROVE TypeInv'
    <2>1. HalfOf(Len(left), 2) \in 0..Half * Len(left)
      BY <1>3, <1>b DEF Copy, Moves, Locked, HalfOf, Half
    <2>2. msgToServer' \in [1..Half -> 0..Half * Len(left)]
      BY <1>3, <2>1 DEF Copy, TypeOK
    <2>3. at' \in [Threads -> {"out", "copy", "start", "post"}] /\ Locked'
      BY <1>3 DEF Copy, Moves, TypeOK, Locked
    <2> QED
      BY <1>3, <2>2, <2>3
         DEF Copy, TypeInv, TypeOK, Positions, mainVars, schedulerVars,
             reactorVars, kernelVars, Messages
  <1>4. ASSUME NEW t \in Threads, Start(t) PROVE TypeInv'
    <2>1. Len(left) \in Messages /\ read' = read
      BY <1>4, <1>b DEF Start, Return, Moves, Locked, Messages
    <2>2. StartPerformed(Len(left)) \/ StartQueued(Len(left))
      BY <1>4 DEF Start
    <2>3. Len(left') = Len(left) /\ Messages' = Messages
      BY <2>1, <2>2, StartOpType, SameMessages
    <2>4. at' \in [Threads -> {"out", "copy", "start", "post"}] /\ Locked'
      BY <1>4, <2>3 DEF Start, Moves, TypeOK, Locked
    <2>5. /\ main' \in {main, "wait"} /\ (main' # main => main = "finish")
          /\ UNCHANGED <<next, finish_index, msgToServer, token, overlapped,
                         stopped, current, before, op_queue>>
          /\ outstanding_work' \in Int
      BY <1>4 DEF Start, Return, mainVars, TypeOK
    <2>6. Positions'
      BY <2>5 DEF Positions
    <2>7. TypeOK'
      BY <2>1, <2>2, <2>3, <2>4, <2>5, StartOpType DEF TypeOK
    <2> QED
      BY <2>4, <2>6, <2>7 DEF TypeInv
  <1>5. ASSUME NEW t \in Threads, Post(t) PROVE TypeInv'
    <2>1. Len(left) \in Messages
      BY <1>5, <1>b DEF Post, Moves, Locked, Messages
    <2>2. op_queue' \in Seq({TaskOperation, DescriptorState} \cup Messages)
      BY <1>5, <2>1, AppendElements DEF Post, TypeOK
    <2>3. at' \in [Threads -> {"out", "copy", "start", "post"}] /\ Locked'
      BY <1>5 DEF Post, Moves, TypeOK, Locked
    <2>4. /\ main' \in {main, "wait"} /\ (main' # main => main = "finish")
          /\ UNCHANGED <<next, finish_index, msgToServer, token, overlapped,
                         stopped, current, read, before, left, write_queue,
                         try_speculative, registered, ready, nospace, stream>>
          /\ outstanding_work' \in Int
      BY <1>5 DEF Post, Return, reactorVars, TypeOK
    <2>5. Positions'
      BY <2>4 DEF Positions
    <2>6. TypeOK'
      BY <2>2, <2>3, <2>4 DEF TypeOK, Messages
    <2> QED
      BY <2>3, <2>5, <2>6 DEF TypeInv
  <1>6. CASE RunIos
    BY <1>6, <1>b DEF RunIos, TypeInv, TypeOK, Locked, Positions, sendVars,
         kernelVars, reactorVars, Messages, Threads
  <1>7. CASE RunReturns \/ Wake
    BY <1>7 DEF RunReturns, Wake, Goes, TypeInv, TypeOK, Locked, Positions,
         sendVars, schedulerVars, kernelVars, reactorVars, Messages
  <1>8. CASE ResetIos
    <2>1. /\ main = "reset" /\ main' = next /\ stopped' = FALSE
          /\ finish_index' \in {finish_index, finish_index + 1}
          /\ (next = "finish" => finish_index' = finish_index)
          /\ UNCHANGED <<next, at, msgToServer, token, overlapped, left, op_queue,
                         outstanding_work, current, write_queue, try_speculative,
                         registered, ready, nospace, stream, read, before>>
      BY <1>8 DEF ResetIos, Goes, sendVars, kernelVars, reactorVars
    <2>2. finish_index' \in 0..Rounds /\ Positions'
      BY <2>1, <1>a DEF TypeOK, Positions
    <2>3. TypeOK'
      BY <2>1, <2>2 DEF TypeOK, Messages
    <2> QED
      BY <2>1, <2>2, <2>3 DEF TypeInv, Locked
  <1>9. CASE TakeTask \/ TakeDescriptor
    <2>1. op_queue' \in Seq({TaskOperation, DescriptorState} \cup Messages)
      BY <1>9, HeadTailProperties DEF TakeTask, TakeDescriptor, Takes, TypeOK
    <2>2. main' \in {"epoll", "io"} /\ main = "run"
      BY <1>9 DEF TakeTask, TakeDescriptor, Takes, Goes
    <2>3. try_speculative' \in BOOLEAN
      BY <1>9 DEF TakeTask, TakeDescriptor, TypeOK, reactorVars
    <2>4. UNCHANGED <<next, finish_index, at, msgToServer, token, overlapped, left,
                      outstanding_work, stopped, current, write_queue, registered,
                      ready, nospace, stream, read, before>>
      BY <1>9 DEF TakeTask, TakeDescriptor, sendVars, reactorVars, kernelVars
    <2> QED
      BY <2>1, <2>2, <2>3, <2>4
         DEF TypeInv, TypeOK, Locked, Positions, Messages
  <1>10. CASE EpollReturns
    <2> DEFINE S == {TaskOperation, DescriptorState} \cup Messages
    <2>1. <<DescriptorState>> \in Seq(S) /\ << >> \in Seq(S)
          /\ <<TaskOperation>> \in Seq(S)
      BY SingleSeq, EmptySeq
    <2>2. op_queue \o (IF ready THEN <<DescriptorState>> ELSE << >>) \in Seq(S)
      BY <2>1, ConcatProperties DEF TypeOK
    <2>3. op_queue' \in Seq(S)
      BY <1>10, <2>1, <2>2, ConcatProperties DEF EpollReturns
    <2> QED
      BY <1>10, <2>3
         DEF EpollReturns, Goes, sendVars, reactorVars, TypeInv, TypeOK, Locked,
             Positions, Messages
  <1>11. CASE TakeOperation
    <2>1. PICK m \in DOMAIN left : Takes(m, "complete") /\ current' = <<m>>
      BY <1>11 DEF TakeOperation
    <2>2. m \in Messages
      BY <2>1, LenProperties DEF TypeOK, Messages
    <2>3. op_queue' \in Seq({TaskOperation, DescriptorState} \cup Messages)
      BY <2>1, HeadTailProperties DEF Takes, TypeOK
    <2>4. current' \in Seq(Messages) /\ current' # << >>
      BY <2>1, <2>2, SingleSeq
    <2> QED
      BY <1>11, <2>1, <2>3, <2>4
         DEF TakeOperation, Takes, Goes, TypeInv, TypeOK, Locked, Positions,
             sendVars, reactorVars, kernelVars, Messages
  <1>12. CASE PerformIo
    <2>1. /\ Head(write_queue) \in Messages /\ Tail(write_queue) \in Seq(Messages)
          /\ Perform(Head(write_queue)) /\ read' = read
      BY <1>12, HeadTailProperties DEF PerformIo, TypeOK
    <2>2. current' \in Seq(Messages) /\ write_queue' \in Seq(Messages)
      BY <1>12, <2>1, AppendElements DEF PerformIo, TypeOK
    <2>3. Len(left') = Len(left) /\ Messages' = Messages
      BY <2>1, PerformType, SameMessages
    <2>4. UNCHANGED <<main, next, finish_index, at, msgToServer, token, overlapped,
                      op_queue, outstanding_work, stopped, registered, ready,
                      before>>
      BY <1>12 DEF PerformIo, mainVars, sendVars, schedulerVars
    <2>5. TypeOK'
      BY <2>1, <2>2, <2>3, <2>4, PerformType DEF TypeOK
    <2> QED
      BY <1>12, <2>3, <2>4, <2>5 DEF PerformIo, TypeInv, Locked, Positions
  <1>13. CASE EndIo
    <2>1. nospace' \in BOOLEAN
      BY <1>13 DEF EndIo, TypeOK
    <2>2. /\ op_queue' \in Seq({TaskOperation, DescriptorState} \cup Messages)
          /\ current' \in Seq(Messages)
          /\ main' \in {"run", "complete"} /\ main = "io"
          /\ (main' = "complete" => current' # << >>)
      <3>1. CASE current = << >>
        BY <1>13, <3>1 DEF EndIo, Goes, TypeOK
      <3>2. CASE current # << >>
        <4>1. Head(current) \in Messages /\ Tail(current) \in Seq(Messages)
          BY <3>2, HeadTailProperties DEF TypeOK
        <4>2. Tail(current) \in Seq({TaskOperation, DescriptorState} \cup Messages)
          BY <4>1, SeqMonotonic
        <4>3. op_queue \o Tail(current)
                \in Seq({TaskOperation, DescriptorState} \cup Messages)
          BY <4>2, ConcatProperties DEF TypeOK
        <4> QED
          BY <1>13, <3>2, <4>1, <4>3, SingleSeq DEF EndIo, Goes
      <3> QED
        BY <3>1, <3>2
    <2> QED
      BY <1>13, <2>1, <2>2
         DEF EndIo, TypeInv, TypeOK, Locked, Positions, sendVars, reactorVars,
             Messages
  <1>14. CASE Complete
    <2> DEFINE m == current[1]
    <2>1. m \in Messages
      BY <1>14, ElementOfSeq, EmptySeq DEF Complete, Goes, Positions, TypeOK
    <2>2. /\ main' = "run" /\ main = "complete" /\ current' = << >>
          /\ UNCHANGED <<next, finish_index, at, msgToServer, token, overlapped,
                         before>>
      BY <1>14 DEF Complete, Goes, sendVars
    <2>3. current' \in Seq(Messages) /\ Positions'
      BY <2>2, EmptySeq DEF Positions
    <2>4. CASE CompleteWritten
      BY <2>2, <2>3, <2>4
         DEF CompleteWritten, TypeInv, TypeOK, Locked, reactorVars, kernelVars,
             Messages
    <2>5. CASE CompletePartly
      <3>1. /\ StartPerformed(m) \/ StartQueued(m)
            /\ op_queue' \in {op_queue, Append(op_queue, m)}
            /\ UNCHANGED <<outstanding_work, stopped, read>>
        BY <2>5 DEF CompletePartly
      <3>2. op_queue' \in Seq({TaskOperation, DescriptorState} \cup Messages)
        <4>1. m \in {TaskOperation, DescriptorState} \cup Messages
          BY <2>1
        <4>2. op_queue \in Seq({TaskOperation, DescriptorState} \cup Messages)
          BY DEF TypeOK
        <4>3. Append(op_queue, m)
                \in Seq({TaskOperation, DescriptorState} \cup Messages)
          BY <4>1, <4>2, AppendElements
        <4> QED
          BY <3>1, <4>2, <4>3
      <3>3. Len(left') = Len(left) /\ Messages' = Messages
        BY <2>1, <3>1, StartOpType, SameMessages
      <3>4. TypeOK'
        BY <2>1, <2>2, <2>3, <3>1, <3>2, <3>3, StartOpType DEF TypeOK
      <3> QED
        BY <2>2, <2>3, <3>3, <3>4 DEF TypeInv, Locked
    <2> QED
      BY <1>14, <2>4, <2>5 DEF Complete
  <1>15. CASE Read
    <2>1. /\ read < Len(stream) /\ read' = read + 1
          /\ nospace' = FALSE /\ ready' = (ready \/ (nospace /\ registered))
          /\ UNCHANGED <<main, next, finish_index, at, msgToServer, token,
                         overlapped, left, op_queue, outstanding_work, stopped,
                         current, write_queue, try_speculative, registered,
                         stream, before>>
      BY <1>15 DEF Read, mainVars, sendVars, schedulerVars, reactorVars
    <2>2. read' \in 0..Len(stream') /\ Len(stream') - read' <= Capacity
      BY <2>1, <1>a, <1>b DEF TypeOK
    <2>3. ready' \in BOOLEAN /\ nospace' \in BOOLEAN
      BY <2>1 DEF TypeOK
    <2> QED
      BY <2>1, <2>2, <2>3 DEF TypeInv, TypeOK, Locked, Positions, Messages
  <1>16. CASE UNCHANGED vars
    BY <1>16 DEF vars, TypeInv, TypeOK, Locked, Positions, mainVars, sendVars,
         schedulerVars, reactorVars, kernelVars, Messages
  <1> QED
    BY <1>1, <1>2, <1>3, <1>4, <1>5, <1>6, <1>7, <1>8, <1>9, <1>10, <1>11,
       <1>12, <1>13, <1>14, <1>15, <1>16
       DEF Next, Main, Run, Sending, Threads

\* Every variable keeps its type: the queues name messages that exist, the socket
\* never holds more than its capacity, and no more is read than was written.
THEOREM TypeCorrect == Spec => []TypeOK
  <1>1. TypeInv => TypeOK
    BY DEF TypeInv
  <1> QED
    BY <1>1, InitTypeInv, NextTypeInv, PTL DEF Spec


-------------------------------------------------------------------------------
(***************************************************************************)
(* Events.                                                                 *)
(***************************************************************************)

OpQueueType == op_queue \in Seq({TaskOperation, DescriptorState} \cup Messages)

\* What is put behind the queue does not hide the reactor's operation.
LEMMA QueuedBehind ==
  ASSUME NEW S, op_queue \in Seq(S), NEW s \in Seq(S), op_queue' = op_queue \o s,
         DescriptorQueued
  PROVE  DescriptorQueued'
  <1>1. PICK i \in 1..Len(op_queue) : op_queue[i] = DescriptorState
    BY DEF DescriptorQueued
  <1>2. Len(op_queue) \in Nat /\ Len(s) \in Nat
    BY LenProperties
  <1>3. Len(op_queue') = Len(op_queue) + Len(s) /\ op_queue'[i] = op_queue[i]
    BY <1>1, <1>2, ConcatProperties
  <1> QED
    BY <1>1, <1>2, <1>3 DEF DescriptorQueued

LEMMA QueuedAppend ==
  ASSUME OpQueueType, NEW o \in {TaskOperation, DescriptorState} \cup Messages,
         op_queue' = Append(op_queue, o), DescriptorQueued
  PROVE  DescriptorQueued'
  <1>1. PICK i \in 1..Len(op_queue) : op_queue[i] = DescriptorState
    BY DEF DescriptorQueued
  <1>2. Len(op_queue) \in Nat
    BY LenProperties DEF OpQueueType
  <1>3. Len(op_queue') = Len(op_queue) + 1 /\ op_queue'[i] = op_queue[i]
    BY <1>1, AppendElements DEF OpQueueType
  <1> QED
    BY <1>1, <1>2, <1>3 DEF DescriptorQueued

\* Taking another operation leaves the reactor's in the queue.
LEMMA QueuedTakes ==
  ASSUME OpQueueType, NEW o, NEW to, Takes(o, to), o # DescriptorState,
         DescriptorQueued
  PROVE  DescriptorQueued'
  <1>1. PICK i \in 1..Len(op_queue) : op_queue[i] = DescriptorState
    BY DEF DescriptorQueued
  <1>2. /\ op_queue # << >> /\ op_queue' = Tail(op_queue)
        /\ Head(op_queue) = op_queue[1] /\ Head(op_queue) # DescriptorState
    BY DEF Takes, OpQueueType
  <1>3. /\ Len(op_queue) \in Nat /\ Len(op_queue') = Len(op_queue) - 1
        /\ \A j \in 1..Len(op_queue') : op_queue'[j] = op_queue[j + 1]
    BY <1>2, HeadTailProperties, LenProperties DEF OpQueueType
  <1>4. i # 1
    BY <1>1, <1>2
  <1>5. i - 1 \in 1..Len(op_queue') /\ (i - 1) + 1 = i
    BY <1>1, <1>3, <1>4
  <1>6. op_queue'[i - 1] = DescriptorState
    BY <1>1, <1>3, <1>5
  <1> QED
    BY <1>5, <1>6 DEF DescriptorQueued

\* A send() that takes less than all leaves the socket owing an event.
LEMMA PerformEvent ==
  ASSUME TypeOK, NEW m \in Messages, Perform(m)
  PROVE  (nospace => nospace') /\ (~ try_speculative' => nospace')
  <1>1. PICK n \in 0..left[m] : /\ try_speculative' = (n = left[m])
                                /\ nospace' = (nospace \/ n < left[m])
    BY Performed
  <1>2. left[m] \in Nat
    BY LeftType DEF Half
  <1>3. n = left[m] \/ n < left[m]
    BY <1>2
  <1> QED
    BY <1>1, <1>3, Zenon

\* start_op: whoever calls it, an operation it queues has its event.
LEMMA StartOpEvent ==
  ASSUME TypeOK, EventInv, NEW m \in Messages,
         StartPerformed(m) \/ StartQueued(m),
         main # "io", main' # "io", DescriptorQueued => DescriptorQueued'
  PROVE  EventInv'
  <1>1. CASE StartPerformed(m)
    BY <1>1, PerformEvent DEF StartPerformed, EventInv, EventDue
  <1>2. CASE StartQueued(m)
    <2>1. CASE write_queue # << >>
      BY <1>2, <2>1 DEF StartQueued, EventInv, EventDue
    <2>2. CASE write_queue = << >> /\ ~ registered
      <3>1. Room > 0 \/ Room = 0
        BY RoomType
      <3>2. /\ registered' = TRUE
            /\ ready' = (ready \/ Room > 0) /\ nospace' = (nospace \/ Room = 0)
        BY <1>2, <2>2 DEF StartQueued, Rearm
      <3>3. ready' \/ nospace'
        BY <3>1, <3>2, Zenon
      <3> QED
        BY <3>2, <3>3 DEF EventInv, EventDue
    <2>3. CASE write_queue = << >> /\ registered
      BY <1>2, <2>3 DEF StartQueued, EventInv, EventDue
    <2> QED
      BY <2>1, <2>2, <2>3
  <1> QED
    BY <1>1, <1>2

LEMMA NextEvent ==
  ASSUME TypeInv, EventInv, [Next]_vars
  PROVE  EventInv'
  <1>a. TypeOK /\ Locked /\ Positions /\ OpQueueType
    BY DEF TypeInv, TypeOK, OpQueueType
  \* Steps that touch neither the reactor nor the kernel.
  <1>1. ASSUME UNCHANGED <<write_queue, registered, try_speculative, ready, nospace>>,
               DescriptorQueued => DescriptorQueued',
               main' = "io" <=> main = "io"
        PROVE  EventInv'
    BY <1>1 DEF EventInv, EventDue
  <1>2. ASSUME NEW t \in Threads, SendData(t) \/ Copy(t) PROVE EventInv'
    BY <1>1, <1>2 DEF SendData, Copy, mainVars, schedulerVars, reactorVars,
         kernelVars, DescriptorQueued
  <1>3. CASE SendFinish
    BY <1>1, <1>3 DEF SendFinish, mainVars, schedulerVars, reactorVars,
         kernelVars, DescriptorQueued
  <1>4. ASSUME NEW t \in Threads, Start(t) PROVE EventInv'
    <2>1. Len(left) \in Messages
      BY <1>4, <1>a, RoomType DEF Start, Moves, Locked, Messages
    <2>2. /\ StartPerformed(Len(left)) \/ StartQueued(Len(left))
          /\ main # "io" /\ main' # "io" /\ op_queue' = op_queue
      BY <1>4 DEF Start, Return, mainVars
    <2> QED
      BY <1>a, <2>1, <2>2, StartOpEvent DEF DescriptorQueued
  <1>5. ASSUME NEW t \in Threads, Post(t) PROVE EventInv'
    <2>1. Len(left) \in Messages
      BY <1>5, <1>a, RoomType DEF Post, Moves, Locked, Messages
    <2>2. /\ op_queue' = Append(op_queue, Len(left))
          /\ main' = "io" <=> main = "io"
          /\ UNCHANGED <<write_queue, registered, try_speculative, ready, nospace>>
      BY <1>5 DEF Post, Return, reactorVars
    <2> QED
      BY <1>1, <1>a, <2>1, <2>2, QueuedAppend
  <1>6. CASE RunIos
    BY <1>1, <1>6 DEF RunIos, reactorVars, kernelVars, DescriptorQueued
  <1>7. CASE RunReturns \/ Wake
    BY <1>1, <1>7 DEF RunReturns, Wake, Goes, schedulerVars, reactorVars,
         kernelVars, DescriptorQueued
  <1>8. CASE ResetIos
    BY <1>1, <1>8, <1>a DEF ResetIos, Goes, TypeOK, reactorVars, kernelVars,
         DescriptorQueued
  <1>9. CASE TakeTask
    <2>1. Takes(TaskOperation, "epoll") /\ TaskOperation # DescriptorState
      BY <1>9 DEF TakeTask, TaskOperation, DescriptorState
    <2>2. DescriptorQueued => DescriptorQueued'
      BY <1>a, <2>1, QueuedTakes
    <2> QED
      BY <1>1, <1>9, <2>1, <2>2 DEF TakeTask, Takes, Goes, reactorVars, kernelVars
  <1>10. CASE EpollReturns
    <2> DEFINE S == {TaskOperation, DescriptorState} \cup Messages
               found == IF ready THEN <<DescriptorState>> ELSE << >>
    <2>1. /\ <<DescriptorState>> \in Seq(S) /\ << >> \in Seq(S)
          /\ <<TaskOperation>> \in Seq(S) /\ op_queue \in Seq(S)
          /\ Len(<<DescriptorState>>) = 1 /\ <<DescriptorState>>[1] = DescriptorState
      BY <1>a, SingleSeq, EmptySeq DEF OpQueueType
    <2>2. found \in Seq(S) /\ op_queue' = op_queue \o found \o <<TaskOperation>>
      BY <1>10, <2>1 DEF EpollReturns
    <2> HIDE DEF S, found
    <2>3. found \o <<TaskOperation>> \in Seq(S)
          /\ op_queue' = op_queue \o (found \o <<TaskOperation>>)
      <3>1. found \o <<TaskOperation>> \in Seq(S)
        BY <2>1, <2>2, ConcatProperties
      <3>2. (op_queue \o found) \o <<TaskOperation>>
              = op_queue \o (found \o <<TaskOperation>>)
        BY <2>1, <2>2, ConcatAssociative
      <3> QED
        BY <2>2, <3>1, <3>2
    <2>4. DescriptorQueued => DescriptorQueued'
      BY <2>1, <2>3, QueuedBehind
    <2>5. ready => DescriptorQueued'
      <3> SUFFICES ASSUME ready PROVE DescriptorQueued'
        OBVIOUS
      <3>1. op_queue \o <<DescriptorState>> \in Seq(S)
            /\ Len(op_queue \o <<DescriptorState>>) = Len(op_queue) + 1
            /\ (op_queue \o <<DescriptorState>>)[Len(op_queue) + 1]
                 = DescriptorState
        <4>1. op_queue \o <<DescriptorState>> = Append(op_queue, DescriptorState)
          BY <2>1
        <4> QED
          BY <2>1, <4>1, AppendElements
      <3>2. op_queue' = (op_queue \o <<DescriptorState>>) \o <<TaskOperation>>
        BY <2>2 DEF found
      <3>3. Len(op_queue) \in Nat /\ Len(<<TaskOperation>>) = 1
        BY <2>1, LenProperties
      <3>4. Len(op_queue') = Len(op_queue) + 2
            /\ op_queue'[Len(op_queue) + 1] = DescriptorState
        BY <2>1, <3>1, <3>2, <3>3, ConcatProperties
      <3> QED
        BY <3>3, <3>4 DEF DescriptorQueued
    <2>6. /\ main = "epoll" /\ main' = "run"
          /\ UNCHANGED <<write_queue, registered, try_speculative, nospace>>
      BY <1>10 DEF EpollReturns, Goes, reactorVars
    <2> QED
      BY <2>4, <2>5, <2>6 DEF EventInv, EventDue
  <1>11. CASE TakeDescriptor
    BY <1>11 DEF TakeDescriptor, Takes, Goes, EventInv, EventDue, kernelVars
  <1>12. CASE TakeOperation
    <2>1. PICK m \in DOMAIN left : Takes(m, "complete")
      BY <1>12 DEF TakeOperation
    <2>2. m # DescriptorState
      BY <1>a, <2>1, LenProperties DEF TypeOK, DescriptorState
    <2>3. DescriptorQueued => DescriptorQueued'
      BY <1>a, <2>1, <2>2, QueuedTakes
    <2> QED
      BY <1>1, <1>12, <2>1, <2>3 DEF TakeOperation, Takes, Goes, reactorVars,
           kernelVars
  <1>13. CASE PerformIo
    <2>1. Head(write_queue) \in Messages /\ Perform(Head(write_queue))
      BY <1>13, <1>a, HeadTailProperties DEF PerformIo, TypeOK
    <2>2. ~ try_speculative' => nospace'
      BY <1>a, <2>1, PerformEvent
    <2> QED
      BY <1>13, <2>2 DEF PerformIo, mainVars, EventInv, EventDue
  <1>14. CASE EndIo
    <2>1. /\ main = "io" /\ main' \in {"run", "complete"}
          /\ UNCHANGED <<write_queue, registered, try_speculative, ready>>
          /\ nospace' = (nospace \/ (write_queue # << >> /\ try_speculative))
      BY <1>14 DEF EndIo, Goes, reactorVars
    <2> QED
      BY <2>1 DEF EventInv, EventDue
  <1>15. CASE Complete
    <2>1. main = "complete" /\ main' = "run"
      BY <1>15 DEF Complete, Goes
    <2>2. CASE CompleteWritten
      BY <1>1, <2>1, <2>2 DEF CompleteWritten, reactorVars, kernelVars,
           DescriptorQueued
    <2>3. CASE CompletePartly
      <3>1. current[1] \in Messages
        BY <1>a, <2>1, ElementOfSeq, EmptySeq DEF Positions, TypeOK
      <3>2. StartPerformed(current[1]) \/ StartQueued(current[1])
        BY <2>3 DEF CompletePartly
      <3>3. op_queue' = Append(op_queue, current[1]) \/ op_queue' = op_queue
        BY <2>3 DEF CompletePartly
      <3>4. DescriptorQueued => DescriptorQueued'
        BY <1>a, <3>1, <3>3, QueuedAppend DEF DescriptorQueued
      <3> QED
        BY <1>a, <2>1, <3>1, <3>2, <3>4, StartOpEvent
    <2> QED
      BY <1>15, <2>2, <2>3 DEF Complete
  <1>16. CASE Read
    BY <1>16 DEF Read, mainVars, schedulerVars, reactorVars, EventInv, EventDue,
         DescriptorQueued
  <1>17. CASE UNCHANGED vars
    BY <1>1, <1>17 DEF vars, mainVars, schedulerVars, reactorVars, kernelVars,
         DescriptorQueued
  <1> QED
    BY <1>2, <1>3, <1>4, <1>5, <1>6, <1>7, <1>8, <1>9, <1>10, <1>11, <1>12,
       <1>13, <1>14, <1>15, <1>16, <1>17
       DEF Next, Main, Run, Sending, Threads

\* An operation that waits for room in the socket is never forgotten: the
\* edge-triggered event it needs is due, or is being handled.
THEOREM NoEventIsLost == Spec => []NoLostEvent
  <1> DEFINE Inv == TypeInv /\ EventInv
  <1>1. Init => Inv
    BY InitTypeInv DEF Init, EventInv
  <1>2. Inv /\ [Next]_vars => Inv'
    BY NextTypeInv, NextEvent
  <1>3. Inv => NoLostEvent
    <2> SUFFICES ASSUME TypeOK, EventInv, write_queue # << >>
                 PROVE  \/ ready
                        \/ nospace /\ registered
                        \/ main = "io"
                        \/ \E i \in DOMAIN op_queue : op_queue[i] = DescriptorState
      BY DEF NoLostEvent, TypeInv
    <2>1. DOMAIN op_queue = 1..Len(op_queue)
      BY LenProperties DEF TypeOK
    <2> QED
      BY <2>1 DEF EventInv, EventDue, DescriptorQueued
  <1> QED
    BY <1>1, <1>2, <1>3, PTL DEF Spec


-------------------------------------------------------------------------------
(***************************************************************************)
(* The order of the stream.                                                *)
(***************************************************************************)

\* Under the lock only the last message can have been copied and not started.
LEMMA StartedType ==
  ASSUME TypeOK, Locked
  PROVE  /\ Started \subseteq Messages
         /\ Copying => Len(left) > 0 /\ Len(left) \notin Started
         /\ ~ Copying /\ Len(left) > 0 => Len(left) \in Started
  BY RoomType DEF Started, Copying, Locked, Messages

LEMMA SameStarted ==
  ASSUME Copying' <=> Copying, Len(left') = Len(left)
  PROVE  Started' = Started
  BY DEF Started

\* Nothing is put into a queue.
LEMMA QueuesQuiet ==
  ASSUME QueuesStarted, Started' = Started,
         UNCHANGED <<write_queue, current, op_queue>>
  PROVE  QueuesStarted'
  BY DEF QueuesStarted

LEMMA NextQueues ==
  ASSUME TypeInv, QueuesStarted, [Next]_vars
  PROVE  QueuesStarted'
  <1> DEFINE S == {TaskOperation, DescriptorState} \cup Started
  <1>a. /\ TypeOK /\ Locked /\ Positions /\ Len(left) \in Nat
        /\ write_queue \in Seq(Started) /\ current \in Seq(Started)
        /\ op_queue \in Seq(S)
    BY RoomType DEF TypeInv, QueuesStarted
  <1>b. Started \subseteq Messages
    BY <1>a, StartedType
  <1> HIDE DEF S
  \* A message is begun: the ones started are the same.
  <1>1. ASSUME NEW t \in Threads, Begin(t),
               UNCHANGED <<write_queue, current, op_queue>>
        PROVE  QueuesStarted'
    <2>1. Len(left') = Len(left) + 1
      BY <1>1, <1>a, BeginType
    <2>2. ~ Copying /\ Copying'
      BY <1>1, <1>a DEF Begin, Moves, Copying, TypeOK
    <2>3. Started' = Started
      BY <1>a, <2>1, <2>2 DEF Started
    <2> QED
      BY <1>1, <2>3, QueuesQuiet
  <1>2. ASSUME NEW t \in Threads, SendData(t) PROVE QueuesStarted'
    BY <1>1, <1>2 DEF SendData, schedulerVars, reactorVars
  <1>3. CASE SendFinish
    BY <1>1, <1>3 DEF SendFinish, schedulerVars, reactorVars, Threads
  <1>4. ASSUME NEW t \in Threads, Copy(t) PROVE QueuesStarted'
    <2>1. Copying /\ Copying'
      BY <1>4, <1>a DEF Copy, Moves, Copying, TypeOK
    <2>2. Started' = Started
      BY <1>4, <2>1, SameStarted DEF Copy
    <2> QED
      BY <1>4, <2>2, QueuesQuiet DEF Copy, schedulerVars, reactorVars
  \* The last message is started.
  <1>5. ASSUME NEW t \in Threads, Start(t) PROVE QueuesStarted'
    <2>1. Len(left) \in Messages
      BY <1>5, <1>a DEF Start, Moves, Locked, Messages
    <2>2. /\ StartPerformed(Len(left)) \/ StartQueued(Len(left))
          /\ current' = current /\ op_queue' = op_queue /\ read' = read
      BY <1>5 DEF Start, Return
    <2>3. Len(left') = Len(left)
      BY <1>a, <2>1, <2>2, StartOpType
    <2>4. ~ Copying'
      BY <1>5, <1>a DEF Start, Moves, Copying, Locked, TypeOK
    <2>5. Started \subseteq Started' /\ Len(left) \in Started'
      BY <1>a, <2>1, <2>3, <2>4 DEF Started, Messages
    <2>6. write_queue' = write_queue \/ write_queue' = Append(write_queue, Len(left))
      BY <2>2 DEF StartPerformed, StartQueued
    <2>7. write_queue \in Seq(Started') /\ current \in Seq(Started')
          /\ op_queue \in Seq({TaskOperation, DescriptorState} \cup Started')
      BY <1>a, <2>5, SeqMonotonic DEF S
    <2>8. write_queue' \in Seq(Started')
      BY <2>5, <2>6, <2>7, AppendElements
    <2> QED
      BY <2>2, <2>7, <2>8 DEF QueuesStarted
  <1>6. ASSUME NEW t \in Threads, Post(t) PROVE QueuesStarted'
    <2>1. Len(left) > 0 /\ ~ Copying /\ ~ Copying'
      BY <1>6, <1>a DEF Post, Moves, Copying, Locked, TypeOK
    <2>2. /\ op_queue' = Append(op_queue, Len(left))
          /\ UNCHANGED <<left, write_queue, current>>
      BY <1>6 DEF Post, Return, reactorVars
    <2>3. Started' = Started /\ Len(left) \in Started
      BY <1>a, <2>1, <2>2 DEF Started
    <2>4. op_queue' \in Seq(S)
      BY <1>a, <2>2, <2>3, AppendElements DEF S
    <2> QED
      BY <1>a, <2>2, <2>3, <2>4 DEF QueuesStarted, S
  \* The other steps start nothing.
  <1>7. ASSUME at' = at, Len(left') = Len(left),
               write_queue' \in Seq(Started), current' \in Seq(Started),
               op_queue' \in Seq(S)
        PROVE  QueuesStarted'
    <2>1. Started' = Started
      BY <1>7, SameStarted DEF Copying
    <2> QED
      BY <1>7, <2>1 DEF QueuesStarted, S
  <1>8. CASE RunIos \/ RunReturns \/ Wake \/ ResetIos
    BY <1>7, <1>8, <1>a DEF RunIos, RunReturns, Wake, ResetIos, sendVars,
         schedulerVars, reactorVars
  <1>9. CASE TakeTask \/ TakeDescriptor
    <2>1. op_queue' \in Seq(S)
      BY <1>9, <1>a, HeadTailProperties DEF TakeTask, TakeDescriptor, Takes
    <2> QED
      BY <1>7, <1>9, <1>a, <2>1 DEF TakeTask, TakeDescriptor, sendVars, reactorVars
  <1>10. CASE EpollReturns
    <2>1. <<DescriptorState>> \in Seq(S) /\ << >> \in Seq(S)
          /\ <<TaskOperation>> \in Seq(S)
      BY SingleSeq, EmptySeq DEF S
    <2>2. op_queue \o (IF ready THEN <<DescriptorState>> ELSE << >>) \in Seq(S)
      BY <1>a, <2>1, ConcatProperties
    <2>3. op_queue' \in Seq(S)
      BY <1>10, <2>1, <2>2, ConcatProperties DEF EpollReturns
    <2> QED
      BY <1>7, <1>10, <1>a, <2>3 DEF EpollReturns, sendVars, reactorVars
  <1>11. CASE TakeOperation
    <2>1. PICK m \in DOMAIN left : Takes(m, "complete") /\ current' = <<m>>
      BY <1>11 DEF TakeOperation
    <2>2. m \in 1..Len(left)
      BY <1>a, <2>1, LenProperties DEF TypeOK
    <2>3. op_queue' \in Seq(S) /\ m \in S
      BY <1>a, <2>1, HeadTailProperties DEF Takes
    <2>4. m \in Started
      BY <1>a, <2>2, <2>3 DEF S, TaskOperation, DescriptorState
    <2>5. current' \in Seq(Started)
      BY <2>1, <2>4, SingleSeq
    <2> QED
      BY <1>7, <1>11, <1>a, <2>3, <2>5 DEF TakeOperation, sendVars, reactorVars
  <1>12. CASE PerformIo
    <2>1. Head(write_queue) \in Started /\ Tail(write_queue) \in Seq(Started)
      BY <1>12, <1>a, HeadTailProperties DEF PerformIo
    <2>2. current' \in Seq(Started) /\ write_queue' \in Seq(Started)
      BY <1>12, <1>a, <2>1, AppendElements DEF PerformIo
    <2>3. Len(left') = Len(left)
      BY <1>12, <1>a, <1>b, <2>1, PerformType DEF PerformIo
    <2> QED
      BY <1>7, <1>12, <1>a, <2>2, <2>3 DEF PerformIo, sendVars, schedulerVars
  <1>13. CASE EndIo
    <2>1. op_queue' \in Seq(S) /\ current' \in Seq(Started)
      <3>1. CASE current = << >>
        BY <1>13, <1>a, <3>1 DEF EndIo
      <3>2. CASE current # << >>
        <4>1. Head(current) \in Started /\ Tail(current) \in Seq(Started)
          BY <1>a, <3>2, HeadTailProperties
        <4>2. Tail(current) \in Seq(S)
          BY <4>1, SeqMonotonic DEF S
        <4>3. op_queue \o Tail(current) \in Seq(S)
          BY <1>a, <4>2, ConcatProperties
        <4> QED
          BY <1>13, <3>2, <4>1, <4>3, SingleSeq DEF EndIo
      <3> QED
        BY <3>1, <3>2
    <2> QED
      BY <1>7, <1>13, <1>a, <2>1 DEF EndIo, sendVars, reactorVars
  <1>14. CASE Complete
    <2>1. current[1] \in Started /\ << >> \in Seq(Started)
      BY <1>14, <1>a, ElementOfSeq, EmptySeq DEF Complete, Goes, Positions
    <2>2. CASE CompleteWritten
      BY <1>7, <1>14, <1>a, <2>1, <2>2 DEF Complete, CompleteWritten, sendVars,
           reactorVars
    <2>3. CASE CompletePartly
      <3>1. /\ StartPerformed(current[1]) \/ StartQueued(current[1])
            /\ op_queue' = op_queue \/ op_queue' = Append(op_queue, current[1])
            /\ read' = read
        BY <2>3 DEF CompletePartly
      <3>2. Len(left') = Len(left)
        BY <1>a, <1>b, <2>1, <3>1, StartOpType
      <3>3. \/ write_queue' = write_queue
            \/ write_queue' = Append(write_queue, current[1])
        BY <3>1 DEF StartPerformed, StartQueued
      <3>4. write_queue' \in Seq(Started)
        <4>1. Append(write_queue, current[1]) \in Seq(Started)
          BY <1>a, <2>1, AppendElements
        <4> QED
          BY <1>a, <3>3, <4>1
      <3>5. current[1] \in S
        BY <2>1 DEF S
      <3>6. op_queue' \in Seq(S)
        BY <1>a, <3>1, <3>5, AppendElements
      <3> QED
        BY <1>7, <1>14, <2>1, <3>2, <3>4, <3>6 DEF Complete, sendVars
    <2> QED
      BY <1>14, <2>2, <2>3 DEF Complete
  <1>15. CASE Read
    BY <1>7, <1>15, <1>a DEF Read, sendVars, schedulerVars, reactorVars
  <1>16. CASE UNCHANGED vars
    BY <1>7, <1>16, <1>a DEF vars, sendVars, schedulerVars, reactorVars
  <1> QED
    BY <1>2, <1>3, <1>4, <1>5, <1>6, <1>8, <1>9, <1>10, <1>11, <1>12, <1>13,
       <1>14, <1>15, <1>16
       DEF Next, Main, Run, Sending, Threads


\* A send() of a message that has been started continues the order: if it is the
\* last one, with the bytes that follow, and if it is not, with none.
LEMMA PerformOrder ==
  ASSUME TypeOK, InOrder, NEW m \in Messages, Perform(m),
         m = Len(left) => \A t \in Threads : at[t] # "copy"
  PROVE  /\ Len(left') = Len(left) /\ Len(left) > 0
         /\ \A k \in 1..(Len(left) - 1) : left'[k] = 0
         /\ Len(stream') = Half * Len(left) - left'[Len(left)]
         /\ \A i \in 1..Len(stream') : stream'[i] = i
         /\ m # Len(left) => left' = left
  <1> DEFINE L == Len(left)
  <1>1. PICK n \in 0..left[m] :
           /\ left' = [left EXCEPT ![m] = @ - n]
           /\ Len(left') = L
           /\ Len(stream') = Len(stream) + n
           /\ \A i \in 1..Len(stream) : stream'[i] = stream[i]
           /\ \A i \in 1..n :
                stream'[Len(stream) + i] = msgToServer[Half - left[m] + i]
    BY Performed
  <1>2. /\ L \in Nat /\ m \in 1..L /\ Half = 2 /\ Len(stream) \in Nat
        /\ left \in [1..L -> 0..2]
    <2>1. left \in Seq(0..Half)
      BY DEF TypeOK
    <2> QED
      BY <2>1, RoomType, LenProperties DEF Messages, Half
  <1>3. /\ \A k \in 1..(L - 1) : left[k] = 0
        /\ Len(stream) = 2 * L - left[L]
        /\ \A i \in 1..Len(stream) : stream[i] = i
        /\ msgToServer[1] = 2 * (L - 1) + 1
        /\ m = L => msgToServer[2] = 2 * (L - 1) + 2
    <2>1. Len(left) > 0 /\ Len(left) \in Nat
      <3>1. L \in Nat /\ m \in 1..L
        BY <1>2
      <3> HIDE DEF L
      <3>2. L > 0 /\ L \in Nat
        BY <3>1
      <3> QED
        BY <3>2 DEF L
    <2>2. /\ \A k \in 1..(Len(left) - 1) : left[k] = 0
          /\ Len(stream) = Half * Len(left) - left[Len(left)]
          /\ \A i \in 1..Len(stream) : stream[i] = i
          /\ msgToServer[1] = HalfOf(Len(left), 1)
      BY <2>1 DEF InOrder
    <2>3. m = L => msgToServer[2] = HalfOf(Len(left), 2)
      BY <2>1 DEF InOrder
    <2>4. HalfOf(Len(left), 1) = 2 * (L - 1) + 1 /\ HalfOf(Len(left), 2) = 2 * (L - 1) + 2
      BY <1>2 DEF HalfOf
    <2> QED
      BY <1>2, <2>2, <2>3, <2>4
  <1> HIDE DEF L
  <1>4. L > 0 /\ left[m] \in 0..2 /\ left[L] \in 0..2 /\ n \in Nat /\ n <= left[m]
    BY <1>2
  <1>5. CASE m = L
    <2>1. left'[L] = left[L] - n /\ \A k \in 1..(L - 1) : left'[k] = left[k]
      BY <1>1, <1>2, <1>4, <1>5
    <2>2. \A k \in 1..(L - 1) : left'[k] = 0
      BY <1>3, <2>1
    <2>3. Len(stream') = 2 * L - left'[L]
      BY <1>1, <1>2, <1>3, <1>4, <2>1
    <2>4. ASSUME NEW i \in 1..n PROVE stream'[Len(stream) + i] = Len(stream) + i
      <3>1. 2 - left[L] + i \in {1, 2}
        BY <1>4, <1>5
      <3>2. msgToServer[2 - left[L] + i] = 2 * (L - 1) + (2 - left[L] + i)
        BY <1>3, <1>5, <3>1
      <3>3. 2 * (L - 1) + (2 - left[L] + i) = Len(stream) + i
        BY <1>2, <1>3, <1>4
      <3>4. stream'[Len(stream) + i] = msgToServer[2 - left[L] + i]
        BY <1>1, <1>2, <1>5
      <3> QED
        BY <3>2, <3>3, <3>4
    <2>5. \A i \in 1..Len(stream') : stream'[i] = i
      <3> SUFFICES ASSUME NEW i \in 1..Len(stream') PROVE stream'[i] = i
        OBVIOUS
      <3>1. CASE i <= Len(stream)
        <4>1. i \in 1..Len(stream)
          BY <1>2, <3>1
        <4> QED
          BY <1>1, <1>3, <4>1
      <3>2. CASE i > Len(stream)
        <4> DEFINE j == i - Len(stream)
        <4>1. j \in 1..n /\ Len(stream) + j = i
          BY <1>1, <1>2, <1>4, <3>2
        <4> HIDE DEF j
        <4> QED
          BY <2>4, <4>1
      <3>3. i <= Len(stream) \/ i > Len(stream)
        BY <1>2
      <3> QED
        BY <3>1, <3>2, <3>3
    <2> QED
      BY <1>1, <1>2, <1>4, <1>5, <2>2, <2>3, <2>5 DEF L
  <1>6. CASE m # L
    <2>1. m \in 1..(L - 1)
      BY <1>2, <1>6
    <2>2. left[m] = 0 /\ n = 0
      BY <1>3, <1>4, <2>1
    <2>3. left' = left
      BY <1>1, <1>2, <2>2
    <2>4. Len(stream') = Len(stream) /\ \A i \in 1..Len(stream) : stream'[i] = i
      BY <1>1, <1>2, <1>3, <2>2
    <2>5. \A i \in 1..Len(stream') : stream'[i] = i
      BY <2>4
    <2> QED
      BY <1>2, <1>3, <1>4, <2>3, <2>4, <2>5 DEF L
  <1> QED
    BY <1>5, <1>6

\* Nothing is written, begun or copied.
LEMMA OrderQuiet ==
  ASSUME OrderInv, UNCHANGED <<left, stream, msgToServer, overlapped>>,
         Copying' => Copying,
         \A t \in Threads : at[t] = "copy" => at'[t] = "copy"
  PROVE  OrderInv'
  BY DEF OrderInv, InOrder

\* Main writes, for a message that has been started.
LEMMA OrderPerform ==
  ASSUME TypeOK, Locked, OrderInv, NEW m \in Started, Perform(m),
         UNCHANGED <<at, msgToServer, overlapped>>
  PROVE  OrderInv'
  <1> SUFFICES ASSUME ~ overlapped PROVE InOrder'
    BY DEF OrderInv
  <1>1. InOrder /\ m \in Messages
    BY StartedType DEF OrderInv
  <1>2. m = Len(left) => ~ Copying
    BY StartedType
  <1>3. /\ Len(left') = Len(left) /\ Len(left) > 0
        /\ \A k \in 1..(Len(left) - 1) : left'[k] = 0
        /\ Len(stream') = Half * Len(left) - left'[Len(left)]
        /\ \A i \in 1..Len(stream') : stream'[i] = i
        /\ m # Len(left) => left' = left
    BY <1>1, <1>2, PerformOrder DEF Copying
  <1>4. Copying' => Copying
    BY DEF Copying
  <1>5. Copying' => left'[Len(left')] = Half
    BY <1>1, <1>2, <1>3, <1>4 DEF InOrder
  <1> QED
    BY <1>1, <1>3, <1>5, RoomType DEF InOrder

LEMMA NextOrder ==
  ASSUME TypeInv, QueuesStarted, OrderInv, [Next]_vars
  PROVE  OrderInv'
  <1>a. /\ TypeOK /\ Locked /\ Positions /\ Len(left) \in Nat
        /\ write_queue \in Seq(Started) /\ current \in Seq(Started)
    BY RoomType DEF TypeInv, QueuesStarted
  <1>b. Started \subseteq Messages
    BY <1>a, StartedType
  <1>1. ASSUME NEW t \in Threads, Begin(t), stream' = stream PROVE OrderInv'
    <2> SUFFICES ASSUME ~ overlapped' PROVE InOrder'
      BY DEF OrderInv
    <2>1. ~ overlapped /\ Unwritten = {}
      BY <1>1 DEF Begin
    <2>2. InOrder
      BY <2>1 DEF OrderInv
    <2>3. /\ left' = Append(left, Half) /\ Len(left') = Len(left) + 1
          /\ \A k \in 1..Len(left) : left'[k] = left[k]
          /\ left'[Len(left) + 1] = Half
      BY <1>1, <1>a, AppendElements DEF Begin, TypeOK, Half
    <2>4. \A k \in 1..Len(left) : left[k] = 0
      <3>1. left \in [1..Len(left) -> 0..2] /\ DOMAIN left = 1..Len(left)
        BY <1>a, LenProperties DEF TypeOK, Half
      <3>2. \A k \in 1..Len(left) : left[k] \in 0..2 /\ ~ (left[k] > 0)
        BY <2>1, <3>1 DEF Unwritten
      <3> QED
        BY <3>2
    <2>5. Len(stream) = Half * Len(left)
      <3>1. CASE Len(left) = 0
        BY <2>2, <3>1 DEF InOrder, Half
      <3>2. CASE Len(left) > 0
        BY <1>a, <2>2, <2>4, <3>2 DEF InOrder, Half
      <3> QED
        BY <1>a, <3>1, <3>2
    <2>6. Len(stream') = Half * Len(left') - left'[Len(left')]
      BY <1>1, <1>a, <2>3, <2>5 DEF Half
    <2>7. /\ msgToServer'[1] = HalfOf(Len(left'), 1)
          /\ at'[t] = "copy"
      BY <1>1, <1>a DEF Begin, Moves, TypeOK, Half
    <2>8. \A i \in 1..Len(stream') : stream'[i] = i
      BY <1>1, <2>2 DEF InOrder
    <2> QED
      BY <1>a, <2>3, <2>4, <2>6, <2>7, <2>8 DEF InOrder
  <1>2. ASSUME NEW t \in Threads, SendData(t) PROVE OrderInv'
    BY <1>1, <1>2 DEF SendData, kernelVars
  <1>3. CASE SendFinish
    BY <1>1, <1>3 DEF SendFinish, kernelVars, Threads
  <1>4. ASSUME NEW t \in Threads, Copy(t) PROVE OrderInv'
    <2> SUFFICES ASSUME ~ overlapped' PROVE InOrder'
      BY DEF OrderInv
    <2>1. /\ UNCHANGED <<left, stream>> /\ InOrder
          /\ msgToServer' = [msgToServer EXCEPT ![2] = HalfOf(Len(left), 2)]
      BY <1>4 DEF Copy, kernelVars, OrderInv
    <2>2. msgToServer'[1] = msgToServer[1] /\ msgToServer'[2] = HalfOf(Len(left), 2)
      BY <1>a, <2>1 DEF TypeOK, Half
    <2>3. Copying
      BY <1>4 DEF Copy, Moves, Copying
    <2> QED
      BY <2>1, <2>2, <2>3 DEF InOrder
  <1>5. ASSUME NEW t \in Threads, Start(t) PROVE OrderInv'
    <2>a. at[t] = "start" /\ at' \in {[at EXCEPT ![t] = "post"], [at EXCEPT ![t] = "out"]}
      BY <1>5 DEF Start, Moves
    <2>b. Len(left) \in Messages /\ \A u \in Threads : u # t => at[u] = "out"
      BY <1>a, <2>a DEF Locked, Messages
    <2>1. /\ Len(left) \in Messages /\ Copying /\ ~ Copying'
          /\ \A u \in Threads : at[u] # "copy"
      BY <1>a, <2>a, <2>b DEF Copying, TypeOK
    <2>2. UNCHANGED <<msgToServer, overlapped>>
      BY <1>5 DEF Start, Return
    <2>3. CASE StartPerformed(Len(left))
      <3> SUFFICES ASSUME ~ overlapped PROVE InOrder'
        BY <2>2 DEF OrderInv
      <3>1. InOrder /\ Perform(Len(left))
        BY <2>3 DEF OrderInv, StartPerformed
      <3>2. /\ Len(left') = Len(left) /\ Len(left) > 0
            /\ \A k \in 1..(Len(left) - 1) : left'[k] = 0
            /\ Len(stream') = Half * Len(left) - left'[Len(left)]
            /\ \A i \in 1..Len(stream') : stream'[i] = i
        BY <1>a, <2>1, <3>1, PerformOrder
      <3> QED
        BY <1>a, <2>1, <2>2, <3>1, <3>2 DEF InOrder
    <2>4. CASE StartQueued(Len(left))
      <3>1. UNCHANGED <<left, stream>>
        BY <2>4 DEF StartQueued
      <3> QED
        BY <2>1, <2>2, <3>1, OrderQuiet
    <2> QED
      BY <1>5, <2>3, <2>4 DEF Start
  <1>6. ASSUME NEW t \in Threads, Post(t) PROVE OrderInv'
    <2>1. (Copying' => Copying) /\ \A u \in Threads : at[u] = "copy" => at'[u] = "copy"
      BY <1>6, <1>a DEF Post, Moves, Copying, TypeOK
    <2> QED
      BY <1>6, <2>1, OrderQuiet DEF Post, Return
  <1>7. ASSUME UNCHANGED <<at, left, stream, msgToServer, overlapped>>
        PROVE  OrderInv'
    BY <1>7, OrderQuiet DEF Copying
  <1>8. CASE RunIos \/ RunReturns \/ Wake \/ ResetIos
    BY <1>7, <1>8 DEF RunIos, RunReturns, Wake, ResetIos, sendVars, kernelVars
  <1>9. CASE TakeTask \/ TakeDescriptor \/ EpollReturns \/ TakeOperation \/ EndIo
    BY <1>7, <1>9 DEF TakeTask, TakeDescriptor, EpollReturns, TakeOperation, EndIo,
         sendVars, kernelVars
  <1>10. CASE PerformIo
    <2>1. Head(write_queue) \in Started
      BY <1>10, <1>a, HeadTailProperties DEF PerformIo
    <2> QED
      BY <1>10, <1>a, <2>1, OrderPerform DEF PerformIo, sendVars
  <1>11. CASE Complete
    <2>1. current[1] \in Started /\ UNCHANGED <<at, msgToServer, overlapped>>
      BY <1>11, <1>a, ElementOfSeq, EmptySeq
         DEF Complete, Goes, Positions, sendVars
    <2>2. CASE CompleteWritten
      BY <1>7, <2>1, <2>2 DEF CompleteWritten, kernelVars
    <2>3. CASE CompletePartly
      <3>1. StartPerformed(current[1]) \/ StartQueued(current[1])
        BY <2>3 DEF CompletePartly
      <3>2. CASE Perform(current[1])
        BY <1>a, <2>1, <3>2, OrderPerform
      <3>3. CASE UNCHANGED <<left, stream>>
        BY <1>7, <2>1, <3>3
      <3> QED
        BY <3>1, <3>2, <3>3 DEF StartPerformed, StartQueued
    <2> QED
      BY <1>11, <2>2, <2>3 DEF Complete
  <1>12. CASE Read
    BY <1>7, <1>12 DEF Read, sendVars
  <1>13. CASE UNCHANGED vars
    BY <1>7, <1>13 DEF vars, sendVars, kernelVars
  <1> QED
    BY <1>2, <1>3, <1>4, <1>5, <1>6, <1>8, <1>9, <1>10, <1>11, <1>12, <1>13
       DEF Next, Main, Run, Sending, Threads

\* What the other modules assume of a connection: the messages arrive whole and
\* in the order they were sent, however often a write was cut, if each is sent
\* when the earlier ones have been written.
THEOREM Fifo == Spec => []FifoUnlessOverlapped
  <1> DEFINE Inv == TypeInv /\ QueuesStarted /\ OrderInv
  <1>1. Init => Inv
    <2> SUFFICES ASSUME Init PROVE QueuesStarted /\ OrderInv
      BY InitTypeInv
    <2>1. << >> \in Seq(Started) /\ Len(<< >>) = 0
          /\ <<TaskOperation>> \in Seq({TaskOperation, DescriptorState} \cup Started)
      BY EmptySeq, SingleSeq
    <2>2. QueuesStarted
      BY <2>1 DEF Init, QueuesStarted
    <2>3. Len(left) = 0 /\ stream = << >> /\ ~ Copying
      BY <2>1 DEF Init, Copying
    <2>4. InOrder
      BY <2>1, <2>3 DEF InOrder
    <2> QED
      BY <2>2, <2>4 DEF OrderInv
  <1>2. Inv /\ [Next]_vars => Inv'
    BY NextTypeInv, NextQueues, NextOrder
  <1>3. Inv => FifoUnlessOverlapped
    <2>1. TypeInv => DOMAIN stream = 1..Len(stream)
      BY LenProperties DEF TypeInv, TypeOK
    <2> QED
      BY <2>1 DEF OrderInv, InOrder, FifoUnlessOverlapped
  <1> QED
    BY <1>1, <1>2, <1>3, PTL DEF Spec

-------------------------------------------------------------------------------
(***************************************************************************)
(* The work, and what the flush needs: the inductive invariant.            *)
(***************************************************************************)

\* Main has taken operations while it handles them, and one while it completes.
Taken ==
  /\ main \notin {"io", "complete"} => current = << >>
  /\ main = "complete" => Len(current) = 1

WorkInv == Taken /\ WorkIsPending

Running == main \in {"run", "epoll", "io", "complete", "reset"}

\* What the scheduler's being stopped is for: nothing sent before is left.
Flushed == \A m \in 1..before : left[m] = 0 /\ ~ Pending(m)

\* A write that has been started and has bytes left is somewhere, or is the last
\* one and about to be posted.
StartedIsPending ==
  \A m \in Started : left[m] > 0 =>
    Pending(m) \/ (m = Len(left) /\ \E t \in Threads : at[t] = "post")

\* While main runs the scheduler only the server sends, and what it sends is none
\* of what was sent before.
RunInv ==
  /\ Running => at["main"] = "out"
  /\ Running /\ at["server"] # "out" => before < Len(left)
  /\ stopped => main \in {"run", "reset"}
  /\ main = "reset" => stopped
  /\ stopped => Flushed

FlushInv == StartedIsPending /\ RunInv

-------------------------------------------------------------------------------
(***************************************************************************)
(* The writes of a queue.                                                  *)
(***************************************************************************)

LEMMA WritesType ==
  ASSUME NEW s \in Seq(Int)
  PROVE  /\ Writes(s) \subseteq 1..Len(s)
         /\ IsFiniteSet(Writes(s)) /\ Cardinality(Writes(s)) \in Nat
         /\ Cardinality(Writes(s)) = 0 => \A i \in 1..Len(s) : ~ (s[i] > 0)
  <1>1. Len(s) \in Nat /\ Writes(s) \subseteq 1..Len(s)
    BY LenProperties DEF Writes
  <1>2. IsFiniteSet(1..Len(s))
    BY <1>1, FS_Interval
  <1>3. IsFiniteSet(Writes(s))
    BY <1>1, <1>2, FS_Subset
  <1>4. Cardinality(Writes(s)) \in Nat
    BY <1>3, FS_CardinalityType
  <1>5. ASSUME Cardinality(Writes(s)) = 0, NEW i \in 1..Len(s)
        PROVE  ~ (s[i] > 0)
    <2>1. Writes(s) = {}
      BY <1>3, <1>5, FS_EmptySet
    <2>2. DOMAIN s = 1..Len(s)
      BY LenProperties
    <2> QED
      BY <1>5, <2>1, <2>2 DEF Writes
  <1> QED
    BY <1>1, <1>3, <1>4, <1>5

\* What is put behind a queue adds its own writes, when it is all writes or none.
LEMMA WritesConcat ==
  ASSUME NEW s \in Seq(Int), NEW u \in Seq(Int)
  PROVE  /\ (\A i \in 1..Len(u) : u[i] > 0) =>
              Cardinality(Writes(s \o u)) = Cardinality(Writes(s)) + Len(u)
         /\ (\A i \in 1..Len(u) : ~ (u[i] > 0)) =>
              Cardinality(Writes(s \o u)) = Cardinality(Writes(s))
  <1> DEFINE a == Len(s)
             b == Len(u)
             new == {i \in (a + 1)..(a + b) : u[i - a] > 0}
  <1>1. /\ a \in Nat /\ b \in Nat /\ DOMAIN s = 1..a
        /\ s \o u \in Seq(Int) /\ DOMAIN (s \o u) = 1..(a + b)
        /\ \A i \in 1..(a + b) : (s \o u)[i] = IF i <= a THEN s[i] ELSE u[i - a]
    BY ConcatProperties, LenProperties
  <1>2. Writes(s \o u) = Writes(s) \cup new
    BY <1>1 DEF Writes
  <1>3. IsFiniteSet(Writes(s)) /\ Cardinality(Writes(s)) \in Nat
    BY WritesType
  <1>4. ASSUME \A i \in 1..Len(u) : u[i] > 0
        PROVE  Cardinality(Writes(s \o u)) = Cardinality(Writes(s)) + Len(u)
    <2>1. new = (a + 1)..(a + b)
      BY <1>1, <1>4
    <2>2. IsFiniteSet(new) /\ Cardinality(new) = b
      <3>1. a + 1 \in Int /\ a + b \in Int
        BY <1>1
      <3>2. /\ IsFiniteSet((a + 1)..(a + b))
            /\ Cardinality((a + 1)..(a + b)) =
                 IF a + 1 > a + b THEN 0 ELSE (a + b) - (a + 1) + 1
        BY <3>1, FS_Interval
      <3> HIDE DEF a, b, new
      <3> QED
        BY <1>1, <2>1, <3>2
    <2>3. Writes(s) \cap new = {}
      BY <1>1, <2>1 DEF Writes
    <2>4. Cardinality(Writes(s) \cap new) = 0
      BY <2>3, FS_EmptySet
    <2> HIDE DEF new
    <2>5. Cardinality(Writes(s) \cup new) =
            Cardinality(Writes(s)) + Cardinality(new)
              - Cardinality(Writes(s) \cap new)
      BY <1>3, <2>2, FS_Union
    <2> QED
      BY <1>1, <1>2, <1>3, <2>2, <2>4, <2>5
  <1>5. ASSUME \A i \in 1..Len(u) : ~ (u[i] > 0)
        PROVE  Cardinality(Writes(s \o u)) = Cardinality(Writes(s))
    <2>1. new = {}
      BY <1>1, <1>5
    <2> QED
      BY <1>2, <2>1
  <1> QED
    BY <1>4, <1>5

LEMMA WritesAppend ==
  ASSUME NEW s \in Seq(Int), NEW e \in Int
  PROVE  Cardinality(Writes(Append(s, e))) =
           Cardinality(Writes(s)) + (IF e > 0 THEN 1 ELSE 0)
  <1>1. Append(s, e) = s \o <<e>>
    BY AppendIsConcat
  <1>2. <<e>> \in Seq(Int) /\ Len(<<e>>) = 1 /\ <<e>>[1] = e
    BY SingleSeq
  <1>3. Cardinality(Writes(s)) \in Nat
    BY WritesType
  <1>4. CASE e > 0
    <2>1. \A i \in 1..Len(<<e>>) : <<e>>[i] > 0
      BY <1>2, <1>4
    <2> QED
      BY <1>1, <1>2, <1>4, <2>1, WritesConcat
  <1>5. CASE ~ (e > 0)
    <2>1. \A i \in 1..Len(<<e>>) : ~ (<<e>>[i] > 0)
      BY <1>2, <1>5
    <2>2. Cardinality(Writes(s \o <<e>>)) = Cardinality(Writes(s))
      BY <1>2, <2>1, WritesConcat
    <2> QED
      BY <1>1, <1>3, <1>5, <2>2
  <1> QED
    BY <1>4, <1>5

LEMMA WritesTail ==
  ASSUME NEW s \in Seq(Int), s # << >>
  PROVE  Cardinality(Writes(Tail(s))) =
           Cardinality(Writes(s)) - (IF Head(s) > 0 THEN 1 ELSE 0)
  <1>1. /\ Len(s) \in Nat \ {0} /\ DOMAIN s = 1..Len(s) /\ Head(s) = s[1]
        /\ Tail(s) \in Seq(Int) /\ DOMAIN Tail(s) = 1..(Len(s) - 1)
        /\ \A i \in 1..(Len(s) - 1) : Tail(s)[i] = s[i + 1]
    BY HeadTailProperties, LenProperties, EmptySeq
  <1> DEFINE rest == Writes(s) \ {1}
             f == [i \in Writes(Tail(s)) |-> i + 1]
  <1>2. \A i \in Writes(Tail(s)) : i \in 1..(Len(s) - 1) /\ i + 1 \in rest
    BY <1>1 DEF Writes
  <1>3. \A j \in rest : j - 1 \in Writes(Tail(s)) /\ j \in Int
    BY <1>1 DEF Writes
  <1>4. f \in Bijection(Writes(Tail(s)), rest)
    <2>1. f \in [Writes(Tail(s)) -> rest]
      BY <1>2
    <2>2. \A i, j \in Writes(Tail(s)) : f[i] = f[j] => i = j
      BY <1>2
    <2>3. \A j \in rest : \E i \in Writes(Tail(s)) : f[i] = j
      <3> TAKE j \in rest
      <3>1. j - 1 \in Writes(Tail(s)) /\ f[j - 1] = j
        BY <1>3
      <3> QED
        BY <3>1
    <2> QED
      BY <2>1, <2>2, <2>3 DEF Bijection, Injection, Surjection,
                               IsInjective
  <1>5. IsFiniteSet(Writes(Tail(s))) /\ IsFiniteSet(Writes(s))
    BY <1>1, WritesType
  <1>6. Cardinality(rest) = Cardinality(Writes(Tail(s)))
    BY <1>4, <1>5, FS_Bijection DEF ExistsBijection
  <1>7. Cardinality(rest) =
          IF 1 \in Writes(s) THEN Cardinality(Writes(s)) - 1
                             ELSE Cardinality(Writes(s))
    BY <1>5, FS_RemoveElement
  <1>8. 1 \in Writes(s) <=> Head(s) > 0
    BY <1>1 DEF Writes
  <1>9. Cardinality(Writes(s)) \in Nat
    BY WritesType
  <1> HIDE DEF rest
  <1> QED
    BY <1>6, <1>7, <1>8, <1>9

-------------------------------------------------------------------------------
(***************************************************************************)
(* The count of work.                                                      *)
(***************************************************************************)

\* The lengths and the numbers of writes are numbers.
LEMMA QueueTypes ==
  ASSUME TypeOK
  PROVE  /\ Messages \subseteq Int /\ \A m \in Messages : m > 0
         /\ op_queue \in Seq(Int)
         /\ write_queue \in Seq(Messages) /\ current \in Seq(Messages)
         /\ Cardinality(Writes(op_queue)) \in Nat
         /\ Len(write_queue) \in Nat /\ Len(current) \in Nat
         /\ outstanding_work \in Int
         /\ DOMAIN op_queue = 1..Len(op_queue)
         /\ DOMAIN write_queue = 1..Len(write_queue)
         /\ DOMAIN current = 1..Len(current)
         /\ DOMAIN left = Messages
  <1>1. Messages \subseteq Int /\ \A m \in Messages : m > 0
    BY RoomType DEF Messages
  <1>2. op_queue \in Seq(Int)
    <2>1. {TaskOperation, DescriptorState} \cup Messages \subseteq Int
      BY <1>1 DEF TaskOperation, DescriptorState
    <2> QED
      BY <2>1, SeqMonotonic DEF TypeOK
  <1> QED
    BY <1>1, <1>2, WritesType, LenProperties DEF TypeOK, Messages

\* start_op queues the operation or performs it.
LEMMA StartOpWork ==
  ASSUME TypeOK, NEW m \in Messages, StartPerformed(m) \/ StartQueued(m)
  PROVE  \/ StartPerformed(m) /\ write_queue' = write_queue
         \/ /\ StartQueued(m) /\ write_queue' = Append(write_queue, m)
            /\ Len(write_queue') = Len(write_queue) + 1
  BY AppendElements DEF StartPerformed, StartQueued, TypeOK

LEMMA NextWork ==
  ASSUME TypeInv, WorkInv, [Next]_vars
  PROVE  WorkInv'
  <1>a. /\ TypeOK /\ Locked /\ Positions /\ Taken
        /\ outstanding_work =
             Len(write_queue) + Len(current) + Cardinality(Writes(op_queue))
    BY DEF TypeInv, WorkInv, WorkIsPending
  <1>b. /\ \A m \in Messages : m \in Int /\ m > 0
        /\ op_queue \in Seq(Int)
        /\ write_queue \in Seq(Messages) /\ current \in Seq(Messages)
        /\ Cardinality(Writes(op_queue)) \in Nat
        /\ Len(write_queue) \in Nat /\ Len(current) \in Nat
        /\ outstanding_work \in Int
    BY <1>a, QueueTypes
  <1>n. /\ Len(write_queue') \in Nat /\ Cardinality(Writes(op_queue')) \in Nat
    <2>1. TypeOK'
      BY NextTypeInv DEF TypeInv
    <2>2. op_queue' \in Seq({TaskOperation, DescriptorState} \cup Messages')
          /\ write_queue' \in Seq(Messages') /\ Len(left') \in Nat
      BY <2>1, LenProperties DEF TypeOK
    <2>3. {TaskOperation, DescriptorState} \cup Messages' \subseteq Int
      BY <2>2 DEF Messages, TaskOperation, DescriptorState
    <2>4. op_queue' \in Seq(Int)
      BY <2>2, <2>3, SeqMonotonic
    <2> QED
      BY <2>2, <2>4, WritesType, LenProperties
  \* Nothing is started or finished, and main keeps its operations.
  <1>1. ASSUME UNCHANGED <<main, current, outstanding_work, write_queue, op_queue>>
        PROVE  WorkInv'
    BY <1>1, <1>a DEF WorkInv, Taken, WorkIsPending
  <1>2. ASSUME UNCHANGED <<current, outstanding_work, write_queue>>,
               Cardinality(Writes(op_queue')) = Cardinality(Writes(op_queue)),
               main' # "complete", main \notin {"io", "complete"} \/ current = << >>
        PROVE  WorkInv'
    BY <1>2, <1>a DEF WorkInv, Taken, WorkIsPending
  <1>3. ASSUME NEW t \in Threads, SendData(t) \/ Copy(t) PROVE WorkInv'
    BY <1>1, <1>3 DEF SendData, Copy, mainVars, schedulerVars, reactorVars
  <1>4. CASE SendFinish \/ Read \/ UNCHANGED vars
    BY <1>1, <1>4 DEF SendFinish, Read, vars, mainVars, schedulerVars, reactorVars
  <1>5. ASSUME NEW t \in Threads, Start(t) PROVE WorkInv'
    <2>1. Len(left) \in Messages
      BY <1>5, <1>a, RoomType DEF Start, Moves, Locked, Messages
    <2>2. /\ UNCHANGED <<current, op_queue>>
          /\ main' = main \/ (main = "finish" /\ main' = "wait")
          /\ \/ StartPerformed(Len(left)) /\ UNCHANGED outstanding_work
             \/ /\ StartQueued(Len(left))
                /\ outstanding_work' = outstanding_work + 1
      BY <1>5 DEF Start, Return, mainVars
    <2>3. Taken'
      BY <1>a, <2>2 DEF Taken
    <2>4. Len(write_queue') - Len(write_queue) = outstanding_work' - outstanding_work
          /\ Len(write_queue') \in Int
      BY <1>a, <1>b, <2>1, <2>2, AppendElements DEF StartPerformed, StartQueued
    <2> QED
      BY <1>a, <1>b, <2>2, <2>3, <2>4 DEF WorkInv, WorkIsPending
  <1>6. ASSUME NEW t \in Threads, Post(t) PROVE WorkInv'
    <2>1. Len(left) \in Messages
      BY <1>6, <1>a, RoomType DEF Post, Moves, Locked, Messages
    <2>2. /\ UNCHANGED <<current, write_queue>>
          /\ op_queue' = Append(op_queue, Len(left))
          /\ outstanding_work' = outstanding_work + 1
          /\ main' = main \/ (main = "finish" /\ main' = "wait")
      BY <1>6 DEF Post, Return, reactorVars
    <2>3. Taken'
      BY <1>a, <2>2 DEF Taken
    <2>4. Cardinality(Writes(op_queue')) = Cardinality(Writes(op_queue)) + 1
      BY <1>b, <2>1, <2>2, WritesAppend
    <2> QED
      BY <1>a, <1>b, <2>2, <2>3, <2>4 DEF WorkInv, WorkIsPending
  <1>7. CASE RunIos \/ RunReturns \/ Wake \/ ResetIos
    <2>1. UNCHANGED <<current, outstanding_work, write_queue, op_queue>>
      BY <1>7 DEF RunIos, RunReturns, Wake, ResetIos, schedulerVars, reactorVars
    <2>2. main' # "complete" /\ main \notin {"io", "complete"}
      BY <1>7, <1>a DEF RunIos, RunReturns, Wake, ResetIos, Goes, TypeOK
    <2> QED
      BY <1>2, <2>1, <2>2
  <1>8. CASE TakeTask \/ TakeDescriptor
    <2>1. /\ UNCHANGED <<current, outstanding_work, write_queue>>
          /\ main = "run" /\ main' \in {"epoll", "io"}
          /\ op_queue # << >> /\ op_queue' = Tail(op_queue)
          /\ Head(op_queue) \in {0, -1}
      BY <1>8 DEF TakeTask, TakeDescriptor, Takes, Goes, reactorVars,
                  TaskOperation, DescriptorState
    <2>2. Cardinality(Writes(op_queue')) = Cardinality(Writes(op_queue))
      BY <1>b, <2>1, WritesTail
    <2> QED
      BY <1>2, <2>1, <2>2
  <1>9. CASE EpollReturns
    <2>1. /\ UNCHANGED <<current, outstanding_work, write_queue>>
          /\ main = "epoll" /\ main' = "run"
          /\ op_queue' = (op_queue \o (IF ready THEN <<-1>> ELSE << >>)) \o <<0>>
      BY <1>9 DEF EpollReturns, Goes, reactorVars, TaskOperation, DescriptorState
    <2> DEFINE event == IF ready THEN <<-1>> ELSE << >>
    <2>2. /\ event \in Seq(Int) /\ \A i \in 1..Len(event) : ~ (event[i] > 0)
          /\ <<0>> \in Seq(Int) /\ \A i \in 1..Len(<<0>>) : ~ (<<0>>[i] > 0)
      OBVIOUS
    <2> HIDE DEF event
    <2>3. /\ op_queue \o event \in Seq(Int)
          /\ Cardinality(Writes(op_queue \o event)) = Cardinality(Writes(op_queue))
      BY <1>b, <2>2, ConcatProperties, WritesConcat
    <2>4. Cardinality(Writes((op_queue \o event) \o <<0>>)) =
            Cardinality(Writes(op_queue))
      BY <2>2, <2>3, WritesConcat
    <2>5. op_queue' = (op_queue \o event) \o <<0>>
      BY <2>1 DEF event
    <2> QED
      BY <1>2, <2>1, <2>4, <2>5
  <1>10. CASE TakeOperation
    <2>1. PICK m \in DOMAIN left : Takes(m, "complete") /\ current' = <<m>>
      BY <1>10 DEF TakeOperation
    <2>2. /\ UNCHANGED <<outstanding_work, write_queue>>
          /\ main = "run" /\ main' = "complete"
          /\ op_queue # << >> /\ op_queue' = Tail(op_queue)
          /\ Head(op_queue) = m
      BY <1>10, <2>1 DEF TakeOperation, Takes, Goes, reactorVars
    <2>3. m \in Messages
      BY <1>a, <2>1, QueueTypes
    <2>4. Cardinality(Writes(op_queue')) = Cardinality(Writes(op_queue)) - 1
      BY <1>b, <2>2, <2>3, WritesTail
    <2>5. Len(current) = 0 /\ Len(current') = 1
      BY <1>a, <1>b, <2>1, <2>2, <2>3, SingleSeq DEF Taken
    <2>6. Taken'
      BY <2>2, <2>5 DEF Taken
    <2> QED
      BY <1>a, <1>b, <2>2, <2>4, <2>5, <2>6 DEF WorkInv, WorkIsPending
  <1>11. CASE PerformIo
    <2>1. /\ UNCHANGED <<main, op_queue, outstanding_work>> /\ main = "io"
          /\ write_queue # << >> /\ write_queue' = Tail(write_queue)
          /\ current' = Append(current, Head(write_queue))
      BY <1>11 DEF PerformIo, mainVars, schedulerVars
    <2>2. /\ Len(write_queue') = Len(write_queue) - 1
          /\ Len(current') = Len(current) + 1
      BY <1>b, <2>1, HeadTailProperties, AppendElements
    <2>3. Taken'
      BY <2>1 DEF Taken
    <2> QED
      BY <1>a, <1>b, <2>1, <2>2, <2>3 DEF WorkInv, WorkIsPending
  <1>12. CASE EndIo
    <2>1. UNCHANGED <<outstanding_work, write_queue>> /\ main = "io"
      BY <1>12 DEF EndIo, Goes, reactorVars
    <2>2. CASE current = << >>
      BY <1>2, <1>12, <2>1, <2>2 DEF EndIo, Goes
    <2>3. CASE current # << >>
      <3>1. /\ op_queue' = op_queue \o Tail(current)
            /\ current' = <<Head(current)>> /\ main' = "complete"
        BY <1>12, <2>3 DEF EndIo, Goes
      <3>2. /\ Tail(current) \in Seq(Messages) /\ Head(current) \in Messages
            /\ Len(Tail(current)) = Len(current) - 1
        BY <1>b, <2>3, HeadTailProperties
      <3>3. /\ Tail(current) \in Seq(Int)
            /\ \A i \in 1..Len(Tail(current)) : Tail(current)[i] > 0
        BY <1>a, <1>b, <3>2, SeqMonotonic, ElementOfSeq, QueueTypes
      <3>4. Cardinality(Writes(op_queue')) =
              Cardinality(Writes(op_queue)) + (Len(current) - 1)
        BY <1>b, <3>1, <3>2, <3>3, WritesConcat
      <3>5. Len(current') = 1
        BY <3>1, <3>2, SingleSeq
      <3>6. Taken'
        BY <3>1, <3>5 DEF Taken
      <3> QED
        BY <1>a, <1>b, <2>1, <3>4, <3>5, <3>6 DEF WorkInv, WorkIsPending
    <2> QED
      BY <2>2, <2>3
  <1>13. CASE Complete
    <2>1. main = "complete" /\ main' = "run" /\ current' = << >>
      BY <1>13 DEF Complete, Goes
    <2>2. Len(current) = 1 /\ current[1] \in Messages
      <3>1. Len(current) = 1 /\ 1 \in 1..Len(current)
        BY <1>a, <2>1 DEF Taken
      <3> QED
        BY <1>b, <3>1, ElementOfSeq
    <2>3. Len(current') = 0 /\ Taken'
      BY <2>1, EmptySeq DEF Taken
    <2>a. SUFFICES outstanding_work' = Len(write_queue') + Cardinality(Writes(op_queue'))
      <3>1. /\ Len(write_queue') \in Nat
            /\ Cardinality(Writes(op_queue')) \in Nat
        BY <1>n
      <3> QED
        BY <2>3, <2>a, <3>1 DEF WorkInv, WorkIsPending
    <2>b. outstanding_work = Len(write_queue) + 1 + Cardinality(Writes(op_queue))
      BY <1>a, <2>2
    <2>4. CASE CompleteWritten
      <3>1. /\ outstanding_work' = outstanding_work - 1
            /\ UNCHANGED <<op_queue, write_queue>>
        BY <2>4 DEF CompleteWritten, reactorVars
      <3> QED
        BY <1>b, <2>b, <3>1
    <2>5. CASE CompletePartly
      <3>1. UNCHANGED outstanding_work
        BY <2>5 DEF CompletePartly
      <3>2. CASE /\ StartPerformed(current[1])
                 /\ op_queue' = Append(op_queue, current[1])
        <4>1. write_queue' = write_queue
          BY <3>2 DEF StartPerformed
        <4>2. Cardinality(Writes(op_queue')) = Cardinality(Writes(op_queue)) + 1
          BY <1>b, <2>2, <3>2, WritesAppend
        <4> QED
          BY <1>b, <2>b, <3>1, <4>1, <4>2
      <3>3. CASE StartQueued(current[1]) /\ UNCHANGED op_queue
        <4>1. Len(write_queue') = Len(write_queue) + 1
          BY <1>b, <2>2, <3>3, AppendElements DEF StartQueued
        <4> QED
          BY <1>b, <2>b, <3>1, <3>3, <4>1
      <3> QED
        BY <2>5, <3>2, <3>3 DEF CompletePartly
    <2> QED
      BY <1>13, <2>4, <2>5 DEF Complete
  <1> QED
    BY <1>3, <1>4, <1>5, <1>6, <1>7, <1>8, <1>9, <1>10, <1>11, <1>12, <1>13
       DEF Next, Main, Run, Sending, Threads

-------------------------------------------------------------------------------
(***************************************************************************)
(* Where a write is.                                                       *)
(***************************************************************************)

Queued(queue, m) == \E i \in DOMAIN queue : queue[i] = m

LEMMA PendingQueued ==
  ASSUME NEW m
  PROVE  Pending(m) <=> \/ Queued(write_queue, m) \/ Queued(op_queue, m)
                        \/ Queued(current, m)
  BY DEF Pending, Queued

LEMMA QueuedConcat ==
  ASSUME NEW s \in Seq(Int), NEW u \in Seq(Int), NEW m
  PROVE  Queued(s \o u, m) <=> Queued(s, m) \/ Queued(u, m)
  <1>1. /\ Len(s) \in Nat /\ Len(u) \in Nat
        /\ DOMAIN s = 1..Len(s) /\ DOMAIN u = 1..Len(u)
        /\ DOMAIN (s \o u) = 1..(Len(s) + Len(u))
        /\ \A i \in 1..(Len(s) + Len(u)) :
             (s \o u)[i] = IF i <= Len(s) THEN s[i] ELSE u[i - Len(s)]
    BY ConcatProperties, LenProperties
  <1>2. ASSUME Queued(s \o u, m) PROVE Queued(s, m) \/ Queued(u, m)
    <2>1. PICK i \in 1..(Len(s) + Len(u)) : (s \o u)[i] = m
      BY <1>1, <1>2 DEF Queued
    <2>2. CASE i <= Len(s)
      <3>1. i \in 1..Len(s) /\ s[i] = m
        BY <1>1, <2>1, <2>2
      <3> QED
        BY <1>1, <3>1 DEF Queued
    <2>3. CASE ~ (i <= Len(s))
      <3>1. i - Len(s) \in 1..Len(u) /\ u[i - Len(s)] = m
        BY <1>1, <2>1, <2>3
      <3> QED
        BY <1>1, <3>1 DEF Queued
    <2> QED
      BY <2>2, <2>3
  <1>3. ASSUME Queued(s, m) PROVE Queued(s \o u, m)
    <2>1. PICK i \in 1..Len(s) : s[i] = m
      BY <1>1, <1>3 DEF Queued
    <2>2. i \in 1..(Len(s) + Len(u)) /\ (s \o u)[i] = m
      BY <1>1, <2>1
    <2> QED
      BY <1>1, <2>2 DEF Queued
  <1>4. ASSUME Queued(u, m) PROVE Queued(s \o u, m)
    <2>1. PICK i \in 1..Len(u) : u[i] = m
      BY <1>1, <1>4 DEF Queued
    <2>2. /\ Len(s) + i \in 1..(Len(s) + Len(u)) /\ ~ (Len(s) + i <= Len(s))
          /\ Len(s) + i - Len(s) = i
      BY <1>1, <2>1
    <2>3. (s \o u)[Len(s) + i] = m
      BY <1>1, <2>1, <2>2
    <2> QED
      BY <1>1, <2>2, <2>3 DEF Queued
  <1> QED
    BY <1>2, <1>3, <1>4

LEMMA QueuedSingle ==
  ASSUME NEW e, NEW m
  PROVE  (Queued(<<e>>, m) <=> e = m) /\ ~ Queued(<< >>, m)
  BY DEF Queued

LEMMA QueuedLast ==
  ASSUME NEW s \in Seq(Int), NEW e \in Int, NEW m
  PROVE  Queued(Append(s, e), m) <=> Queued(s, m) \/ e = m
  <1>1. Append(s, e) = s \o <<e>> /\ <<e>> \in Seq(Int)
    BY AppendIsConcat
  <1>2. Queued(s \o <<e>>, m) <=> Queued(s, m) \/ Queued(<<e>>, m)
    BY <1>1, QueuedConcat
  <1>3. Queued(<<e>>, m) <=> e = m
    BY QueuedSingle
  <1> QED
    BY <1>1, <1>2, <1>3

LEMMA QueuedFirst ==
  ASSUME NEW s \in Seq(Int), s # << >>, NEW m
  PROVE  Queued(s, m) <=> Queued(Tail(s), m) \/ Head(s) = m
  <1>1. /\ Len(s) \in Nat \ {0} /\ DOMAIN s = 1..Len(s) /\ Head(s) = s[1]
        /\ DOMAIN Tail(s) = 1..(Len(s) - 1)
        /\ \A i \in 1..(Len(s) - 1) : Tail(s)[i] = s[i + 1]
    BY HeadTailProperties, LenProperties, EmptySeq
  <1>2. ASSUME Queued(s, m), Head(s) # m PROVE Queued(Tail(s), m)
    <2>1. PICK i \in 1..Len(s) : s[i] = m
      BY <1>1, <1>2 DEF Queued
    <2>2. i - 1 \in 1..(Len(s) - 1) /\ (i - 1) + 1 = i
      BY <1>1, <1>2, <2>1
    <2>3. Tail(s)[i - 1] = m
      BY <1>1, <2>1, <2>2
    <2> QED
      BY <1>1, <2>2, <2>3 DEF Queued
  <1>3. ASSUME Queued(Tail(s), m) PROVE Queued(s, m)
    <2>1. PICK i \in 1..(Len(s) - 1) : Tail(s)[i] = m
      BY <1>1, <1>3 DEF Queued
    <2>2. i + 1 \in 1..Len(s) /\ s[i + 1] = m
      BY <1>1, <2>1
    <2> QED
      BY <1>1, <2>2 DEF Queued
  <1>4. Head(s) = m => Queued(s, m)
    BY <1>1 DEF Queued
  <1> QED
    BY <1>2, <1>3, <1>4

\* What is left of a message only becomes less.
LEMMA PerformLeft ==
  ASSUME TypeOK, NEW k \in Messages, NEW m \in Messages, Perform(k)
  PROVE  left'[m] <= left[m] /\ Len(left') = Len(left)
  <1>1. PICK n \in 0..left[k] :
          left' = [left EXCEPT ![k] = @ - n] /\ Len(left') = Len(left)
    BY Performed
  <1>2. left[k] \in 0..Half /\ left[m] \in 0..Half /\ m \in DOMAIN left
    BY LeftType, QueueTypes
  <1> QED
    BY <1>1, <1>2

\* start_op: the operation is performed, or it is in the reactor's queue.
LEMMA StartOpPending ==
  ASSUME TypeOK, NEW k \in Messages, NEW m \in Messages,
         StartPerformed(k) \/ StartQueued(k)
  PROVE  /\ left'[m] <= left[m] /\ Len(left') = Len(left)
         /\ Queued(write_queue', m) <=>
              Queued(write_queue, m) \/ (~ StartPerformed(k) /\ k = m)
  <1>1. left[m] \in Nat /\ write_queue \in Seq(Int) /\ k \in Int
    BY LeftType, QueueTypes, SeqMonotonic DEF Half
  <1>2. CASE StartPerformed(k)
    BY <1>2, PerformLeft DEF StartPerformed
  <1>3. CASE StartQueued(k) /\ ~ StartPerformed(k)
    <2>1. write_queue' = Append(write_queue, k) /\ left' = left
      BY <1>3 DEF StartQueued
    <2> QED
      BY <1>1, <1>3, <2>1, QueuedLast
  <1> QED
    BY <1>2, <1>3

\* A step of a send: what it does to a message sent earlier, and to its own.
LEMMA SendSteps ==
  ASSUME TypeInv, NEW m \in Messages, NEW t \in Threads,
         SendData(t) \/ (SendFinish /\ t = "main") \/ Sending(t)
  PROVE  /\ left'[m] <= left[m] /\ Len(left') >= Len(left)
         /\ \A u \in Threads \ {t} : at'[u] = at[u]
         /\ Pending(m) => Pending(m)'
         /\ Pending(m)' => Pending(m) \/ (m = Len(left) /\ at[t] \in {"start", "post"})
         /\ at[t] = "post" /\ m = Len(left) => Pending(m)'
         /\ at[t] = "start" /\ m = Len(left) => Pending(m)' \/ at'[t] = "post"
         /\ at[t] # "out" => Len(left') = Len(left)
         /\ (at[t] = "out" /\ at'[t] = "copy") \/ (at[t] = "copy" /\ at'[t] = "start")
            \/ (at[t] = "start" /\ at'[t] \in {"post", "out"})
            \/ (at[t] = "post" /\ at'[t] = "out")
  <1>a. /\ TypeOK /\ Locked /\ left[m] \in Nat /\ Len(left) \in Nat
        /\ m \in 1..Len(left)
    BY LeftType, RoomType DEF TypeInv, Half, Messages
  <1>b. op_queue \in Seq(Int) /\ at \in [Threads -> {"out", "copy", "start", "post"}]
    BY <1>a, QueueTypes DEF TypeOK
  <1>c. UNCHANGED <<write_queue, op_queue, current>> => Pending(m)' = Pending(m)
    BY DEF Pending
  <1>1. CASE Begin(t) /\ UNCHANGED <<write_queue, op_queue, current>>
    <2>1. left'[m] = left[m] /\ Len(left') = Len(left) + 1
      <3>1. left' = Append(left, Half) /\ left \in Seq(0..Half) /\ Half \in 0..Half
        BY <1>1, <1>a DEF Begin, TypeOK, Half
      <3> QED
        BY <1>a, <3>1, AppendElements
    <2> QED
      BY <1>1, <1>a, <1>b, <1>c, <2>1 DEF Begin, Moves
  <1>2. CASE Copy(t)
    BY <1>2, <1>a, <1>b, <1>c DEF Copy, Moves, schedulerVars, reactorVars
  <1>3. CASE Start(t)
    <2>1. Len(left) \in Messages /\ at[t] = "start"
      BY <1>3, <1>a DEF Start, Moves, Locked, Messages
    <2>2. /\ StartPerformed(Len(left)) \/ StartQueued(Len(left))
          /\ UNCHANGED <<op_queue, current>>
          /\ \/ StartPerformed(Len(left)) /\ at' = [at EXCEPT ![t] = "post"]
             \/ /\ StartQueued(Len(left)) /\ ~ StartPerformed(Len(left))
                /\ at' = [at EXCEPT ![t] = "out"]
      <3>1. ~ (StartPerformed(Len(left)) /\ StartQueued(Len(left)))
        BY DEF StartPerformed, StartQueued, Perform
      <3> QED
        BY <1>3, <3>1 DEF Start, Return, Moves
    <2>3. /\ left'[m] <= left[m] /\ Len(left') = Len(left)
          /\ Queued(write_queue', m) <=>
               Queued(write_queue, m)
                 \/ (~ StartPerformed(Len(left)) /\ Len(left) = m)
      BY <1>a, <2>1, <2>2, StartOpPending
    <2>4. Pending(m)' <=> \/ Queued(write_queue', m) \/ Queued(op_queue, m)
                          \/ Queued(current, m)
      BY <2>2 DEF Pending, Queued
    <2> QED
      BY <1>a, <1>b, <2>1, <2>2, <2>3, <2>4, PendingQueued
  <1>4. CASE Post(t)
    <2>1. /\ op_queue' = Append(op_queue, Len(left)) /\ left' = left
          /\ UNCHANGED <<write_queue, current>>
          /\ at[t] = "post" /\ at' = [at EXCEPT ![t] = "out"]
      BY <1>4 DEF Post, Return, Moves, reactorVars
    <2>2. Queued(op_queue', m) <=> Queued(op_queue, m) \/ Len(left) = m
      BY <1>a, <1>b, <2>1, QueuedLast
    <2>3. Pending(m)' <=> \/ Queued(write_queue, m) \/ Queued(op_queue', m)
                          \/ Queued(current, m)
      BY <2>1 DEF Pending, Queued
    <2> QED
      BY <1>a, <1>b, <2>1, <2>2, <2>3, PendingQueued
  <1> QED
    BY <1>1, <1>2, <1>3, <1>4
       DEF SendData, SendFinish, Sending, schedulerVars, reactorVars


\* A step of main outside of send moves writes from queue to queue, and lets go
\* of one only when it is all written.
LEMMA RunSteps ==
  ASSUME TypeInv, WorkInv, NEW m \in Messages,
         Run \/ RunIos \/ ResetIos \/ Wake \/ Read \/ UNCHANGED vars
  PROVE  /\ left'[m] <= left[m] /\ Len(left') = Len(left) /\ at' = at
         /\ Pending(m)' => Pending(m)
         /\ Pending(m) => Pending(m)' \/ left[m] = 0
  <1> USE DEF sendVars, schedulerVars, reactorVars
  <1>a. TypeOK /\ Taken /\ left[m] \in 0..Half /\ Len(left) \in Nat
    BY LeftType, RoomType DEF TypeInv, WorkInv
  <1>b. op_queue \in Seq(Int) /\ write_queue \in Seq(Int) /\ current \in Seq(Int)
        /\ write_queue \in Seq(Messages) /\ current \in Seq(Messages)
    BY <1>a, QueueTypes, SeqMonotonic
  <1>c. Pending(m)' <=> \/ Queued(write_queue', m) \/ Queued(op_queue', m)
                        \/ Queued(current', m)
    BY DEF Pending, Queued
  <1>d. left[m] <= left[m] /\ m > 0
    BY <1>a, QueueTypes
  <1>1. CASE RunReturns \/ RunIos \/ ResetIos \/ Wake \/ Read \/ UNCHANGED vars
    BY <1>1, <1>c, <1>d, PendingQueued
       DEF RunReturns, RunIos, ResetIos, Wake, Read, vars
  <1>2. CASE TakeTask \/ TakeDescriptor
    <2>1. /\ UNCHANGED <<current, write_queue, left, at>>
          /\ op_queue # << >> /\ op_queue' = Tail(op_queue)
          /\ Head(op_queue) \in {0, -1}
      BY <1>2 DEF TakeTask, TakeDescriptor, Takes, TaskOperation, DescriptorState
    <2>2. Queued(op_queue, m) <=> Queued(op_queue', m)
      BY <1>b, <1>d, <2>1, QueuedFirst
    <2> QED
      BY <1>c, <1>d, <2>1, <2>2, PendingQueued
  <1>3. CASE EpollReturns
    <2> DEFINE event == IF ready THEN <<-1>> ELSE << >>
    <2>1. /\ UNCHANGED <<current, write_queue, left, at>>
          /\ op_queue' = (op_queue \o event) \o <<0>>
      BY <1>3 DEF EpollReturns, TaskOperation, DescriptorState
    <2>2. /\ event \in Seq(Int) /\ <<0>> \in Seq(Int)
          /\ ~ Queued(event, m) /\ ~ Queued(<<0>>, m)
      BY <1>d, QueuedSingle
    <2> HIDE DEF event
    <2>3. /\ op_queue \o event \in Seq(Int)
          /\ Queued(op_queue \o event, m) <=> Queued(op_queue, m)
      BY <1>b, <2>2, ConcatProperties, QueuedConcat
    <2>4. Queued((op_queue \o event) \o <<0>>, m) <=> Queued(op_queue, m)
      BY <2>2, <2>3, QueuedConcat
    <2> QED
      BY <1>c, <1>d, <2>1, <2>4, PendingQueued
  <1>4. CASE TakeOperation
    <2>1. PICK k \in DOMAIN left : Takes(k, "complete") /\ current' = <<k>>
      BY <1>4 DEF TakeOperation
    <2>2. /\ UNCHANGED <<write_queue, left, at>> /\ current = << >>
          /\ op_queue # << >> /\ op_queue' = Tail(op_queue) /\ Head(op_queue) = k
      BY <1>4, <1>a, <2>1 DEF TakeOperation, Takes, Goes, Taken
    <2>3. Queued(op_queue, m) <=> Queued(op_queue', m) \/ k = m
      BY <1>b, <2>2, QueuedFirst
    <2>4. (Queued(current', m) <=> k = m) /\ ~ Queued(current, m)
      BY <2>1, <2>2, QueuedSingle
    <2> QED
      BY <1>c, <1>d, <2>2, <2>3, <2>4, PendingQueued
  <1>5. CASE PerformIo
    <2>1. /\ UNCHANGED <<op_queue, at>> /\ write_queue # << >>
          /\ write_queue' = Tail(write_queue)
          /\ current' = Append(current, Head(write_queue))
          /\ Perform(Head(write_queue)) /\ Head(write_queue) \in Messages
      BY <1>5, <1>b, HeadTailProperties DEF PerformIo
    <2>2. left'[m] <= left[m] /\ Len(left') = Len(left)
      BY <1>a, <2>1, PerformLeft
    <2>3. Queued(write_queue, m) <=> Queued(write_queue', m)
                                     \/ Head(write_queue) = m
      BY <1>b, <2>1, QueuedFirst
    <2>4. Head(write_queue) \in Int
      BY <2>1, <1>a, QueueTypes
    <2>5. Queued(current', m) <=> Queued(current, m) \/ Head(write_queue) = m
      BY <1>b, <2>1, <2>4, QueuedLast
    <2> QED
      BY <1>c, <2>1, <2>2, <2>3, <2>5, PendingQueued
  <1>6. CASE EndIo
    <2>1. UNCHANGED <<write_queue, left, at>>
      BY <1>6 DEF EndIo
    <2>2. CASE UNCHANGED <<op_queue, current>>
      BY <1>c, <1>d, <2>1, <2>2, PendingQueued
    <2>3. CASE /\ current # << >> /\ op_queue' = op_queue \o Tail(current)
               /\ current' = <<Head(current)>>
      <3>1. Queued(current, m) <=> Queued(Tail(current), m) \/ Head(current) = m
        BY <1>b, <2>3, QueuedFirst
      <3>2. Tail(current) \in Seq(Int)
        BY <1>b, <2>3, HeadTailProperties
      <3>3. Queued(op_queue', m) <=> Queued(op_queue, m) \/ Queued(Tail(current), m)
        BY <1>b, <2>3, <3>2, QueuedConcat
      <3>4. Queued(current', m) <=> Head(current) = m
        BY <2>3, QueuedSingle
      <3> QED
        BY <1>c, <1>d, <2>1, <3>1, <3>3, <3>4, PendingQueued
    <2> QED
      BY <1>6, <2>2, <2>3 DEF EndIo
  <1>7. CASE Complete
    <2>1. current' = << >> /\ main = "complete" /\ UNCHANGED at
      BY <1>7 DEF Complete, Goes
    <2>2. Len(current) = 1 /\ 1 \in 1..Len(current) /\ current[1] \in Messages
      <3>1. Len(current) = 1
        BY <1>a, <2>1 DEF Taken
      <3>2. 1 \in 1..Len(current)
        BY <3>1
      <3> QED
        BY <1>b, <3>1, <3>2, ElementOfSeq
    <2>3. (Queued(current, m) <=> current[1] = m) /\ ~ Queued(current', m)
      <3>1. DOMAIN current = {1}
        BY <1>b, <2>2, LenProperties
      <3> QED
        BY <2>1, <3>1, QueuedSingle DEF Queued
    <2>4. CASE CompleteWritten
      <3>1. left[current[1]] = 0 /\ UNCHANGED <<left, op_queue, write_queue>>
        BY <2>4 DEF CompleteWritten
      <3> QED
        BY <1>c, <1>d, <2>1, <2>3, <3>1, PendingQueued
    <2>5. CASE CompletePartly
      <3>1. /\ StartPerformed(current[1]) \/ StartQueued(current[1])
            /\ \/ /\ StartPerformed(current[1])
                  /\ op_queue' = Append(op_queue, current[1])
               \/ ~ StartPerformed(current[1]) /\ op_queue' = op_queue
        <4>1. ~ (StartPerformed(current[1]) /\ StartQueued(current[1]))
          BY DEF StartPerformed, StartQueued, Perform
        <4> QED
          BY <2>5, <4>1 DEF CompletePartly
      <3>2. /\ left'[m] <= left[m] /\ Len(left') = Len(left)
            /\ Queued(write_queue', m) <=>
                 Queued(write_queue, m)
                   \/ (~ StartPerformed(current[1]) /\ current[1] = m)
        BY <1>a, <2>2, <3>1, StartOpPending
      <3>3. current[1] \in Int
        BY <1>a, <2>2, QueueTypes
      <3>4. Queued(op_queue', m) <=>
              Queued(op_queue, m) \/ (StartPerformed(current[1]) /\ current[1] = m)
        <4>1. Queued(Append(op_queue, current[1]), m) <=>
                Queued(op_queue, m) \/ current[1] = m
          BY <1>b, <3>3, QueuedLast
        <4> QED
          BY <3>1, <4>1
      <3> QED
        BY <1>c, <2>1, <2>3, <3>2, <3>4, PendingQueued
    <2> QED
      BY <1>7, <2>4, <2>5 DEF Complete
  <1> QED
    BY <1>1, <1>2, <1>3, <1>4, <1>5, <1>6, <1>7 DEF Run

\* Nothing is sent in such a step.
LEMMA RunSendsNone ==
  ASSUME TypeInv, Run \/ RunIos \/ ResetIos \/ Wake \/ Read \/ UNCHANGED vars
  PROVE  Len(left') = Len(left) /\ at' = at
  <1>a. TypeOK /\ Positions /\ write_queue \in Seq(Messages)
        /\ current \in Seq(Messages)
    BY DEF TypeInv, TypeOK
  <1>1. CASE PerformIo
    <2>1. Head(write_queue) \in Messages
      BY <1>1, <1>a, HeadTailProperties DEF PerformIo
    <2> QED
      BY <1>1, <1>a, <2>1, PerformType DEF PerformIo, sendVars
  <1>2. CASE Complete /\ CompletePartly
    <2>1. current[1] \in Messages
      BY <1>2, <1>a, ElementOfSeq, EmptySeq DEF Complete, Goes, Positions
    <2> QED
      BY <1>2, <1>a, <2>1, StartOpType DEF Complete, CompletePartly, sendVars
  <1> QED
    BY <1>1, <1>2 DEF Run, RunReturns, TakeTask, EpollReturns, TakeDescriptor,
       EndIo, TakeOperation, Complete, CompleteWritten, RunIos, ResetIos, Wake,
       Read, vars, sendVars

LEMMA NextStartedIsPending ==
  ASSUME TypeInv, TypeInv', WorkInv, StartedIsPending, [Next]_vars
  PROVE  StartedIsPending'
  <1>a. /\ TypeOK /\ Locked /\ Len(left) \in Nat
        /\ at \in [Threads -> {"out", "copy", "start", "post"}]
        /\ Started \subseteq Messages /\ Messages = 1..Len(left)
    BY RoomType, StartedType DEF TypeInv, TypeOK, Messages
  <1>b. /\ left' \in Seq(0..Half) /\ Len(left') \in Nat
        /\ Started' \subseteq 1..Len(left')
    <2>1. left' \in Seq(0..Half)
      BY DEF TypeInv, TypeOK
    <2>2. Len(left') \in Nat
      BY <2>1, LenProperties
    <2>3. Started' \subseteq 1..Len(left')
      BY <2>2 DEF Started
    <2> QED
      BY <2>1, <2>2, <2>3
  \* It is enough to look at the messages there were before the step.
  <1>c. ASSUME NEW m \in Messages, left'[m] <= left[m], left'[m] > 0,
               Len(left') >= Len(left)
        PROVE  left[m] > 0
    <2>1. left[m] \in 0..Half
      BY <1>a, <1>c, LeftType
    <2>2. left'[m] \in 0..Half
      <3>1. m \in 1..Len(left')
        BY <1>a, <1>b, <1>c
      <3> QED
        BY <1>b, <3>1, ElementOfSeq
    <2> QED
      BY <1>c, <2>1, <2>2
  <1>1. ASSUME Run \/ RunIos \/ ResetIos \/ Wake \/ Read \/ UNCHANGED vars
        PROVE  StartedIsPending'
    <2>1. /\ Len(left') = Len(left) /\ at' = at
          /\ Started' = Started
      BY <1>1, RunSendsNone DEF Started, Copying
    <2> SUFFICES ASSUME NEW m \in Started, left'[m] > 0
                 PROVE  Pending(m)' \/ (m = Len(left)
                                        /\ \E t \in Threads : at[t] = "post")
      BY <2>1 DEF StartedIsPending
    <2>2. m \in Messages
      BY <1>a
    <2>3. left'[m] <= left[m] /\ (Pending(m) => Pending(m)' \/ left[m] = 0)
      BY <1>1, <2>2, RunSteps
    <2>4. left[m] > 0
      BY <1>a, <1>c, <2>1, <2>2, <2>3
    <2> QED
      BY <2>3, <2>4 DEF StartedIsPending
  <1>2. ASSUME NEW t \in Threads,
               SendData(t) \/ (SendFinish /\ t = "main") \/ Sending(t)
        PROVE  StartedIsPending'
    <2>1. /\ \A u \in Threads \ {t} : at[u] = "out" /\ at'[u] = "out"
          /\ Started' \subseteq Messages
          /\ \A m \in Started' : m \in Started \/ (m = Len(left) /\ at[t] = "start")
          /\ at[t] # "out" => Len(left') = Len(left)
      <3>1. CASE Begin(t)
        <4>1. Len(left') = Len(left) + 1
          BY <1>a, <3>1, BeginType
        <4>2. ~ Copying /\ Copying' /\ \A u \in Threads : at[u] = "out"
          BY <1>a, <3>1 DEF Begin, Moves, Copying
        <4>3. Started' = Started /\ \A u \in Threads \ {t} : at'[u] = at[u]
          BY <1>a, <3>1, <4>1, <4>2 DEF Started, Begin, Moves
        <4> QED
          BY <1>a, <4>2, <4>3
      <3>2. CASE Sending(t)
        <4>1. /\ at[t] # "out" /\ \A u \in Threads \ {t} : at'[u] = at[u]
              /\ at[t] = "start" \/ Copying' = Copying
          <5>1. /\ at[t] \in {"copy", "start", "post"}
                /\ \E to \in {"start", "post", "out"} :
                     /\ at' = [at EXCEPT ![t] = to]
                     /\ at[t] = "copy" => to = "start"
                     /\ at[t] = "post" => to = "out"
            BY <3>2 DEF Sending, Copy, Start, Post, Moves
          <5> QED
            BY <1>a, <5>1 DEF Copying, Locked
        <4>2. Len(left) \in Messages
          BY <1>a, <4>1 DEF Locked
        <4>3. Len(left') = Len(left)
          BY <3>2, <4>1, <4>2, SendSteps
        <4>4. \A m \in Started' : m \in Started \/ (m = Len(left) /\ at[t] = "start")
          BY <1>a, <1>b, <4>1, <4>3 DEF Started
        <4> QED
          BY <1>a, <1>b, <4>1, <4>3, <4>4 DEF Locked
      <3> QED
        BY <1>2, <3>1, <3>2 DEF SendData, SendFinish
    <2> SUFFICES ASSUME NEW m \in Started', left'[m] > 0
                 PROVE  Pending(m)' \/ (m = Len(left')
                                        /\ \E u \in Threads : at'[u] = "post")
      BY DEF StartedIsPending
    <2>2. m \in Messages
      BY <2>1
    <2>3. /\ left'[m] <= left[m] /\ Len(left') >= Len(left)
          /\ Pending(m) => Pending(m)'
          /\ at[t] = "post" /\ m = Len(left) => Pending(m)'
          /\ at[t] = "start" /\ m = Len(left) => Pending(m)' \/ at'[t] = "post"
      BY <1>2, <2>2, SendSteps
    <2>4. left[m] > 0
      BY <1>c, <2>2, <2>3
    <2>5. CASE m = Len(left) /\ at[t] = "start"
      BY <2>1, <2>3, <2>5
    <2>6. CASE m \in Started
      BY <2>1, <2>3, <2>4, <2>6 DEF StartedIsPending
    <2> QED
      BY <2>1, <2>5, <2>6
  <1> QED
    BY <1>1, <1>2 DEF Next, Main, Threads

-------------------------------------------------------------------------------
(***************************************************************************)
(* What is left when run() returns.                                        *)
(***************************************************************************)

\* When there is no work all is written but what the server has not started or
\* not posted.
NoWorkLeft ==
  outstanding_work = 0 /\ at["main"] = "out" =>
    \A m \in 1..Len(left) :
      /\ ~ Pending(m)
      /\ m < Len(left) \/ at["server"] = "out" => left[m] = 0

LEMMA NoWork == TypeInv /\ WorkInv /\ StartedIsPending => NoWorkLeft
  <1> SUFFICES ASSUME TypeInv, WorkInv, StartedIsPending,
                      outstanding_work = 0, at["main"] = "out",
                      NEW m \in 1..Len(left)
               PROVE  /\ ~ Pending(m)
                      /\ m < Len(left) \/ at["server"] = "out" => left[m] = 0
    BY DEF NoWorkLeft
  <1>1. /\ TypeOK /\ m \in Messages /\ m > 0 /\ Len(left) \in Nat
        /\ left[m] \in 0..Half
    BY QueueTypes, RoomType, LeftType DEF TypeInv, Messages
  <1>2. /\ Len(write_queue) \in Nat /\ Len(current) \in Nat
        /\ Cardinality(Writes(op_queue)) \in Nat
        /\ op_queue \in Seq(Int)
        /\ DOMAIN op_queue = 1..Len(op_queue)
        /\ DOMAIN write_queue = 1..Len(write_queue)
        /\ DOMAIN current = 1..Len(current)
    BY <1>1, QueueTypes
  <1>3. /\ Len(write_queue) = 0 /\ Len(current) = 0
        /\ Cardinality(Writes(op_queue)) = 0
    BY <1>2 DEF WorkInv, WorkIsPending
  <1>4. \A i \in 1..Len(op_queue) : ~ (op_queue[i] > 0)
    BY <1>2, <1>3, WritesType
  <1>5. ~ Pending(m)
    BY <1>1, <1>2, <1>3, <1>4 DEF Pending
  <1>6. ASSUME m < Len(left) \/ at["server"] = "out" PROVE left[m] = 0
    <2>1. m \in Started
      BY <1>1, <1>6 DEF Started, Copying, Threads
    <2>2. ~ (m = Len(left) /\ \E t \in Threads : at[t] = "post")
      BY <1>1, <1>6 DEF Threads
    <2> QED
      BY <1>1, <1>5, <2>1, <2>2 DEF StartedIsPending
  <1> QED
    BY <1>5, <1>6

LEMMA NextRunInv ==
  ASSUME TypeInv, TypeInv', WorkInv, StartedIsPending, RunInv, [Next]_vars,
         NoWorkLeft, NoWorkLeft'
  PROVE  RunInv'
  <1>a. /\ TypeOK /\ Locked /\ Len(left) \in Nat /\ Messages = 1..Len(left)
        /\ at \in [Threads -> {"out", "copy", "start", "post"}]
        /\ before \in 0..Len(left) /\ "server" \in Threads /\ "main" \in Threads
    BY RoomType DEF TypeInv, TypeOK, Messages, Threads
  <1>b. left' \in Seq(0..Half) /\ Len(left') \in Nat
    <2>1. left' \in Seq(0..Half)
      BY DEF TypeInv, TypeOK
    <2> QED
      BY <2>1, LenProperties
  \* What has been flushed stays so.
  <1>c. ASSUME stopped, before' = before, Len(left') >= Len(left),
               \A m \in 1..before : left'[m] <= left[m] /\ (Pending(m)' => Pending(m))
        PROVE  Flushed'
    <2> SUFFICES ASSUME NEW m \in 1..before
                 PROVE  left'[m] = 0 /\ ~ Pending(m)'
      BY <1>c DEF Flushed
    <2>1. left[m] = 0 /\ ~ Pending(m)
      BY <1>c DEF RunInv, Flushed
    <2>2. left'[m] \in 0..Half
      <3>1. m \in 1..Len(left')
        BY <1>a, <1>b, <1>c
      <3> QED
        BY <1>b, <3>1, ElementOfSeq
    <2> QED
      BY <1>c, <2>1, <2>2
  <1>1. ASSUME NEW t \in Threads,
               SendData(t) \/ (SendFinish /\ t = "main") \/ Sending(t)
        PROVE  RunInv'
    <2>1. CASE t = "main"
      <3>1. ~ Running /\ (main' = main \/ main' = "wait") /\ UNCHANGED stopped
        BY <1>1, <1>a, <2>1 DEF RunInv, Running, SendData, SendFinish, Sending,
           Copy, Start, Post, Return, Moves, mainVars, schedulerVars
      <3>2. ~ stopped
        BY <3>1 DEF RunInv, Running
      <3> QED
        BY <3>1, <3>2 DEF RunInv, Running
    <2>2. CASE t = "server"
      <3>1. UNCHANGED <<main, stopped, before>>
        BY <1>1, <2>2 DEF SendData, Sending, Copy, Start, Post, Return, mainVars,
           schedulerVars
      <3>2. /\ at'["main"] = at["main"]
            /\ Running => before < Len(left')
        <4>1. CASE Begin(t)
          <5>1. Len(left') = Len(left) + 1
            BY <1>a, <4>1, BeginType
          <5> QED
            BY <1>a, <2>2, <4>1, <5>1 DEF Begin, Moves
        <4>2. CASE Sending(t)
          <5>1. at[t] # "out" /\ at'["main"] = at["main"]
            BY <1>a, <2>2, <4>2 DEF Sending, Copy, Start, Post, Moves
          <5>2. Len(left) \in Messages
            BY <1>a, <5>1 DEF Locked
          <5>3. Len(left') = Len(left)
            BY <4>2, <5>1, <5>2, SendSteps
          <5> QED
            BY <1>a, <2>2, <5>1, <5>3 DEF RunInv
        <4> QED
          BY <1>1, <2>2, <4>1, <4>2 DEF SendData
      <3>3. stopped => Flushed'
        <4> SUFFICES ASSUME stopped PROVE Flushed'
          OBVIOUS
        <4>1. Running
          BY DEF RunInv, Running
        <4>2. ASSUME NEW m \in 1..before
              PROVE  /\ left'[m] <= left[m] /\ (Pending(m)' => Pending(m))
                     /\ Len(left') >= Len(left)
          <5>1. m \in Messages
            BY <1>a
          <5>2. m = Len(left) => at[t] = "out"
            BY <1>a, <2>2, <4>1 DEF RunInv
          <5> QED
            BY <1>1, <5>1, <5>2, SendSteps
        <4>3. CASE before = 0
          <5>1. 1..before = {}
            BY <4>3
          <5> QED
            BY <3>1, <5>1 DEF Flushed
        <4>4. CASE before # 0
          <5>1. 1 \in 1..before
            BY <1>a, <4>4
          <5> QED
            BY <1>c, <3>1, <4>2, <5>1
        <4> QED
          BY <4>3, <4>4
      <3> QED
        BY <3>1, <3>2, <3>3 DEF RunInv, Running
    <2> QED
      BY <2>1, <2>2 DEF Threads
  \* The steps of main that leave before alone, and the other end's.
  <1>2. ASSUME Run \/ ResetIos \/ Wake \/ Read \/ UNCHANGED vars
        PROVE  RunInv'
    <2>1. before' = before /\ Len(left') = Len(left) /\ at' = at
      BY <1>2, RunSendsNone DEF Run, RunReturns, TakeTask, EpollReturns,
         TakeDescriptor, PerformIo, EndIo, TakeOperation, Complete, ResetIos,
         Wake, Read, vars
    <2>2. stopped => Flushed'
      <3>1. \A m \in 1..before : m \in Messages
        BY <1>a
      <3> QED
        BY <1>2, <1>a, <1>c, <2>1, <3>1, RunSteps
    <2>3. CASE UNCHANGED stopped /\ (Running' => Running)
               /\ (main' = "reset" => stopped)
               /\ (stopped => main' \in {"run", "reset"})
      BY <2>1, <2>2, <2>3 DEF RunInv
    <2>4. CASE RunReturns \/ TakeTask \/ EpollReturns \/ TakeDescriptor
               \/ PerformIo \/ EndIo \/ TakeOperation \/ Wake \/ Read
               \/ UNCHANGED vars
      BY <2>3, <2>4 DEF RunInv, Running, RunReturns, TakeTask, EpollReturns,
         TakeDescriptor, PerformIo, EndIo, TakeOperation, Wake, Read, vars, Takes,
         Goes, mainVars, schedulerVars
    <2>5. CASE ResetIos
      <3>1. main' \notin {"run", "epoll", "io", "complete", "reset"} /\ ~ stopped'
        BY <1>a, <2>5 DEF ResetIos, Goes, TypeOK
      <3> QED
        BY <3>1 DEF RunInv, Running
    <2>6. CASE Complete
      <3>1. main = "complete" /\ main' = "run" /\ ~ stopped
        BY <2>6 DEF Complete, Goes, RunInv
      <3>2. at["main"] = "out" /\ (at["server"] # "out" => before < Len(left))
        BY <3>1 DEF RunInv, Running
      <3>3. stopped' => outstanding_work' = 0
        <4>1. stopped' =>
                outstanding_work = 1 /\ outstanding_work' = outstanding_work - 1
          BY <2>6, <3>1, Zenon DEF Complete, CompleteWritten, CompletePartly
        <4> QED
          BY <4>1
      <3>4. stopped' => Flushed'
        <4> SUFFICES ASSUME stopped', NEW m \in 1..before
                     PROVE  left'[m] = 0 /\ ~ Pending(m)'
          BY <2>1 DEF Flushed
        <4>1. /\ m \in 1..Len(left') /\ at'["main"] = "out"
              /\ m < Len(left') \/ at'["server"] = "out"
          BY <1>a, <2>1, <3>2
        <4> QED
          BY <3>3, <4>1 DEF NoWorkLeft
      <3> QED
        BY <2>1, <3>1, <3>2, <3>4 DEF RunInv, Running
    <2> QED
      BY <1>2, <2>4, <2>5, <2>6 DEF Run
  <1>3. CASE RunIos
    <2>1. /\ at' = at /\ left' = left /\ at["main"] = "out"
          /\ main \in {"calculate", "woken"} /\ outstanding_work' = outstanding_work
          /\ main' = (IF outstanding_work = 0 THEN "reset" ELSE "run")
          /\ stopped' = (stopped \/ outstanding_work = 0)
          /\ before' = IF at["server"] = "out" THEN Len(left) ELSE Len(left) - 1
      BY <1>3 DEF RunIos, sendVars
    <2>2. ~ stopped
      BY <2>1 DEF RunInv
    <2>3. at["server"] # "out" => before' < Len(left)
      BY <1>a, <2>1
    <2>4. stopped' => Flushed'
      <3> SUFFICES ASSUME stopped', NEW m \in 1..before'
                   PROVE  left'[m] = 0 /\ ~ Pending(m)'
        BY DEF Flushed
      <3>1. /\ m \in 1..Len(left') /\ at'["main"] = "out" /\ outstanding_work' = 0
            /\ m < Len(left') \/ at'["server"] = "out"
        <4>1. outstanding_work = 0
          BY <2>1, <2>2, Zenon
        <4>2. m \in 1..Len(left) /\ (m < Len(left) \/ at["server"] = "out")
          BY <1>a, <2>1
        <4> QED
          BY <2>1, <4>1, <4>2
      <3> QED
        BY <3>1 DEF NoWorkLeft
    <2> QED
      BY <2>1, <2>2, <2>3, <2>4 DEF RunInv
  <1> QED
    BY <1>1, <1>2, <1>3 DEF Next, Main, Threads

-------------------------------------------------------------------------------
(***************************************************************************)
(* Theorems.                                                               *)
(***************************************************************************)

Inv == TypeInv /\ WorkInv /\ FlushInv

LEMMA InitInv == Init => Inv
  <1> SUFFICES ASSUME Init PROVE WorkInv /\ FlushInv
    BY InitTypeInv DEF Inv
  <1>1. Len(<< >>) = 0 /\ Cardinality(Writes(<<TaskOperation>>)) = 0
    <2>1. Writes(<<TaskOperation>>) = {}
      BY DEF Writes, TaskOperation
    <2> QED
      BY <2>1, FS_EmptySet
  <1>2. WorkInv
    BY <1>1 DEF Init, WorkInv, Taken, WorkIsPending
  <1>3. Started = {}
    BY <1>1 DEF Init, Started, Copying
  <1> QED
    BY <1>2, <1>3 DEF Init, FlushInv, StartedIsPending, RunInv, Running

LEMMA NextInv == Inv /\ [Next]_vars => Inv'
  <1> SUFFICES ASSUME Inv, [Next]_vars PROVE Inv'
    OBVIOUS
  <1>1. TypeInv' /\ WorkInv'
    BY NextTypeInv, NextWork DEF Inv
  <1>2. StartedIsPending'
    BY <1>1, NextStartedIsPending DEF Inv, FlushInv
  <1>3. NoWorkLeft /\ NoWorkLeft'
    <2>1. (TypeInv /\ WorkInv /\ StartedIsPending => NoWorkLeft)'
      BY NoWork, PTL
    <2> QED
      BY <1>1, <1>2, <2>1, NoWork DEF Inv, FlushInv
  <1>4. RunInv'
    BY <1>1, <1>3, NextRunInv DEF Inv, FlushInv
  <1> QED
    BY <1>1, <1>2, <1>4 DEF Inv, FlushInv

LEMMA Invariant == Spec => []Inv
  BY InitInv, NextInv, PTL DEF Spec

\* asio's count of work, which decides when run() returns, is the number of
\* writes that are somewhere in the scheduler, the reactor, or main's hands.
THEOREM WorkIsCounted == Spec => []WorkIsPending
  BY Invariant, PTL DEF Inv, WorkInv

\* What doAsync relies on: when runIos returns, the messages sent before it was
\* called have been written, whatever the server sends meanwhile.
THEOREM RunIosIsFlush == Spec => []RunIosFlushes
  <1>1. Inv => RunIosFlushes
    BY DEF Inv, FlushInv, RunInv, RunIosFlushes, Flushed
  <1> QED
    BY <1>1, Invariant, PTL

===============================================================================
