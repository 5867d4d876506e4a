------------------------------ MODULE AsyncSend -------------------------------
(***************************************************************************)
(* The client of one instance over asio (io_context with the epoll         *)
(* reactor): client::send copies a message into the one buffer of the      *)
(* client and starts an asynchronous write of it.  A write is done at once *)
(* as far as the socket has room; the rest is done by ios.run(), which the *)
(* main thread calls in doAsync, and nobody calls while it waits.          *)
(*                                                                         *)
(* The messages are numbered as they are sent; the buffer and the stream   *)
(* are made of halves of messages, so that a write can be cut once: the    *)
(* halves of message m are 2 * m - 1 and 2 * m.  The main thread sends     *)
(* data, then enters a barrier; the server thread forwards what it gets,   *)
(* at any time; the next instance reads the stream, and the barrier ends   *)
(* when the token has been read.                                           *)
(***************************************************************************)
EXTENDS Integers, Sequences, FiniteSets

CONSTANTS Capacity,  \* halves the socket buffers hold
          Rounds,    \* number of doAsync calls
          MaxSent    \* data is not sent once so many messages have been

ASSUME CapacityAssumption == Capacity \in Nat /\ Capacity > 0
ASSUME RoundsAssumption == Rounds \in Nat
ASSUME MaxSentAssumption == MaxSent \in Nat

Threads == {"main", "server"}
Half == 2            \* halves of a message
HalfOf(m, h) == Half * (m - 1) + h

VARIABLES
  \* the client and its two threads
  main,         \* position of the main thread in doAsync and in run()
  next,         \* what it does after resetIos
  finish_index, \* barriers passed
  at,           \* position of a thread in client::send
  msgToServer,  \* the buffer: two halves of messages
  left,         \* left[m]: halves not yet written of the m-th message
  token,        \* the message that is the token of this barrier
  \* the scheduler: io_context
  op_queue, outstanding_work, stopped,
  current,      \* operations the main thread has taken and not completed
  \* the reactor's state of the socket
  write_queue, try_speculative, registered,
  \* the kernel
  ready,        \* epoll has an event of the socket to report
  nospace,      \* the socket has refused something and owes an event
  stream,       \* history: what the socket has taken
  read,         \* how much of it the next instance has read
  \* histories
  before,       \* messages sent when main called runIos
  overlapped    \* the buffer was written to while a write had bytes left

mainVars == <<main, next, finish_index>>
sendVars == <<at, msgToServer, token, overlapped>>
schedulerVars == <<op_queue, outstanding_work, stopped>>
reactorVars == <<write_queue, try_speculative, registered>>
kernelVars == <<ready, nospace, stream, read>>
vars == <<mainVars, sendVars, left, schedulerVars, current, reactorVars,
          kernelVars, before>>

\* What op_queue_ holds besides completed operations, which are messages.
TaskOperation == 0
DescriptorState == -1

Init ==
  /\ main = "calculate" /\ next = "calculate" /\ finish_index = 0
  /\ at = [t \in Threads |-> "out"]
  /\ msgToServer = <<0, 0>> /\ left = << >> /\ token = 0
  /\ op_queue = <<TaskOperation>> /\ outstanding_work = 0 /\ stopped = FALSE
  /\ current = << >>
  /\ write_queue = << >> /\ try_speculative = TRUE /\ registered = FALSE
  /\ ready = FALSE /\ nospace = FALSE /\ stream = << >> /\ read = 0
  /\ before = 0 /\ overlapped = FALSE

-------------------------------------------------------------------------------
(***************************************************************************)
(* The kernel's socket and a write operation.                              *)
(***************************************************************************)

Room == Capacity - (Len(stream) - read)

\* Mutant: the socket is not asked how much it has taken.
PerformAll(m) ==
  /\ Room > 0
  /\ stream' = stream \o SubSeq(msgToServer, Half + 1 - left[m], Half)
  /\ left' = [left EXCEPT ![m] = 0]
  /\ UNCHANGED <<try_speculative, nospace>>

\* Mutant: the rest of a message is taken from the beginning of the buffer.
PerformFromStart(m) ==
  LET n == IF Room < left[m] THEN Room ELSE left[m]
  IN  /\ Room > 0
      /\ stream' = stream \o SubSeq(msgToServer, 1, n)
      /\ left' = [left EXCEPT ![m] = @ - n]
      /\ try_speculative' = (n = left[m])
      /\ nospace' = (nospace \/ n < left[m])

\* op->perform(): send() takes what there is room for; an operation that has
\* sent less than it had is done, and the socket exhausted.
Perform(m) ==
  LET n == IF Room < left[m] THEN Room ELSE left[m]
      from == Half + 1 - left[m]
  IN  /\ Room > 0
      /\ stream' = stream \o SubSeq(msgToServer, from, from + n - 1)
      /\ left' = [left EXCEPT ![m] = @ - n]
      /\ try_speculative' = (n = left[m])
      /\ nospace' = (nospace \/ n < left[m])

\* epoll_ctl(EPOLL_CTL_MOD) looks at the socket anew.
Rearm ==
  /\ registered' = TRUE
  /\ ready' = (ready \/ Room > 0)
  /\ nospace' = (nospace \/ Room = 0)

\* epoll_reactor::start_op, the operation is performed: it is for the caller
\* to post it.
StartPerformed(m) ==
  /\ write_queue = << >> /\ try_speculative
  /\ Perform(m)
  /\ UNCHANGED <<write_queue, registered, ready>>

\* Mutant: the reactor does not ask for the event it queues the operation for.
StartQueuedOnly(m) ==
  /\ write_queue # << >> \/ ~ try_speculative \/ Room = 0
  /\ write_queue' = Append(write_queue, m)
  /\ UNCHANGED <<try_speculative, registered, ready, nospace, stream, left>>

\* epoll_reactor::start_op, the operation has to wait: behind others, for an
\* event that is registered for the first time, or for one that is due anyway.
StartQueued(m) ==
  /\ write_queue # << >> \/ ~ try_speculative \/ Room = 0
  /\ IF write_queue = << >> /\ ~ registered
       THEN Rearm
       ELSE /\ nospace' = (nospace \/ (write_queue = << >> /\ try_speculative))
            /\ UNCHANGED <<registered, ready>>
  /\ write_queue' = Append(write_queue, m)
  /\ UNCHANGED <<try_speculative, stream, left>>

-------------------------------------------------------------------------------
(***************************************************************************)
(* client::send, in steps: take m_mtx and copy the first half, copy the    *)
(* second, start the write, post it if it was performed.                   *)
(***************************************************************************)

Unwritten == {m \in DOMAIN left : left[m] > 0}

Moves(t, from, to) == at[t] = from /\ at' = [at EXCEPT ![t] = to]

Begin(t) ==
  /\ \A u \in Threads : at[u] = "out"
  /\ Moves(t, "out", "copy")
  /\ left' = Append(left, Half)
  /\ msgToServer' = [msgToServer EXCEPT ![1] = HalfOf(Len(left'), 1)]
  /\ overlapped' = (overlapped \/ Unwritten # {})

\* Any message that is not a token.
SendData(t) ==
  /\ t = "main" => main = "calculate"
  /\ Len(left) < MaxSent
  /\ Begin(t)
  /\ UNCHANGED <<mainVars, token, schedulerVars, current, reactorVars,
                 kernelVars, before>>

SendFinish ==
  /\ main = "finish"
  /\ Begin("main")
  /\ token' = Len(left')
  /\ UNCHANGED <<mainVars, schedulerVars, current, reactorVars, kernelVars,
                 before>>

\* Mutant: the copy is cut short.
CopyShort(t) ==
  /\ Moves(t, "copy", "start")
  /\ UNCHANGED <<mainVars, msgToServer, token, overlapped, left, schedulerVars,
                 current, reactorVars, kernelVars, before>>

Copy(t) ==
  /\ Moves(t, "copy", "start")
  /\ msgToServer' = [msgToServer EXCEPT ![2] = HalfOf(Len(left), 2)]
  /\ UNCHANGED <<mainVars, token, overlapped, left, schedulerVars, current,
                 reactorVars, kernelVars, before>>

\* After sendFinish main waits.
Return(t) ==
  /\ main' = IF t = "main" /\ main = "finish" THEN "wait" ELSE main
  /\ UNCHANGED <<next, finish_index, msgToServer, token, overlapped, stopped,
                 current, read, before>>

\* asio::async_write; perform_io holds the mutex of the descriptor.
Start(t) ==
  /\ main # "io"
  /\ \/ /\ Moves(t, "start", "post")
        /\ StartPerformed(Len(left))
        /\ UNCHANGED <<mainVars, msgToServer, token, overlapped, outstanding_work,
                       stopped, current, read, before>>
     \/ /\ Moves(t, "start", "out")
        /\ StartQueued(Len(left))
        /\ outstanding_work' = outstanding_work + 1
        /\ Return(t)
  /\ UNCHANGED op_queue

\* scheduler::post_immediate_completion
Post(t) ==
  /\ Moves(t, "post", "out")
  /\ op_queue' = Append(op_queue, Len(left))
  /\ outstanding_work' = outstanding_work + 1
  /\ Return(t)
  /\ UNCHANGED <<left, reactorVars, ready, nospace, stream>>

Sending(t) == Copy(t) \/ Start(t) \/ Post(t)

-------------------------------------------------------------------------------
(***************************************************************************)
(* doAsync, and run() of the scheduler, in the main thread.                *)
(***************************************************************************)

Goes(from, to) == main = from /\ main' = to

\* runIos: run() returns at once, and stops the scheduler, if there is no work.
RunIos ==
  /\ at["main"] = "out" /\ finish_index < Rounds
  /\ \/ main = "calculate" /\ next' = "finish"
     \/ main = "woken" /\ next' = "calculate"
  /\ main' = IF outstanding_work = 0 THEN "reset" ELSE "run"
  /\ stopped' = (stopped \/ outstanding_work = 0)
  /\ before' = IF at["server"] = "out" THEN Len(left) ELSE Len(left) - 1
  /\ UNCHANGED <<finish_index, sendVars, left, op_queue, outstanding_work,
                 current, reactorVars, kernelVars>>

RunReturns ==
  /\ stopped
  /\ Goes("run", "reset")
  /\ UNCHANGED <<next, finish_index, sendVars, left, schedulerVars, current,
                 reactorVars, kernelVars, before>>

\* do_run_one takes the front of the queue.
Takes(o, to) ==
  /\ Goes("run", to)
  /\ ~ stopped
  /\ op_queue # << >> /\ Head(op_queue) = o
  /\ op_queue' = Tail(op_queue)

\* The task: it will wait for events of the reactor.
TakeTask ==
  /\ Takes(TaskOperation, "epoll")
  /\ UNCHANGED <<next, finish_index, sendVars, left, outstanding_work, stopped,
                 current, reactorVars, kernelVars, before>>

\* epoll_wait returns an event, or because there is something in the queue, put
\* there before or during the wait; the task goes behind what was found.
EpollReturns ==
  /\ ready \/ op_queue # << >>
  /\ Goes("epoll", "run")
  /\ op_queue' = op_queue \o (IF ready THEN <<DescriptorState>> ELSE << >>)
                 \o <<TaskOperation>>
  /\ ready' = FALSE
  /\ UNCHANGED <<next, finish_index, sendVars, left, outstanding_work, stopped,
                 current, reactorVars, nospace, stream, read, before>>

TakeDescriptor ==
  /\ Takes(DescriptorState, "io")
  /\ try_speculative' = TRUE
  /\ UNCHANGED <<next, finish_index, sendVars, left, outstanding_work, stopped,
                 current, write_queue, registered, kernelVars, before>>

\* One iteration of the loop of perform_io.
PerformIo ==
  /\ main = "io" /\ write_queue # << >> /\ try_speculative
  /\ Perform(Head(write_queue))
  /\ write_queue' = Tail(write_queue)
  /\ current' = Append(current, Head(write_queue))
  /\ UNCHANGED <<mainVars, sendVars, schedulerVars, registered, ready, read,
                 before>>

\* Mutant: a descriptor operation that completes nothing counts as work done.
EndIoUncompensated ==
  /\ write_queue = << >> \/ ~ try_speculative \/ Room = 0
  /\ nospace' = (nospace \/ (write_queue # << >> /\ try_speculative))
  /\ \/ /\ current = << >> /\ Goes("io", "run") /\ UNCHANGED <<op_queue, current>>
        /\ outstanding_work' = outstanding_work - 1
     \/ /\ current # << >> /\ Goes("io", "complete")
        /\ op_queue' = op_queue \o Tail(current)
        /\ current' = <<Head(current)>>
        /\ UNCHANGED outstanding_work
  /\ stopped' = (stopped \/ outstanding_work' = 0)
  /\ UNCHANGED <<next, finish_index, sendVars, left, reactorVars, ready, stream,
                 read, before>>

\* perform_io returns the first operation and posts the others.  The work
\* count: what run() takes off for the descriptor's operation stands for the
\* first one, or is compensated.
EndIo ==
  /\ write_queue = << >> \/ ~ try_speculative \/ Room = 0
  /\ nospace' = (nospace \/ (write_queue # << >> /\ try_speculative))
  /\ \/ current = << >> /\ Goes("io", "run") /\ UNCHANGED <<op_queue, current>>
     \/ /\ current # << >> /\ Goes("io", "complete")
        /\ op_queue' = op_queue \o Tail(current)
        /\ current' = <<Head(current)>>
  /\ UNCHANGED <<next, finish_index, sendVars, left, outstanding_work, stopped,
                 reactorVars, ready, stream, read, before>>

TakeOperation ==
  /\ \E m \in DOMAIN left : Takes(m, "complete") /\ current' = <<m>>
  /\ UNCHANGED <<next, finish_index, sendVars, left, outstanding_work, stopped,
                 reactorVars, kernelVars, before>>

\* write_op, all written: the handler does nothing, and a work is finished.
CompleteWritten ==
  /\ left[current[1]] = 0
  /\ outstanding_work' = outstanding_work - 1
  /\ stopped' = (stopped \/ outstanding_work = 1)
  /\ UNCHANGED <<left, op_queue, reactorVars, kernelVars>>

\* write_op writes the rest: a continuation, posted to the private queue of the
\* thread, which goes to the end of op_queue_.
CompletePartly ==
  LET m == current[1] IN
    /\ left[m] > 0
    /\ \/ StartPerformed(m) /\ op_queue' = Append(op_queue, m)
       \/ StartQueued(m) /\ UNCHANGED op_queue
    /\ UNCHANGED <<outstanding_work, stopped, read>>

Complete ==
  /\ Goes("complete", "run")
  /\ CompleteWritten \/ CompletePartly
  /\ current' = << >>
  /\ UNCHANGED <<next, finish_index, sendVars, before>>

Run ==
  \/ RunReturns \/ TakeTask \/ EpollReturns \/ TakeDescriptor \/ PerformIo
  \/ EndIo \/ TakeOperation \/ Complete

\* Mutant: the scheduler stays stopped.
ResetIosNot ==
  /\ Goes("reset", next)
  /\ finish_index' = IF next = "finish" THEN finish_index ELSE finish_index + 1
  /\ UNCHANGED <<next, sendVars, left, schedulerVars, current, reactorVars,
                 kernelVars, before>>

\* resetIos, and is_notify[finish_index++] = 1 after the second one
ResetIos ==
  /\ Goes("reset", next)
  /\ stopped' = FALSE
  /\ finish_index' = IF next = "finish" THEN finish_index ELSE finish_index + 1
  /\ UNCHANGED <<next, sendVars, left, op_queue, outstanding_work, current,
                 reactorVars, kernelVars, before>>

Main == RunIos \/ Run \/ ResetIos \/ SendFinish \/ Sending("main")

-------------------------------------------------------------------------------
(***************************************************************************)
(* The other end: the next instance reads, and the barrier ends.           *)
(***************************************************************************)

\* The kernel reports room that it had refused.
Read ==
  /\ read < Len(stream)
  /\ read' = read + 1
  /\ nospace' = FALSE
  /\ ready' = (ready \/ (nospace /\ registered))
  /\ UNCHANGED <<mainVars, sendVars, left, schedulerVars, current, reactorVars,
                 stream, before>>

TokenRead ==
  \E i \in 1..(read \div Half) : \A h \in 1..Half :
    stream[HalfOf(i, h)] = HalfOf(token, h)

\* cv.wait returns: the token has gone round.
Wake ==
  /\ TokenRead
  /\ Goes("wait", "woken")
  /\ UNCHANGED <<next, finish_index, sendVars, left, schedulerVars, current,
                 reactorVars, kernelVars, before>>

Next ==
  \/ Main \/ Read \/ Wake
  \/ Sending("server")
  \/ \E t \in Threads : SendData(t)

Spec == Init /\ [][Next]_vars

\* The threads are scheduled, a server thread always reads, and a token that has
\* arrived goes round; nobody has to send data.
Fairness ==
  /\ WF_vars(Main) /\ WF_vars(Sending("server"))
  /\ WF_vars(Read) /\ WF_vars(Wake)

FairSpec == Spec /\ Fairness

-------------------------------------------------------------------------------
(***************************************************************************)
(* Properties.                                                             *)
(***************************************************************************)

Messages == 1..Len(left)

TypeOK ==
  /\ main \in {"calculate", "run", "epoll", "io", "complete", "reset", "finish",
               "wait", "woken"}
  /\ next \in {"calculate", "finish"}
  /\ finish_index \in 0..Rounds
  /\ at \in [Threads -> {"out", "copy", "start", "post"}]
  /\ msgToServer \in [1..Half -> 0..Half * Len(left)]
  /\ left \in Seq(0..Half)
  /\ token \in 0..Len(left)
  /\ op_queue \in Seq({TaskOperation, DescriptorState} \cup Messages)
  /\ outstanding_work \in Int /\ stopped \in BOOLEAN
  /\ current \in Seq(Messages) /\ write_queue \in Seq(Messages)
  /\ try_speculative \in BOOLEAN /\ registered \in BOOLEAN
  /\ ready \in BOOLEAN /\ nospace \in BOOLEAN
  /\ stream \in Seq(0..Half * Len(left))
  /\ read \in 0..Len(stream) /\ Len(stream) - read <= Capacity
  /\ before \in 0..Len(left) /\ overlapped \in BOOLEAN

Pending(m) ==
  \/ \E i \in DOMAIN write_queue : write_queue[i] = m
  \/ \E i \in DOMAIN op_queue : op_queue[i] = m
  \/ \E i \in DOMAIN current : current[i] = m

\* The operations of a queue that are writes, at their positions.
Writes(queue) == {i \in DOMAIN queue : queue[i] > 0}

\* The count of work that decides when run() returns is the number of writes
\* whose handler has not been called, through all the ways asio has of not
\* counting an operation that replaces another.
WorkIsPending ==
  outstanding_work =
    Len(write_queue) + Len(current) + Cardinality(Writes(op_queue))

\* A write that waits for room is looked at again: there is an event to come, or
\* one that has come and has not been handled (edge-triggered epoll reports the
\* room only once).
NoLostEvent ==
  write_queue # << >> =>
    \/ ready
    \/ nospace /\ registered
    \/ main = "io"
    \/ \E i \in DOMAIN op_queue : op_queue[i] = DescriptorState

\* What was sent before main called runIos has been written when it returns.
RunIosFlushes ==
  main = "reset" => \A m \in 1..before : left[m] = 0 /\ ~ Pending(m)

\* As long as no message was sent while an earlier one had bytes left, the
\* stream is the messages in the order they were sent, half by half, even when
\* the socket was full and writes were cut.
FifoUnlessOverlapped ==
  ~ overlapped => \A i \in DOMAIN stream : stream[i] = i

\* Main waits for ever only for bytes nobody writes while it waits, or for a
\* token that was written over.
WaitEnds == main = "wait" ~> main = "woken" \/ Unwritten # {} \/ overlapped

\* run() returns: nothing can be left that it would wait for in vain.
RunIosReturns == main = "run" ~> main = "reset"

\* What async_write requires (include/asio/write.hpp:726-729).
OneWriteAtATime == ~ overlapped

===============================================================================
