----------------------------- MODULE RingBarrier ------------------------------
(***************************************************************************)
(* The synchronisation of the program instances: Calculator::doAsync, run  *)
(* by the main thread, and the `finish' case of the server thread          *)
(* (cpp/server.cpp).                                                       *)
(*                                                                         *)
(* Instance p's client is connected to the server of instance p - 1, and   *)
(* that of instance 1 to instance N: messages travel N -> ... -> 1 -> N.   *)
(* A main thread that reaches a barrier sends a finish token around the    *)
(* ring.  The token carries the number of the barrier and one digit per    *)
(* instance; an instance that has reached the barrier increments its own   *)
(* digit and passes the token on, any other one drops it.  A server that   *)
(* sees a token with no digit left at 0 wakes its main thread with         *)
(* cv.notify_one(), once per barrier.                                      *)
(*                                                                         *)
(* Main and server thread share finish_index, is_finished and is_notify;   *)
(* cv.wait(lck) has no predicate, and the server notifies without holding  *)
(* the mutex.  Two consequences are part of the model: a notification that *)
(* comes before the main thread is inside cv.wait is lost, and the wait of *)
(* an instance in Disturbed may return although no token completed (the    *)
(* standard allows it, and `q' typed while the calculation runs makes the  *)
(* interaction thread notify the same condition variable, main.cpp).       *)
(***************************************************************************)
EXTENDS Integers, Sequences

CONSTANTS N,          \* number of instances (n in main.cpp; 4 in the program)
          Rounds,     \* number of doAsync calls of doCalculate
          Disturbed   \* instances whose wait may end without a notification
                      \* from their own server

ASSUME NAssumption == N \in Nat /\ N >= 2
ASSUME RoundsAssumption == Rounds \in Nat
ASSUME DisturbedAssumption == Disturbed \subseteq 1..N

Procs == 1..N

\* The instance whose server p's client is connected to.
Down(p) == IF p = 1 THEN N ELSE p - 1

VARIABLES
  pc,          \* position of the main thread in doAsync
  finish_index,\* number of the barrier the main thread is at
  is_finished, \* barriers the instance has reached
  is_notify,   \* barriers the main thread has left
  has_notify,  \* barriers the server thread has notified
  notifying,   \* barrier whose notify_one the server is about to call, or None
  wire,        \* wire[p]: the TCP stream read by the server of p
  disturbed,   \* history: instances whose wait ended without notification
  lost         \* history: instances whose server notified nobody

mainVars == <<pc, finish_index, is_finished, is_notify>>
serverVars == <<has_notify, notifying, lost>>
vars == <<pc, finish_index, is_finished, is_notify, has_notify, notifying,
          wire, disturbed, lost>>

None == -1

Token == [head : {"finish"}, idx : Nat, cnt : [Procs -> Nat]]

TypeOK ==
  /\ pc \in [Procs -> {"run", "entered", "sent", "wait", "woken"}]
  /\ finish_index \in [Procs -> Nat]
  /\ is_finished \in [Procs -> SUBSET Nat]
  /\ is_notify \in [Procs -> SUBSET Nat]
  /\ has_notify \in [Procs -> SUBSET Nat]
  /\ notifying \in [Procs -> Nat \cup {None}]
  /\ wire \in [Procs -> Seq(Token)]
  /\ disturbed \subseteq Disturbed
  /\ lost \subseteq Procs

Init ==
  /\ pc = [p \in Procs |-> "run"]
  /\ finish_index = [p \in Procs |-> 0]
  /\ is_finished = [p \in Procs |-> {}]
  /\ is_notify = [p \in Procs |-> {}]
  /\ has_notify = [p \in Procs |-> {}]
  /\ notifying = [p \in Procs |-> None]
  /\ wire = [p \in Procs |-> << >>]
  /\ disturbed = {}
  /\ lost = {}

-------------------------------------------------------------------------------
(***************************************************************************)
(* The main thread.                                                        *)
(***************************************************************************)

\* sendFinish increments the digit of the instance itself before it sends.
Stamped(p, idx, cnt) ==
  [head |-> "finish", idx |-> idx, cnt |-> [cnt EXCEPT ![p] = @ + 1]]

NoDigits == [p \in Procs |-> 0]

\* is_finished[finish_index] = 1
EnterBarrier(p) ==
  /\ pc[p] = "run"
  /\ finish_index[p] < Rounds
  /\ is_finished' = [is_finished EXCEPT ![p] = @ \cup {finish_index[p]}]
  /\ pc' = [pc EXCEPT ![p] = "entered"]
  /\ UNCHANGED <<finish_index, is_notify, serverVars, wire, disturbed>>

\* Mutant: the default idx = -1 of sendFinish is sent as it is.
SendFinishUnnumbered(p) ==
  /\ pc[p] = "entered"
  /\ wire' = [wire EXCEPT ![Down(p)] = Append(@, Stamped(p, -1, NoDigits))]
  /\ pc' = [pc EXCEPT ![p] = "sent"]
  /\ UNCHANGED <<finish_index, is_finished, is_notify, serverVars, disturbed>>

\* sendFinish(): cnt = "0000", idx = finish_index
SendFinish(p) ==
  /\ pc[p] = "entered"
  /\ wire' = [wire EXCEPT ![Down(p)] =
                            Append(@, Stamped(p, finish_index[p], NoDigits))]
  /\ pc' = [pc EXCEPT ![p] = "sent"]
  /\ UNCHANGED <<finish_index, is_finished, is_notify, serverVars, disturbed>>

\* cv.wait(lck): from here on a notify_one finds the thread
Wait(p) ==
  /\ pc[p] = "sent"
  /\ pc' = [pc EXCEPT ![p] = "wait"]
  /\ UNCHANGED <<finish_index, is_finished, is_notify, serverVars, wire,
                 disturbed>>

\* is_notify[finish_index++] = 1
LeaveBarrier(p) ==
  /\ pc[p] = "woken"
  /\ is_notify' = [is_notify EXCEPT ![p] = @ \cup {finish_index[p]}]
  /\ finish_index' = [finish_index EXCEPT ![p] = @ + 1]
  /\ pc' = [pc EXCEPT ![p] = "run"]
  /\ UNCHANGED <<is_finished, serverVars, wire, disturbed>>

\* cv.wait returns without a notification from the server: a spurious
\* wake-up, or the notify_one of the interaction thread on `q'
Disturb(p) ==
  /\ p \in Disturbed
  /\ pc[p] = "wait"
  /\ pc' = [pc EXCEPT ![p] = "woken"]
  /\ disturbed' = disturbed \cup {p}
  /\ UNCHANGED <<finish_index, is_finished, is_notify, serverVars, wire>>

-------------------------------------------------------------------------------
(***************************************************************************)
(* The server thread: the `finish' case.  It tests the shared maps and     *)
(* forwards the token in one step; the notification is a step of its own,  *)
(* so that the main threads of all instances can run in between.           *)
(***************************************************************************)

\* checkFinish: every digit is at least '1'
CheckFinish(t) == \A q \in Procs : t.cnt[q] >= 1

\* Mutant: the server does not ask whether the main thread has got there.
CurrentUnreached(p, t) ==
  /\ t.idx \notin is_notify[p]
  /\ finish_index[p] = t.idx

\* The barrier of the token is the one the main thread is at, it has been
\* reached, and the main thread has not left it.
Current(p, t) ==
  /\ t.idx \notin is_notify[p]
  /\ t.idx \in is_finished[p]
  /\ finish_index[p] = t.idx

Forward(p, t) ==
  wire' = [wire EXCEPT ![p] = Tail(@),
                       ![Down(p)] = Append(@, Stamped(p, t.idx, t.cnt))]

Receives(p) ==
  /\ notifying[p] = None
  /\ wire[p] # << >>

DropToken(p) ==
  /\ Receives(p)
  /\ LET t == Head(wire[p]) IN
       \/ ~ Current(p, t)
       \/ CheckFinish(t) /\ t.idx \in has_notify[p]
  /\ wire' = [wire EXCEPT ![p] = Tail(@)]
  /\ UNCHANGED <<mainVars, serverVars, disturbed>>

PassToken(p) ==
  /\ Receives(p)
  /\ LET t == Head(wire[p]) IN
       /\ Current(p, t)
       /\ ~ CheckFinish(t)
       /\ Forward(p, t)
  /\ UNCHANGED <<mainVars, serverVars, disturbed>>

\* Mutant: a complete token is announced every time it comes round.
CompleteTokenAgain(p) ==
  /\ Receives(p)
  /\ LET t == Head(wire[p]) IN
       /\ Current(p, t)
       /\ CheckFinish(t)
       /\ Forward(p, t)
       /\ notifying' = [notifying EXCEPT ![p] = t.idx]
  /\ UNCHANGED <<mainVars, has_notify, lost, disturbed>>

\* Mutant: a complete token is announced and not passed on.
CompleteTokenSilent(p) ==
  /\ Receives(p)
  /\ LET t == Head(wire[p]) IN
       /\ Current(p, t)
       /\ CheckFinish(t)
       /\ t.idx \notin has_notify[p]
       /\ notifying' = [notifying EXCEPT ![p] = t.idx]
  /\ wire' = [wire EXCEPT ![p] = Tail(@)]
  /\ UNCHANGED <<mainVars, has_notify, lost, disturbed>>

CompleteToken(p) ==
  /\ Receives(p)
  /\ LET t == Head(wire[p]) IN
       /\ Current(p, t)
       /\ CheckFinish(t)
       /\ t.idx \notin has_notify[p]
       /\ Forward(p, t)
       /\ notifying' = [notifying EXCEPT ![p] = t.idx]
  /\ UNCHANGED <<mainVars, has_notify, lost, disturbed>>

\* cv.notify_one() and has_notify[idx] = 1
Notify(p) ==
  /\ notifying[p] # None
  /\ IF pc[p] = "wait"
       THEN pc' = [pc EXCEPT ![p] = "woken"] /\ UNCHANGED lost
       ELSE lost' = lost \cup {p} /\ UNCHANGED pc
  /\ has_notify' = [has_notify EXCEPT ![p] = @ \cup {notifying[p]}]
  /\ notifying' = [notifying EXCEPT ![p] = None]
  /\ UNCHANGED <<finish_index, is_finished, is_notify, wire, disturbed>>

HandleFinish(p) == DropToken(p) \/ PassToken(p) \/ CompleteToken(p)

-------------------------------------------------------------------------------

Main(p) == EnterBarrier(p) \/ SendFinish(p) \/ Wait(p) \/ LeaveBarrier(p)
Server(p) == HandleFinish(p) \/ Notify(p)

Next == \E p \in Procs : Main(p) \/ Server(p) \/ Disturb(p)

Spec == Init /\ [][Next]_vars

\* The operating system schedules both threads of every instance; nobody has
\* to type `q' and a wait need not wake up spuriously.
Fairness == \A p \in Procs : WF_vars(Main(p)) /\ WF_vars(Server(p))

FairSpec == Spec /\ Fairness

-------------------------------------------------------------------------------
(***************************************************************************)
(* Properties.                                                             *)
(***************************************************************************)

\* A main thread leaves a barrier only when every instance has reached it
\* (the purpose of doAsync), unless its own wait was disturbed: a token is
\* never stamped on behalf of an instance that is not there, whatever the
\* others do, and a disturbed instance harms only itself.
BarrierSafety ==
  \A p \in Procs \ disturbed : \A k \in is_notify[p] :
    \A q \in Procs : k \in is_finished[q]

\* A wake-up reaches the barrier its token was for: while the server is
\* between its tests and notify_one, the main thread cannot have moved on to
\* another barrier, nor have been woken for this one already.
WakeIsCurrent ==
  \A p \in Procs \ disturbed : notifying[p] # None =>
    /\ notifying[p] = finish_index[p]
    /\ notifying[p] \notin has_notify[p]
    /\ pc[p] # "woken"

\* Every token dies: it travels at most one lap to collect the digits and one
\* lap to announce the result, so no digit, a char of the message, passes '2'.
AtMostTwoLaps ==
  \A p \in Procs : \A i \in DOMAIN wire[p] :
    \A q \in Procs : wire[p][i].cnt[q] <= 2

AllThrough == \A p \in Procs : finish_index[p] = Rounds

\* The only thing that can keep the instances from passing all the barriers
\* is a notification that came before the wait (or a disturbed wait): dropping
\* tokens of instances that arrive early never leaves everybody waiting.
HangsOnlyIfNotifyLost == <>(AllThrough \/ lost # {} \/ disturbed # {})

\* What "wait until all processes are done" (Calculator.cpp:77) asks for.
EveryBarrierPassed == <>AllThrough

\* Among the instances whose wait is never disturbed, doAsync implements the
\* abstract barrier, whatever happens to the others: is_finished counts the
\* barriers entered, finish_index those left.
Steady == Procs \ Disturbed

Inside(p) == pc[p] \in {"entered", "sent", "wait", "woken"}

AbstractBarrier == INSTANCE Barrier WITH
  Procs <- Steady,
  entered <- [p \in Steady |-> finish_index[p] + IF Inside(p) THEN 1 ELSE 0],
  left <- [p \in Steady |-> finish_index[p]]

ImplementsBarrier == AbstractBarrier!Spec

===============================================================================
