-------------------------- MODULE RingBarrierProofs ---------------------------
(***************************************************************************)
(* Proofs about RingBarrier, for any number of instances and of barriers.  *)
(*                                                                         *)
(* BarrierSafety speaks of barriers already left; what makes it inductive  *)
(* is what is still on its way: the tokens in the streams, the             *)
(* notification a server is about to make, and the main threads that are   *)
(* awake but have not left (Strengthening below).  That every token dies,  *)
(* which is AtMostTwoLaps, has an argument of its own in the second half.  *)
(***************************************************************************)
EXTENDS RingBarrier, SequenceTheorems, TLAPS

\* The barriers an instance has reached and left, read off finish_index.
FinishedIsPrefix ==
  \A p \in Procs : \A k \in Nat :
    k \in is_finished[p] <=> \/ k < finish_index[p]
                             \/ k = finish_index[p] /\ Inside(p)

LeftIsPrefix ==
  \A p \in Procs : \A k \in Nat : k \in is_notify[p] <=> k < finish_index[p]

\* A digit that is set names an instance that has reached the barrier.
Honest(t) == \A q \in Procs : t.cnt[q] >= 1 => t.idx \in is_finished[q]

HonestTokens ==
  \A p \in Procs : \A i \in 1..Len(wire[p]) : Honest(wire[p][i])

HonestNotify ==
  \A p \in Procs : notifying[p] # None =>
    \A q \in Procs : notifying[p] \in is_finished[q]

WokenByAll ==
  \A p \in Procs \ disturbed : pc[p] = "woken" =>
    /\ finish_index[p] \in has_notify[p]
    /\ \A q \in Procs : finish_index[p] \in is_finished[q]

Strengthening ==
  /\ FinishedIsPrefix
  /\ LeftIsPrefix
  /\ HonestTokens
  /\ HonestNotify
  /\ WakeIsCurrent
  /\ WokenByAll

IInv ==
  /\ TypeOK
  /\ Strengthening
  /\ BarrierSafety

-------------------------------------------------------------------------------
(***************************************************************************)
(* The ring and the streams.                                               *)
(***************************************************************************)

\* The neighbour downstream is another instance.
LEMMA DownType == \A p \in Procs : Down(p) \in Procs /\ Down(p) # p
  BY NAssumption DEF Down, Procs

\* What sendFinish sends is a token.
LEMMA StampedType ==
  ASSUME NEW p \in Procs, NEW idx \in Nat, NEW cnt \in [Procs -> Nat]
  PROVE  Stamped(p, idx, cnt) \in Token
  BY DEF Stamped, Token

LEMMA NoDigitsType == NoDigits \in [Procs -> Nat]
  BY DEF NoDigits

\* The elements of a stream after a send.
LEMMA AppendElements ==
  ASSUME NEW S, NEW s \in Seq(S), NEW e \in S,
         NEW i \in 1..Len(Append(s, e))
  PROVE  \/ i \in 1..Len(s) /\ Append(s, e)[i] = s[i]
         \/ Append(s, e)[i] = e
  BY AppendProperties, LenProperties

\* The elements of a stream after a read.
LEMMA TailElements ==
  ASSUME NEW S, NEW s \in Seq(S), s # << >>, NEW i \in 1..Len(Tail(s))
  PROVE  i + 1 \in 1..Len(s) /\ Tail(s)[i] = s[i + 1]
  BY HeadTailProperties, LenProperties

\* The first token of a stream is one of its elements.
LEMMA HeadElement ==
  ASSUME NEW S, NEW s \in Seq(S), s # << >>
  PROVE  1 \in 1..Len(s) /\ Head(s) = s[1] /\ Head(s) \in S
  BY HeadTailProperties, EmptySeq, LenProperties

-------------------------------------------------------------------------------
(***************************************************************************)
(* Types.                                                                  *)
(***************************************************************************)

LEMMA InitType == Init => TypeOK
  <1>1. << >> \in Seq(Token)
    BY EmptySeq
  <1> QED
    BY <1>1 DEF Init, TypeOK

LEMMA NextType == TypeOK /\ [Next]_vars => TypeOK'
  <1> SUFFICES ASSUME TypeOK, [Next]_vars PROVE TypeOK'
    OBVIOUS
  <1> USE DEF TypeOK, mainVars, serverVars
  <1>1. ASSUME NEW p \in Procs, EnterBarrier(p) PROVE TypeOK'
    BY <1>1 DEF EnterBarrier
  <1>2. ASSUME NEW p \in Procs, SendFinish(p) PROVE TypeOK'
    <2>1. Stamped(p, finish_index[p], NoDigits) \in Token
      BY StampedType, NoDigitsType
    <2>2. wire' \in [Procs -> Seq(Token)]
      BY <1>2, <2>1, DownType, AppendProperties DEF SendFinish
    <2> QED
      BY <1>2, <2>2 DEF SendFinish
  <1>3. ASSUME NEW p \in Procs, Wait(p) PROVE TypeOK'
    BY <1>3 DEF Wait
  <1>4. ASSUME NEW p \in Procs, LeaveBarrier(p) PROVE TypeOK'
    BY <1>4 DEF LeaveBarrier
  <1>5. ASSUME NEW p \in Procs, Disturb(p) PROVE TypeOK'
    BY <1>5 DEF Disturb
  <1>6. ASSUME NEW p \in Procs, DropToken(p) PROVE TypeOK'
    <2>1. wire[p] \in Seq(Token) /\ wire[p] # << >>
      BY <1>6 DEF DropToken, Receives
    <2>2. Tail(wire[p]) \in Seq(Token)
      BY <2>1, HeadTailProperties
    <2>3. wire' \in [Procs -> Seq(Token)]
      BY <1>6, <2>2 DEF DropToken
    <2> QED
      BY <1>6, <2>3 DEF DropToken
  <1>7. ASSUME NEW p \in Procs, Receives(p), Forward(p, Head(wire[p]))
        PROVE  Head(wire[p]) \in Token /\ wire' \in [Procs -> Seq(Token)]
    <2>1. wire[p] \in Seq(Token) /\ wire[p] # << >>
      BY <1>7 DEF Receives
    <2>2. Head(wire[p]) \in Token /\ Tail(wire[p]) \in Seq(Token)
      BY <2>1, HeadTailProperties
    <2>3. Stamped(p, Head(wire[p]).idx, Head(wire[p]).cnt) \in Token
      BY <2>2, StampedType DEF Token
    <2>4. /\ Down(p) \in Procs
          /\ Append(wire[Down(p)],
                    Stamped(p, Head(wire[p]).idx, Head(wire[p]).cnt))
               \in Seq(Token)
      BY <2>3, DownType, AppendProperties
    <2> QED
      BY <1>7, <2>2, <2>4, DownType DEF Forward
  <1>8. ASSUME NEW p \in Procs, PassToken(p) PROVE TypeOK'
    <2>1. wire' \in [Procs -> Seq(Token)]
      BY <1>7, <1>8 DEF PassToken
    <2> QED
      BY <1>8, <2>1 DEF PassToken
  <1>9. ASSUME NEW p \in Procs, CompleteToken(p) PROVE TypeOK'
    <2>1. Head(wire[p]) \in Token /\ wire' \in [Procs -> Seq(Token)]
      BY <1>7, <1>9 DEF CompleteToken
    <2>2. Head(wire[p]).idx \in Nat
      BY <2>1 DEF Token
    <2> QED
      BY <1>9, <2>1, <2>2 DEF CompleteToken
  <1>10. ASSUME NEW p \in Procs, Notify(p) PROVE TypeOK'
    <2>1. pc' \in [Procs -> {"run", "entered", "sent", "wait", "woken"}]
      BY <1>10 DEF Notify
    <2>2. lost' \subseteq Procs
      BY <1>10 DEF Notify
    <2>3. notifying[p] \in Nat
      BY <1>10 DEF Notify
    <2>4. has_notify' \in [Procs -> SUBSET Nat]
      BY <1>10, <2>3 DEF Notify
    <2>5. notifying' \in [Procs -> Nat \cup {None}]
      BY <1>10 DEF Notify
    <2> QED
      BY <1>10, <2>1, <2>2, <2>4, <2>5 DEF Notify
  <1>11. CASE UNCHANGED vars
    BY <1>11 DEF vars
  <1> QED
    BY <1>1, <1>2, <1>3, <1>4, <1>5, <1>6, <1>8, <1>9, <1>10, <1>11
       DEF Next, Main, Server, HandleFinish

\* Every variable keeps its type: in particular no stream ever holds anything
\* but well-formed tokens, and barrier numbers never go below 0.
THEOREM TypeCorrect == Spec => []TypeOK
  <1> QED
    BY InitType, NextType, PTL DEF Spec

-------------------------------------------------------------------------------
(***************************************************************************)
(* Tokens stay honest.                                                     *)
(***************************************************************************)

\* A token stays honest when more instances reach more barriers.
LEMMA HonestGrows ==
  ASSUME NEW t, Honest(t),
         \A q \in Procs : is_finished[q] \subseteq is_finished'[q]
  PROVE  Honest(t)'
  BY DEF Honest

\* The stamp of an instance that has reached the barrier is honest.
LEMMA HonestStamp ==
  ASSUME NEW p \in Procs, NEW idx \in Nat, NEW cnt \in [Procs -> Nat],
         idx \in is_finished[p],
         \A q \in Procs : cnt[q] >= 1 => idx \in is_finished[q]
  PROVE  Honest(Stamped(p, idx, cnt))
  BY DEF Honest, Stamped

\* Nothing is sent or received.
LEMMA HonestQuiet ==
  ASSUME HonestTokens, UNCHANGED wire,
         \A q \in Procs : is_finished[q] \subseteq is_finished'[q]
  PROVE  HonestTokens'
  BY HonestGrows DEF HonestTokens

\* An honest token is sent.
LEMMA HonestSend ==
  ASSUME TypeOK, HonestTokens, UNCHANGED is_finished,
         NEW p \in Procs, NEW t \in Token, Honest(t),
         wire' = [wire EXCEPT ![Down(p)] = Append(@, t)]
  PROVE  HonestTokens'
  <1> SUFFICES ASSUME NEW q \in Procs, NEW i \in 1..Len(wire'[q])
               PROVE  Honest(wire'[q][i])
    BY DEF HonestTokens, Honest
  <1>1. wire[q] \in Seq(Token)
    BY DEF TypeOK
  <1>2. CASE q = Down(p)
    <2>1. wire'[q] = Append(wire[q], t)
      BY <1>2 DEF TypeOK
    <2>2. \/ i \in 1..Len(wire[q]) /\ wire'[q][i] = wire[q][i]
          \/ wire'[q][i] = t
      BY <1>1, <2>1, AppendElements
    <2> QED
      BY <2>2 DEF HonestTokens
  <1>3. CASE q # Down(p)
    BY <1>3 DEF TypeOK, HonestTokens
  <1> QED
    BY <1>2, <1>3

\* The first token of a stream is read.
LEMMA HonestRead ==
  ASSUME TypeOK, HonestTokens, UNCHANGED is_finished,
         NEW p \in Procs, wire[p] # << >>,
         wire' = [wire EXCEPT ![p] = Tail(@)]
  PROVE  HonestTokens'
  <1> SUFFICES ASSUME NEW q \in Procs, NEW i \in 1..Len(wire'[q])
               PROVE  Honest(wire'[q][i])
    BY DEF HonestTokens, Honest
  <1>1. wire[q] \in Seq(Token)
    BY DEF TypeOK
  <1>2. CASE q = p
    <2>1. wire'[q] = Tail(wire[q])
      BY <1>2 DEF TypeOK
    <2>2. i + 1 \in 1..Len(wire[q]) /\ wire'[q][i] = wire[q][i + 1]
      BY <1>1, <1>2, <2>1, TailElements
    <2> QED
      BY <2>2 DEF HonestTokens
  <1>3. CASE q # p
    BY <1>3 DEF TypeOK, HonestTokens
  <1> QED
    BY <1>2, <1>3

\* The first token of a stream is honest, and so is what its receiver passes
\* on; reading it and passing it on leaves only honest tokens.
LEMMA HonestForward ==
  ASSUME TypeOK, HonestTokens, UNCHANGED is_finished,
         NEW p \in Procs, Receives(p), Current(p, Head(wire[p])),
         Forward(p, Head(wire[p]))
  PROVE  Honest(Head(wire[p])) /\ HonestTokens'
  <1> DEFINE t == Head(wire[p])
             u == Stamped(p, t.idx, t.cnt)
  <1>1. wire[p] \in Seq(Token) /\ wire[p] # << >>
    BY DEF TypeOK, Receives
  <1>2. t \in Token /\ Honest(t)
    BY <1>1, HeadElement DEF HonestTokens
  <1>3. u \in Token
    BY <1>2, StampedType DEF Token
  <1>4. Honest(u)
    BY <1>2, HonestStamp DEF Honest, Token, Current
  <1> SUFFICES ASSUME NEW q \in Procs, NEW i \in 1..Len(wire'[q])
               PROVE  Honest(wire'[q][i])
    BY <1>2 DEF HonestTokens, Honest
  <1> HIDE DEF t, u
  <1>5. wire[q] \in Seq(Token)
    BY DEF TypeOK
  <1>6. wire' = [wire EXCEPT ![p] = Tail(@), ![Down(p)] = Append(@, u)]
    BY DEF Forward, t, u
  <1>7. CASE q = p
    <2>1. wire'[q] = Tail(wire[q])
      BY <1>6, <1>7, DownType DEF TypeOK
    <2>2. i + 1 \in 1..Len(wire[q]) /\ wire'[q][i] = wire[q][i + 1]
      BY <1>1, <1>7, <2>1, TailElements
    <2> QED
      BY <2>2 DEF HonestTokens
  <1>8. CASE q = Down(p)
    <2>1. wire'[q] = Append(wire[q], u)
      BY <1>6, <1>8, DownType DEF TypeOK
    <2>2. \/ i \in 1..Len(wire[q]) /\ wire'[q][i] = wire[q][i]
          \/ wire'[q][i] = u
      BY <1>3, <1>5, <2>1, AppendElements
    <2> QED
      BY <1>4, <2>2 DEF HonestTokens
  <1>9. CASE q # p /\ q # Down(p)
    <2>1. wire'[q] = wire[q]
      BY <1>6, <1>9, DownType DEF TypeOK
    <2> QED
      BY <2>1 DEF HonestTokens
  <1> QED
    BY <1>7, <1>8, <1>9

-------------------------------------------------------------------------------
(***************************************************************************)
(* The inductive invariant.                                                *)
(***************************************************************************)

\* Nothing has happened yet.
LEMMA InitIInv == Init => IInv
  <1> SUFFICES ASSUME Init PROVE IInv
    OBVIOUS
  <1>1. TypeOK
    BY InitType
  <1>2. \A p \in Procs : Len(wire[p]) = 0
    BY EmptySeq DEF Init
  <1>3. HonestTokens
    BY <1>2 DEF HonestTokens
  <1>4. FinishedIsPrefix /\ LeftIsPrefix
    BY DEF Init, FinishedIsPrefix, LeftIsPrefix, Inside
  <1>5. HonestNotify /\ WakeIsCurrent /\ WokenByAll
    BY DEF Init, HonestNotify, WakeIsCurrent, WokenByAll
  <1>6. BarrierSafety
    BY DEF Init, BarrierSafety
  <1> QED
    BY <1>1, <1>3, <1>4, <1>5, <1>6 DEF IInv, Strengthening

\* The main thread reaches a barrier.
LEMMA EnterStep ==
  ASSUME IInv, NEW p \in Procs, EnterBarrier(p)
  PROVE  (Strengthening /\ BarrierSafety)'
  <1> USE DEF IInv, Strengthening, TypeOK, serverVars
  <1>1. \A q \in Procs : is_finished[q] \subseteq is_finished'[q]
    BY DEF EnterBarrier
  <1>2. FinishedIsPrefix'
    BY DEF EnterBarrier, FinishedIsPrefix, Inside
  <1>3. LeftIsPrefix'
    BY DEF EnterBarrier, LeftIsPrefix
  <1>4. HonestTokens'
    BY <1>1, HonestQuiet DEF EnterBarrier
  <1>5. HonestNotify'
    BY <1>1 DEF EnterBarrier, HonestNotify
  <1>6. WakeIsCurrent'
    BY DEF EnterBarrier, WakeIsCurrent
  <1>7. WokenByAll'
    BY <1>1 DEF EnterBarrier, WokenByAll
  <1>8. BarrierSafety'
    BY <1>1 DEF EnterBarrier, BarrierSafety
  <1> QED
    BY <1>2, <1>3, <1>4, <1>5, <1>6, <1>7, <1>8

\* The main thread sends its token.
LEMMA SendStep ==
  ASSUME IInv, NEW p \in Procs, SendFinish(p)
  PROVE  (Strengthening /\ BarrierSafety)'
  <1> USE DEF IInv, Strengthening, TypeOK, serverVars
  <1> DEFINE t == Stamped(p, finish_index[p], NoDigits)
  <1>1. t \in Token
    BY StampedType, NoDigitsType
  <1>2. finish_index[p] \in is_finished[p]
    BY DEF SendFinish, FinishedIsPrefix, Inside
  <1>3. Honest(t)
    <2>1. \A q \in Procs : ~ (NoDigits[q] >= 1)
      BY DEF NoDigits
    <2> QED
      BY <1>2, <2>1, HonestStamp, NoDigitsType
  <1>4. wire' = [wire EXCEPT ![Down(p)] = Append(@, t)]
    BY DEF SendFinish
  <1>5. HonestTokens'
    <2> HIDE DEF t
    <2> QED
      BY <1>1, <1>3, <1>4, HonestSend DEF SendFinish
  <1>6. FinishedIsPrefix' /\ LeftIsPrefix'
    BY DEF SendFinish, FinishedIsPrefix, LeftIsPrefix, Inside
  <1>7. HonestNotify' /\ WakeIsCurrent' /\ WokenByAll'
    BY DEF SendFinish, HonestNotify, WakeIsCurrent, WokenByAll
  <1>8. BarrierSafety'
    BY DEF SendFinish, BarrierSafety
  <1> QED
    BY <1>5, <1>6, <1>7, <1>8

\* The main thread starts to wait.
LEMMA WaitStep ==
  ASSUME IInv, NEW p \in Procs, Wait(p)
  PROVE  (Strengthening /\ BarrierSafety)'
  <1> USE DEF IInv, Strengthening, TypeOK, serverVars
  <1>1. HonestTokens'
    BY HonestQuiet DEF Wait
  <1>2. FinishedIsPrefix' /\ LeftIsPrefix'
    BY DEF Wait, FinishedIsPrefix, LeftIsPrefix, Inside
  <1>3. HonestNotify' /\ WakeIsCurrent' /\ WokenByAll'
    BY DEF Wait, HonestNotify, WakeIsCurrent, WokenByAll
  <1>4. BarrierSafety'
    BY DEF Wait, BarrierSafety
  <1> QED
    BY <1>1, <1>2, <1>3, <1>4

\* The main thread leaves the barrier: its token came back complete.
LEMMA LeaveStep ==
  ASSUME IInv, NEW p \in Procs, LeaveBarrier(p)
  PROVE  (Strengthening /\ BarrierSafety)'
  <1> USE DEF IInv, Strengthening, TypeOK, serverVars
  <1>1. HonestTokens'
    BY HonestQuiet DEF LeaveBarrier
  <1>2. FinishedIsPrefix'
    BY DEF LeaveBarrier, FinishedIsPrefix, Inside
  <1>3. LeftIsPrefix'
    BY DEF LeaveBarrier, LeftIsPrefix
  <1>4. HonestNotify'
    BY DEF LeaveBarrier, HonestNotify
  <1>5. WakeIsCurrent'
    BY DEF LeaveBarrier, WakeIsCurrent
  <1>6. WokenByAll'
    BY DEF LeaveBarrier, WokenByAll
  <1>7. BarrierSafety'
    <2>1. p \notin disturbed =>
            \A q \in Procs : finish_index[p] \in is_finished[q]
      BY DEF LeaveBarrier, WokenByAll
    <2> QED
      BY <2>1 DEF LeaveBarrier, BarrierSafety
  <1> QED
    BY <1>1, <1>2, <1>3, <1>4, <1>5, <1>6, <1>7

\* The wait ends by itself: the instance loses its guarantee.
LEMMA DisturbStep ==
  ASSUME IInv, NEW p \in Procs, Disturb(p)
  PROVE  (Strengthening /\ BarrierSafety)'
  <1> USE DEF IInv, Strengthening, TypeOK, serverVars
  <1>1. HonestTokens'
    BY HonestQuiet DEF Disturb
  <1>2. FinishedIsPrefix' /\ LeftIsPrefix'
    BY DEF Disturb, FinishedIsPrefix, LeftIsPrefix, Inside
  <1>3. HonestNotify' /\ WakeIsCurrent' /\ WokenByAll'
    BY DEF Disturb, HonestNotify, WakeIsCurrent, WokenByAll
  <1>4. BarrierSafety'
    BY DEF Disturb, BarrierSafety
  <1> QED
    BY <1>1, <1>2, <1>3, <1>4

\* The server drops or forwards a token without completing it.
LEMMA RelayStep ==
  ASSUME IInv, NEW p \in Procs, DropToken(p) \/ PassToken(p)
  PROVE  (Strengthening /\ BarrierSafety)'
  <1> USE DEF IInv, Strengthening, TypeOK, mainVars, serverVars
  <1>1. UNCHANGED <<mainVars, serverVars, disturbed>>
    BY DEF DropToken, PassToken
  <1>2. HonestTokens'
    <2>1. CASE DropToken(p)
      BY <2>1, HonestRead DEF DropToken, Receives
    <2>2. CASE PassToken(p)
      BY <2>2, HonestForward DEF PassToken
    <2> QED
      BY <2>1, <2>2
  <1>3. FinishedIsPrefix' /\ LeftIsPrefix'
    BY <1>1 DEF FinishedIsPrefix, LeftIsPrefix, Inside
  <1>4. HonestNotify' /\ WakeIsCurrent' /\ WokenByAll'
    BY <1>1 DEF HonestNotify, WakeIsCurrent, WokenByAll
  <1>5. BarrierSafety'
    BY <1>1 DEF BarrierSafety
  <1> QED
    BY <1>2, <1>3, <1>4, <1>5

\* The server sees the complete token: everybody has reached the barrier.
LEMMA CompleteStep ==
  ASSUME IInv, NEW p \in Procs, CompleteToken(p)
  PROVE  (Strengthening /\ BarrierSafety)'
  <1> USE DEF IInv, Strengthening, TypeOK, mainVars
  <1> DEFINE t == Head(wire[p])
  <1>1. /\ UNCHANGED <<mainVars, has_notify, lost, disturbed>>
        /\ notifying' = [notifying EXCEPT ![p] = t.idx]
        /\ Current(p, t) /\ CheckFinish(t) /\ t.idx \notin has_notify[p]
        /\ Receives(p) /\ Forward(p, t)
    BY DEF CompleteToken
  <1>2. Honest(t) /\ HonestTokens'
    BY <1>1, HonestForward
  <1> HIDE DEF t
  <1>3. t.idx = finish_index[p]
    BY <1>1 DEF Current
  <1>4. \A q \in Procs : t.idx \in is_finished[q]
    BY <1>1, <1>2 DEF Honest, CheckFinish
  <1>5. FinishedIsPrefix' /\ LeftIsPrefix'
    BY <1>1 DEF FinishedIsPrefix, LeftIsPrefix, Inside
  <1>6. HonestNotify'
    BY <1>1, <1>4 DEF HonestNotify
  <1>7. WakeIsCurrent'
    BY <1>1, <1>3 DEF WakeIsCurrent, WokenByAll
  <1>8. WokenByAll' /\ BarrierSafety'
    BY <1>1 DEF WokenByAll, BarrierSafety
  <1> QED
    BY <1>2, <1>5, <1>6, <1>7, <1>8

\* The server calls notify_one.
LEMMA NotifyStep ==
  ASSUME IInv, NEW p \in Procs, Notify(p)
  PROVE  (Strengthening /\ BarrierSafety)'
  <1> USE DEF IInv, Strengthening, TypeOK
  <1>1. /\ UNCHANGED <<finish_index, is_finished, is_notify, wire, disturbed>>
        /\ notifying[p] # None /\ notifying[p] \in Nat
        /\ has_notify' = [has_notify EXCEPT ![p] = @ \cup {notifying[p]}]
        /\ notifying' = [notifying EXCEPT ![p] = None]
    BY DEF Notify
  <1>2. /\ \A q \in Procs \ {p} : pc'[q] = pc[q]
        /\ \/ pc'[p] = pc[p]
           \/ pc[p] = "wait" /\ pc'[p] = "woken"
    BY DEF Notify
  <1>3. HonestTokens'
    BY <1>1, HonestQuiet
  <1>4. FinishedIsPrefix' /\ LeftIsPrefix'
    BY <1>1, <1>2 DEF FinishedIsPrefix, LeftIsPrefix, Inside
  <1>5. HonestNotify'
    BY <1>1 DEF HonestNotify
  <1>6. WakeIsCurrent'
    BY <1>1, <1>2 DEF WakeIsCurrent
  <1>7. WokenByAll'
    <2> SUFFICES ASSUME NEW q \in Procs \ disturbed, pc'[q] = "woken"
                 PROVE  /\ finish_index[q] \in has_notify'[q]
                        /\ \A r \in Procs : finish_index[q] \in is_finished[r]
      BY <1>1 DEF WokenByAll
    <2>1. CASE q = p
      <3>1. notifying[p] = finish_index[p]
        BY <1>1, <2>1 DEF WakeIsCurrent
      <3> QED
        BY <1>1, <2>1, <3>1 DEF HonestNotify
    <2>2. CASE q # p
      BY <1>1, <1>2, <2>2 DEF WokenByAll
    <2> QED
      BY <2>1, <2>2
  <1>8. BarrierSafety'
    BY <1>1 DEF BarrierSafety
  <1> QED
    BY <1>3, <1>4, <1>5, <1>6, <1>7, <1>8

\* Every step keeps the invariant.
LEMMA NextIInv == IInv /\ [Next]_vars => IInv'
  <1> SUFFICES ASSUME IInv, [Next]_vars PROVE IInv'
    OBVIOUS
  <1>1. TypeOK'
    BY NextType DEF IInv
  <1>2. CASE Next
    <2> PICK p \in Procs : Main(p) \/ Server(p) \/ Disturb(p)
      BY <1>2 DEF Next
    <2> QED
      BY <1>1, EnterStep, SendStep, WaitStep, LeaveStep, DisturbStep,
         RelayStep, CompleteStep, NotifyStep
         DEF IInv, Main, Server, HandleFinish
  <1>3. CASE UNCHANGED vars
    <2> USE DEF IInv, Strengthening, vars
    <2>1. HonestTokens'
      BY <1>3, HonestQuiet
    <2>2. FinishedIsPrefix' /\ LeftIsPrefix' /\ HonestNotify'
      BY <1>3 DEF FinishedIsPrefix, LeftIsPrefix, Inside, HonestNotify
    <2>3. WakeIsCurrent' /\ WokenByAll' /\ BarrierSafety'
      BY <1>3 DEF WakeIsCurrent, WokenByAll, BarrierSafety
    <2> QED
      BY <1>1, <2>1, <2>2, <2>3
  <1> QED
    BY <1>2, <1>3

\* The invariant holds in every reachable state.
LEMMA AlwaysIInv == Spec => []IInv
  <1> QED
    BY InitIInv, NextIInv, PTL DEF Spec

-------------------------------------------------------------------------------
(***************************************************************************)
(* The results.                                                            *)
(***************************************************************************)

\* doAsync is safe: an instance whose own wait was never disturbed leaves
\* only barriers that every instance has reached, whatever happens to the
\* waits of the others.
THEOREM BarrierIsSafe == Spec => []BarrierSafety
  <1>1. IInv => BarrierSafety
    BY DEF IInv
  <1> QED
    BY <1>1, AlwaysIInv, PTL

\* notify_one is only ever called for the barrier the main thread is at.
THEOREM WakesAreCurrent == Spec => []WakeIsCurrent
  <1>1. IInv => WakeIsCurrent
    BY DEF IInv, Strengthening
  <1> QED
    BY <1>1, AlwaysIInv, PTL

-------------------------------------------------------------------------------
(***************************************************************************)
(* doAsync implements the abstract barrier.                                *)
(***************************************************************************)

\* Barriers entered and left, as the refinement mapping counts them.
Entered == [p \in Steady |-> finish_index[p] + IF Inside(p) THEN 1 ELSE 0]
Left == [p \in Steady |-> finish_index[p]]

\* A step of the ring enters a barrier, leaves one that everybody has entered,
\* or is invisible; what a disturbed instance does always is.
LEMMA StepSimulation ==
  ASSUME IInv, [Next]_vars
  PROVE  [AbstractBarrier!Next]_(AbstractBarrier!vars)
  <1> USE DEF IInv, Strengthening, TypeOK, Steady
  <1>1. UNCHANGED <<Entered, Left>> => UNCHANGED AbstractBarrier!vars
    BY DEF AbstractBarrier!vars, Entered, Left
  <1>2. ASSUME NEW p \in Steady, EnterBarrier(p)
        PROVE  AbstractBarrier!Enter(p)
    <2>1. Entered[p] = Left[p]
      BY <1>2 DEF Entered, Left, EnterBarrier, Inside
    <2>2. Entered' = [Entered EXCEPT ![p] = @ + 1]
      <3>1. /\ ~ Inside(p)
            /\ Inside(p)'
            /\ \A q \in Procs \ {p} : Inside(q)' = Inside(q)
        BY <1>2 DEF EnterBarrier, Inside
      <3>2. UNCHANGED finish_index
        BY <1>2 DEF EnterBarrier
      <3>3. \A q \in Steady : Entered[q] \in Nat
        BY DEF Entered
      <3>4. Entered'[p] = Entered[p] + 1
        BY <3>1, <3>2 DEF Entered
      <3>5. \A q \in Steady \ {p} : Entered'[q] = Entered[q]
        BY <3>1, <3>2 DEF Entered
      <3>6. /\ Entered = [q \in Steady |-> Entered[q]]
            /\ Entered' = [q \in Steady |-> Entered'[q]]
        BY DEF Entered
      <3> QED
        BY <3>4, <3>5, <3>6
    <2>3. UNCHANGED Left
      BY <1>2 DEF EnterBarrier, Left
    <2> QED
      BY <2>1, <2>2, <2>3 DEF AbstractBarrier!Enter, Entered, Left
  <1>3. ASSUME NEW p \in Steady, LeaveBarrier(p)
        PROVE  AbstractBarrier!Leave(p)
    <2>1. Entered[p] = Left[p] + 1
      BY <1>3 DEF Entered, Left, LeaveBarrier, Inside
    <2>2. \A q \in Steady : Entered[q] >= Entered[p]
      <3> SUFFICES ASSUME NEW q \in Steady PROVE Entered[q] >= Entered[p]
        OBVIOUS
      <3>1. finish_index[p] \in is_finished[q]
        BY <1>3 DEF LeaveBarrier, WokenByAll
      <3>2. \/ finish_index[p] < finish_index[q]
            \/ finish_index[p] = finish_index[q] /\ Inside(q)
        BY <3>1 DEF FinishedIsPrefix
      <3> QED
        BY <2>1, <3>2 DEF Entered, Left
    <2>3. Left' = [Left EXCEPT ![p] = @ + 1]
      BY <1>3 DEF LeaveBarrier, Left
    <2>4. UNCHANGED Entered
      BY <1>3 DEF Entered, LeaveBarrier, Inside
    <2> QED
      BY <2>1, <2>2, <2>3, <2>4 DEF AbstractBarrier!Leave, Entered, Left
  <1>4. ASSUME NEW p \in Procs, SendFinish(p) \/ Wait(p) \/ Notify(p)
        PROVE  UNCHANGED <<Entered, Left>>
    BY <1>4 DEF Entered, Left, Inside, SendFinish, Wait, Notify
  <1>5. ASSUME NEW p \in Procs, HandleFinish(p)
        PROVE  UNCHANGED <<Entered, Left>>
    BY <1>5 DEF Entered, Left, Inside, HandleFinish, DropToken, PassToken,
                CompleteToken, mainVars
  <1>6. ASSUME NEW p \in Procs \ Steady,
               EnterBarrier(p) \/ LeaveBarrier(p) \/ Disturb(p)
        PROVE  UNCHANGED <<Entered, Left>>
    <2>1. /\ \A q \in Steady : finish_index'[q] = finish_index[q]
          /\ \A q \in Steady : Inside(q)' = Inside(q)
      BY <1>6 DEF EnterBarrier, LeaveBarrier, Disturb, Inside
    <2> QED
      BY <2>1 DEF Entered, Left
  <1>7. CASE UNCHANGED vars
    <2>1. UNCHANGED <<Entered, Left>>
      BY <1>7 DEF vars, Entered, Left, Inside
    <2> QED
      BY <1>1, <2>1
  <1>8. CASE Next
    <2>1. PICK p \in Procs : Main(p) \/ Server(p) \/ Disturb(p)
      BY <1>8 DEF Next
    <2>2. \/ EnterBarrier(p)
          \/ LeaveBarrier(p)
          \/ SendFinish(p) \/ Wait(p) \/ Notify(p)
          \/ HandleFinish(p)
          \/ Disturb(p) /\ p \notin Steady
      BY <2>1 DEF Main, Server, Disturb
    <2>3. \/ p \in Steady /\ AbstractBarrier!Enter(p)
          \/ p \in Steady /\ AbstractBarrier!Leave(p)
          \/ UNCHANGED <<Entered, Left>>
      BY <1>2, <1>3, <1>4, <1>5, <1>6, <2>2
    <2> QED
      BY <1>1, <2>3 DEF AbstractBarrier!Next
  <1> QED
    BY <1>7, <1>8

\* Among the instances whose wait is never disturbed, doAsync implements the
\* reusable barrier: what the phases of the calculation may rely on without
\* knowing about tokens.
THEOREM RingImplementsBarrier == Spec => ImplementsBarrier
  <1>1. Init => AbstractBarrier!Init
    BY DEF Init, AbstractBarrier!Init, Inside, Steady
  <1>2. IInv /\ [Next]_vars => [AbstractBarrier!Next]_(AbstractBarrier!vars)
    BY StepSimulation
  <1> QED
    BY <1>1, <1>2, AlwaysIInv, PTL
       DEF Spec, ImplementsBarrier, AbstractBarrier!Spec

-------------------------------------------------------------------------------
(***************************************************************************)
(* Every finish token dies: the proof of AtMostTwoLaps.                    *)
(*                                                                         *)
(* The digits of a token tell nothing about the instance that sent it, so  *)
(* the bound on them is not inductive.  What is: every token in a stream   *)
(* has an origin and a lap, its digits are those of the instances it has   *)
(* passed since the origin, and on its second lap the server of the origin *)
(* has announced the barrier already (or is about to), which is why it     *)
(* drops the token when it comes round again.                              *)
(***************************************************************************)

\* Hops from instance o downstream to instance q, 0 to itself.
Distance(o, q) == IF q <= o THEN o - q ELSE o - q + N

\* Hops of a token of origin o that is in the stream of s, N in its own.
Travelled(o, s) == IF s < o THEN o - s ELSE o - s + N

\* The server of o has notified its main thread of barrier idx, or is about to.
Announced(o, idx) == idx \in has_notify[o] \/ notifying[o] = idx

\* What the token t, in the stream of s, shows of its origin o and lap.
OnLap(t, s, o, lap) ==
  /\ \A q \in Procs :
       t.cnt[q] = lap + IF Distance(o, q) < Travelled(o, s) THEN 1 ELSE 0
  /\ lap = 1 => Announced(o, t.idx)

\* The tokens that have an origin and a lap when they are in the stream of s.
Traced(s) ==
  {t \in Token : \E o \in Procs : \E lap \in {0, 1} : OnLap(t, s, o, lap)}

TracedTokens == \A s \in Procs : wire[s] \in Seq(Traced(s))

LapInv == TypeOK /\ TracedTokens

-------------------------------------------------------------------------------
(***************************************************************************)
(* The ring.                                                               *)
(***************************************************************************)

\* The last instance before the origin is N - 1 hops away from it.
LEMMA FarthestInstance ==
  \A o \in Procs : \E q \in Procs : Distance(o, q) = N - 1
  <1> SUFFICES ASSUME NEW o \in Procs
               PROVE  \E q \in Procs : Distance(o, q) = N - 1
    OBVIOUS
  <1>1. CASE o = N
    <2>1. 1 \in Procs /\ Distance(o, 1) = N - 1
      BY <1>1, NAssumption DEF Procs, Distance
    <2> QED
      BY <2>1
  <1>2. CASE o # N
    <2>1. o + 1 \in Procs /\ Distance(o, o + 1) = N - 1
      BY <1>2, NAssumption DEF Procs, Distance
    <2> QED
      BY <2>1
  <1> QED
    BY <1>1, <1>2

\* Positions on the ring.
LEMMA RingArithmetic ==
  ASSUME NEW o \in Procs, NEW s \in Procs
  PROVE  /\ Travelled(o, s) \in 1..N
         /\ Distance(o, s) \in 0..N - 1
         /\ Travelled(o, s) = N <=> s = o
         /\ s # o => /\ Distance(o, s) = Travelled(o, s)
                     /\ Travelled(o, Down(s)) = Travelled(o, s) + 1
         /\ Travelled(o, Down(o)) = 1
         /\ \A q \in Procs : Distance(o, q) \in 0..N - 1
         /\ \A q \in Procs : Distance(o, q) = Distance(o, s) => q = s
         /\ Distance(o, o) = 0
  BY NAssumption DEF Procs, Distance, Travelled, Down

-------------------------------------------------------------------------------
(***************************************************************************)
(* One token.                                                              *)
(***************************************************************************)

\* The token of an instance that reaches a barrier starts its first lap.
LEMMA FreshTraced ==
  ASSUME NEW p \in Procs, NEW idx \in Nat
  PROVE  Stamped(p, idx, NoDigits) \in Traced(Down(p))
  <1> DEFINE t == Stamped(p, idx, NoDigits)
  <1>1. \A q \in Procs : t.cnt[q] = IF q = p THEN 1 ELSE 0
    BY DEF Stamped, NoDigits
  <1> HIDE DEF t
  <1>2. \A q \in Procs :
          t.cnt[q] = 0 + IF Distance(p, q) < Travelled(p, Down(p)) THEN 1 ELSE 0
    BY <1>1, RingArithmetic
  <1>3. OnLap(t, Down(p), p, 0)
    BY <1>2 DEF OnLap
  <1>4. t \in Token
    BY StampedType, NoDigitsType DEF t
  <1> QED
    BY <1>3, <1>4 DEF Traced, t

\* The digits of a token that an instance other than its origin passes on.
LEMMA StampedOnWay ==
  ASSUME NEW p \in Procs, NEW t \in Token, NEW o \in Procs, NEW lap \in {0, 1},
         OnLap(t, p, o, lap), p # o
  PROVE  OnLap(Stamped(p, t.idx, t.cnt), Down(p), o, lap)
  <1> DEFINE u == Stamped(p, t.idx, t.cnt)
  <1>1. u.idx = t.idx /\ t.cnt \in [Procs -> Nat]
    BY DEF Stamped, Token
  <1>2. \A q \in Procs : u.cnt[q] = IF q = p THEN t.cnt[p] + 1 ELSE t.cnt[q]
    BY <1>1 DEF Stamped
  <1>3. \A q \in Procs :
          t.cnt[q] = lap + IF Distance(o, q) < Travelled(o, p) THEN 1 ELSE 0
    BY DEF OnLap
  <1> HIDE DEF u
  <1>4. ASSUME NEW q \in Procs
        PROVE  u.cnt[q] =
                 lap + IF Distance(o, q) < Travelled(o, Down(p)) THEN 1 ELSE 0
    <2>1. /\ Distance(o, p) = Travelled(o, p)
          /\ Travelled(o, Down(p)) = Travelled(o, p) + 1
          /\ Travelled(o, p) \in 1..N
          /\ Distance(o, q) \in 0..N - 1
          /\ Distance(o, q) = Distance(o, p) => q = p
      BY RingArithmetic
    <2>2. CASE q = p
      BY <1>2, <1>3, <2>1, <2>2
    <2>3. CASE q # p
      BY <1>2, <1>3, <2>1, <2>3, NAssumption
    <2> QED
      BY <2>2, <2>3
  <1>5. lap = 1 => Announced(o, u.idx)
    BY <1>1 DEF OnLap
  <1> QED
    BY <1>4, <1>5 DEF OnLap, u

\* A token that is back at its origin, with every digit set once, starts its
\* second lap.
LEMMA StampedAtOrigin ==
  ASSUME NEW o \in Procs, NEW t \in Token, OnLap(t, o, o, 0)
  PROVE  \A q \in Procs :
           Stamped(o, t.idx, t.cnt).cnt[q] =
             1 + IF Distance(o, q) < Travelled(o, Down(o)) THEN 1 ELSE 0
  <1>1. t.cnt \in [Procs -> Nat]
    BY DEF Token
  <1>2. \A q \in Procs : Stamped(o, t.idx, t.cnt).cnt[q] =
                           IF q = o THEN t.cnt[o] + 1 ELSE t.cnt[q]
    BY <1>1 DEF Stamped
  <1>3. \A q \in Procs :
          t.cnt[q] = 0 + IF Distance(o, q) < Travelled(o, o) THEN 1 ELSE 0
    BY DEF OnLap
  <1> SUFFICES ASSUME NEW q \in Procs
               PROVE  Stamped(o, t.idx, t.cnt).cnt[q] =
                        1 + IF Distance(o, q) < Travelled(o, Down(o))
                              THEN 1 ELSE 0
    OBVIOUS
  <1>4. /\ Travelled(o, o) = N
        /\ Travelled(o, Down(o)) = 1
        /\ Distance(o, q) \in 0..N - 1
        /\ Distance(o, q) = 0 <=> q = o
    BY RingArithmetic
  <1>5. t.cnt[q] = 1
    BY <1>3, <1>4, NAssumption
  <1> QED
    BY <1>2, <1>4, <1>5

\* checkFinish tells the laps apart, and the last hop of the first one.
LEMMA FinishMeansLap ==
  ASSUME NEW p \in Procs, NEW t \in Token, NEW o \in Procs, NEW lap \in {0, 1},
         OnLap(t, p, o, lap)
  PROVE  CheckFinish(t) <=> lap = 1 \/ p = o
  <1>1. \A q \in Procs :
          t.cnt[q] = lap + IF Distance(o, q) < Travelled(o, p) THEN 1 ELSE 0
    BY DEF OnLap
  <1>2. CASE lap = 1
    BY <1>1, <1>2 DEF CheckFinish
  <1>3. CASE lap = 0 /\ p = o
    <2>1. \A q \in Procs : Distance(o, q) < Travelled(o, p)
      BY <1>3, RingArithmetic, NAssumption
    <2> QED
      BY <1>1, <1>3, <2>1 DEF CheckFinish
  <1>4. CASE lap = 0 /\ p # o
    <2>1. PICK q \in Procs : Distance(o, q) = N - 1
      BY FarthestInstance
    <2>2. Travelled(o, p) \in 1..N /\ Travelled(o, p) # N
      BY <1>4, RingArithmetic
    <2>3. ~ (Distance(o, q) < Travelled(o, p))
      BY <2>1, <2>2, NAssumption
    <2>4. t.cnt[q] = 0
      BY <1>1, <1>4, <2>3
    <2> QED
      BY <1>4, <2>4 DEF CheckFinish
  <1> QED
    BY <1>2, <1>3, <1>4

-------------------------------------------------------------------------------
(***************************************************************************)
(* The streams.                                                            *)
(***************************************************************************)

\* What is announced stays announced.
LEMMA AnnouncedStays ==
  ASSUME TypeOK, [Next]_vars, NEW o \in Procs, NEW k \in Nat, Announced(o, k)
  PROVE  Announced(o, k)'
  <1> USE DEF TypeOK, Announced, mainVars, serverVars
  <1>1. CASE UNCHANGED <<has_notify, notifying>>
    BY <1>1
  <1>2. ASSUME NEW p \in Procs, CompleteToken(p) PROVE Announced(o, k)'
    <2>1. notifying[p] = None /\ UNCHANGED has_notify
      BY <1>2 DEF CompleteToken, Receives
    <2>2. \A q \in Procs \ {p} : notifying'[q] = notifying[q]
      BY <1>2 DEF CompleteToken
    <2> QED
      BY <2>1, <2>2 DEF None
  <1>3. ASSUME NEW p \in Procs, Notify(p) PROVE Announced(o, k)'
    BY <1>3 DEF Notify
  <1> QED
    BY <1>1, <1>2, <1>3
       DEF Next, Main, Server, HandleFinish, EnterBarrier, SendFinish, Wait,
           LeaveBarrier, Disturb, DropToken, PassToken, vars

\* So a token keeps its origin and lap.
LEMMA TracedStays ==
  ASSUME TypeOK, [Next]_vars, NEW s \in Procs
  PROVE  Traced(s) \subseteq Traced(s)'
  <1> SUFFICES ASSUME NEW t \in Traced(s) PROVE t \in Traced(s)'
    OBVIOUS
  <1>1. PICK o \in Procs, lap \in {0, 1} : OnLap(t, s, o, lap)
    BY DEF Traced
  <1>2. t \in Token /\ t.idx \in Nat
    BY DEF Traced, Token
  <1>3. lap = 1 => Announced(o, t.idx)'
    BY <1>1, <1>2, AnnouncedStays DEF OnLap
  <1>4. OnLap(t, s, o, lap)'
    BY <1>1, <1>3 DEF OnLap
  <1> QED
    BY <1>2, <1>4 DEF Traced

\* The streams from which at most a token was read.
LEMMA TracedRead ==
  ASSUME LapInv, [Next]_vars, NEW s \in Procs,
         \/ wire'[s] = wire[s]
         \/ wire[s] # << >> /\ wire'[s] = Tail(wire[s])
  PROVE  (wire[s] \in Seq(Traced(s)))'
  <1>1. wire[s] \in Seq(Traced(s)) /\ Traced(s) \subseteq Traced(s)'
    BY TracedStays DEF LapInv, TracedTokens
  <1>2. wire[s] \in Seq(Traced(s)')
    BY <1>1, SeqMonotonic
  <1>3. CASE wire'[s] = wire[s]
    BY <1>2, <1>3
  <1>4. CASE wire[s] # << >> /\ wire'[s] = Tail(wire[s])
    BY <1>2, <1>4, HeadTailProperties
  <1> QED
    BY <1>3, <1>4

\* A stream to which a traced token was sent.
LEMMA TracedSend ==
  ASSUME LapInv, [Next]_vars, NEW s \in Procs, NEW u \in Traced(s)',
         wire'[s] = Append(wire[s], u)
  PROVE  (wire[s] \in Seq(Traced(s)))'
  <1>1. wire[s] \in Seq(Traced(s)) /\ Traced(s) \subseteq Traced(s)'
    BY TracedStays DEF LapInv, TracedTokens
  <1>2. wire[s] \in Seq(Traced(s)')
    BY <1>1, SeqMonotonic
  <1> QED
    BY <1>2, AppendProperties

-------------------------------------------------------------------------------
(***************************************************************************)
(* The steps.                                                              *)
(***************************************************************************)

\* Nothing has been sent.
LEMMA InitLap == Init => LapInv
  <1> SUFFICES ASSUME Init PROVE LapInv
    OBVIOUS
  <1>1. \A p \in Procs : wire[p] = << >>
    BY DEF Init
  <1>2. \A S : << >> \in Seq(S)
    BY EmptySeq
  <1> QED
    BY <1>1, <1>2, InitType DEF LapInv, TracedTokens

\* A main thread sends its token.
LEMMA SendLap ==
  ASSUME LapInv, [Next]_vars, NEW p \in Procs, SendFinish(p)
  PROVE  TracedTokens'
  <1>1. finish_index[p] \in Nat
    BY DEF LapInv, TypeOK
  <1>2. PICK u : u = Stamped(p, finish_index[p], NoDigits)
    OBVIOUS
  <1>3. u \in Traced(Down(p)) /\ Down(p) \in Procs
    BY <1>1, <1>2, FreshTraced, DownType
  <1>4. u \in Traced(Down(p))'
    BY <1>3, TracedStays DEF LapInv
  <1>5. wire' = [wire EXCEPT ![Down(p)] = Append(@, u)]
    BY <1>2 DEF SendFinish
  <1> SUFFICES ASSUME NEW s \in Procs PROVE (wire[s] \in Seq(Traced(s)))'
    BY DEF TracedTokens
  <1>6. CASE s = Down(p)
    <2>1. wire'[s] = Append(wire[s], u)
      BY <1>5, <1>6 DEF LapInv, TypeOK
    <2> QED
      BY <1>4, <1>6, <2>1, TracedSend
  <1>7. CASE s # Down(p)
    <2>1. wire'[s] = wire[s]
      BY <1>5, <1>7 DEF LapInv, TypeOK
    <2> QED
      BY <2>1, TracedRead
  <1> QED
    BY <1>6, <1>7

\* A server passes on the first token of its stream.
LEMMA ForwardLap ==
  ASSUME LapInv, [Next]_vars, NEW p \in Procs, Receives(p),
         NEW u \in Traced(Down(p))',
         wire' = [wire EXCEPT ![p] = Tail(@), ![Down(p)] = Append(@, u)]
  PROVE  TracedTokens'
  <1> SUFFICES ASSUME NEW s \in Procs PROVE (wire[s] \in Seq(Traced(s)))'
    BY DEF TracedTokens
  <1>1. Down(p) \in Procs /\ Down(p) # p
    BY DownType
  <1>2. CASE s = Down(p)
    <2>1. wire'[s] = Append(wire[s], u)
      BY <1>1, <1>2 DEF LapInv, TypeOK
    <2> QED
      BY <1>2, <2>1, TracedSend
  <1>3. CASE s = p
    <2>1. wire'[s] = Tail(wire[s]) /\ wire[s] # << >>
      BY <1>1, <1>3 DEF LapInv, TypeOK, Receives
    <2> QED
      BY <2>1, TracedRead
  <1>4. CASE s # Down(p) /\ s # p
    <2>1. wire'[s] = wire[s]
      BY <1>1, <1>4 DEF LapInv, TypeOK
    <2> QED
      BY <2>1, TracedRead
  <1> QED
    BY <1>2, <1>3, <1>4

\* The first token of a stream is traced.
LEMMA HeadTraced ==
  ASSUME LapInv, NEW p \in Procs, Receives(p)
  PROVE  /\ Head(wire[p]) \in Token
         /\ \E o \in Procs : \E lap \in {0, 1} : OnLap(Head(wire[p]), p, o, lap)
  <1>1. wire[p] \in Seq(Traced(p)) /\ wire[p] # << >>
    BY DEF LapInv, TracedTokens, Receives
  <1>2. Head(wire[p]) \in Traced(p)
    BY <1>1, HeadTailProperties
  <1> QED
    BY <1>2 DEF Traced

\* An incomplete token is on its first lap and not back yet: it goes on.
LEMMA PassLap ==
  ASSUME LapInv, [Next]_vars, NEW p \in Procs, PassToken(p)
  PROVE  TracedTokens'
  <1>1. PICK t : t = Head(wire[p])
    OBVIOUS
  <1>2. PICK u : u = Stamped(p, t.idx, t.cnt)
    OBVIOUS
  <1>3. Receives(p) /\ ~ CheckFinish(t)
    BY <1>1 DEF PassToken
  <1>4. wire' = [wire EXCEPT ![p] = Tail(@), ![Down(p)] = Append(@, u)]
    BY <1>1, <1>2 DEF PassToken, Forward
  <1>5. t \in Token
    BY <1>1, <1>3, HeadTraced
  <1>6. PICK o \in Procs, lap \in {0, 1} : OnLap(t, p, o, lap)
    BY <1>1, <1>3, HeadTraced
  <1>7. p # o
    BY <1>3, <1>5, <1>6, FinishMeansLap
  <1>8. OnLap(u, Down(p), o, lap)
    BY <1>2, <1>5, <1>6, <1>7, StampedOnWay
  <1>9. u \in Token
    BY <1>2, <1>5, StampedType DEF Token
  <1>10. u \in Traced(Down(p))'
    BY <1>8, <1>9, DownType, TracedStays DEF Traced, LapInv
  <1> QED
    BY <1>3, <1>4, <1>10, ForwardLap

\* A complete token goes on if it is on its second lap, and if it is back for
\* the first time it starts the second: the origin announces the barrier.  It
\* cannot be back for the second time, for then the barrier was announced.
LEMMA CompleteLap ==
  ASSUME LapInv, [Next]_vars, NEW p \in Procs, CompleteToken(p)
  PROVE  TracedTokens'
  <1>1. PICK t : t = Head(wire[p])
    OBVIOUS
  <1>2. PICK u : u = Stamped(p, t.idx, t.cnt)
    OBVIOUS
  <1>3. /\ Receives(p) /\ CheckFinish(t)
        /\ t.idx \notin has_notify[p]
        /\ notifying' = [notifying EXCEPT ![p] = t.idx]
    BY <1>1 DEF CompleteToken
  <1>4. wire' = [wire EXCEPT ![p] = Tail(@), ![Down(p)] = Append(@, u)]
    BY <1>1, <1>2 DEF CompleteToken, Forward
  <1>5. t \in Token /\ t.idx \in Nat
    BY <1>1, <1>3, HeadTraced DEF Token
  <1>6. PICK o \in Procs, lap \in {0, 1} : OnLap(t, p, o, lap)
    BY <1>1, <1>3, HeadTraced
  <1>7. u \in Token /\ u.idx = t.idx
    BY <1>2, <1>5, StampedType DEF Token, Stamped
  <1>8. u \in Traced(Down(p))'
    <2>1. CASE p # o
      <3>1. OnLap(u, Down(p), o, lap)
        BY <1>2, <1>5, <1>6, <2>1, StampedOnWay
      <3> QED
        BY <1>7, <3>1, DownType, TracedStays DEF Traced, LapInv
    <2>2. CASE p = o /\ lap = 0
      <3>1. \A q \in Procs :
              u.cnt[q] = 1 + IF Distance(p, q) < Travelled(p, Down(p))
                               THEN 1 ELSE 0
        BY <1>2, <1>5, <1>6, <2>2, StampedAtOrigin
      <3>2. Announced(p, u.idx)'
        BY <1>3, <1>7 DEF Announced, LapInv, TypeOK
      <3>3. OnLap(u, Down(p), p, 1)'
        BY <3>1, <3>2 DEF OnLap
      <3> QED
        BY <1>7, <3>3 DEF Traced
    <2>3. CASE p = o /\ lap = 1
      <3>1. Announced(p, t.idx)
        BY <1>6, <2>3 DEF OnLap
      <3>2. notifying[p] = None
        BY <1>3 DEF Receives
      <3> QED
        BY <1>3, <1>5, <3>1, <3>2 DEF Announced, None
    <2> QED
      BY <2>1, <2>2, <2>3
  <1> QED
    BY <1>3, <1>4, <1>8, ForwardLap

\* Every step keeps the tokens traced.
LEMMA NextLap == LapInv /\ [Next]_vars => LapInv'
  <1> SUFFICES ASSUME LapInv, [Next]_vars PROVE LapInv'
    OBVIOUS
  <1>1. TypeOK'
    BY NextType DEF LapInv
  <1>2. ASSUME UNCHANGED wire PROVE TracedTokens'
    <2>1. \A s \in Procs : wire'[s] = wire[s]
      BY <1>2
    <2> QED
      BY <2>1, TracedRead DEF TracedTokens
  <1>3. ASSUME NEW p \in Procs, DropToken(p) PROVE TracedTokens'
    <2>1. \A s \in Procs : \/ wire'[s] = wire[s]
                           \/ wire[s] # << >> /\ wire'[s] = Tail(wire[s])
      BY <1>3 DEF DropToken, Receives, LapInv, TypeOK
    <2> QED
      BY <2>1, TracedRead DEF TracedTokens
  <1>4. \/ UNCHANGED wire
        \/ \E p \in Procs : \/ SendFinish(p) \/ DropToken(p)
                            \/ PassToken(p) \/ CompleteToken(p)
    BY DEF Next, Main, Server, HandleFinish, EnterBarrier, Wait, LeaveBarrier,
           Disturb, Notify, vars
  <1>5. TracedTokens'
    BY <1>2, <1>3, <1>4, SendLap, PassLap, CompleteLap DEF LapInv
  <1> QED
    BY <1>1, <1>5 DEF LapInv

\* A traced token has digits of at most 2.
LEMMA LapBoundsDigits == LapInv => AtMostTwoLaps
  <1> SUFFICES ASSUME LapInv, NEW p \in Procs, NEW i \in DOMAIN wire[p],
                      NEW q \in Procs
               PROVE  wire[p][i].cnt[q] <= 2
    BY DEF AtMostTwoLaps
  <1>1. wire[p] \in Seq(Traced(p))
    BY DEF LapInv, TracedTokens
  <1>2. wire[p][i] \in Traced(p)
    BY <1>1
  <1>3. PICK o \in Procs, lap \in {0, 1} : OnLap(wire[p][i], p, o, lap)
    BY <1>2 DEF Traced
  <1> QED
    BY <1>3 DEF OnLap

\* Every finish token dies after at most two laps, whatever is disturbed: one
\* to collect the digits and one to announce the result, so that no digit of
\* the message passes '2' and the streams never fill up with old tokens.
THEOREM TokensDie == Spec => []AtMostTwoLaps
  <1> QED
    BY InitLap, NextLap, LapBoundsDigits, PTL DEF Spec

===============================================================================
