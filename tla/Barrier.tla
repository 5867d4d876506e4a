------------------------------- MODULE Barrier --------------------------------
(***************************************************************************)
(* What the code expects of Calculator::doAsync (head/Calculator.h, the    *)
(* comment "inter-process synchronisation"): a reusable barrier.  Every    *)
(* instance counts the barriers it has entered and the barriers it has     *)
(* left; nobody leaves a barrier that somebody has not entered yet.        *)
(***************************************************************************)
EXTENDS Naturals

CONSTANT Procs            \* the program instances

VARIABLES entered,        \* entered[p]: how many barriers p has reached
          left            \* left[p]: how many of them p has passed

vars == <<entered, left>>

TypeOK ==
  /\ entered \in [Procs -> Nat]
  /\ left \in [Procs -> Nat]

Init ==
  /\ entered = [p \in Procs |-> 0]
  /\ left = [p \in Procs |-> 0]

Enter(p) ==
  /\ entered[p] = left[p]
  /\ entered' = [entered EXCEPT ![p] = @ + 1]
  /\ UNCHANGED left

Leave(p) ==
  /\ entered[p] = left[p] + 1
  /\ \A q \in Procs : entered[q] >= entered[p]
  /\ left' = [left EXCEPT ![p] = @ + 1]
  /\ UNCHANGED entered

Next == \E p \in Procs : Enter(p) \/ Leave(p)

Spec == Init /\ [][Next]_vars

===============================================================================
