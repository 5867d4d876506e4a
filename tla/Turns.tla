--------------------------------- MODULE Turns ---------------------------------
(***************************************************************************)
(* The loop by which two of the calculators pass something down the ring   *)
(* to the instance idx of n, each instance in its turn:                    *)
(*                                                                         *)
(*   for (now = idx - 1; now != idx; now = now - 1 == 0 ? n : now - 1)     *)
(*     if (now == 0) now = n;                                              *)
(*                                                                         *)
(* That the test ends it after n - 1 rounds is LoopIsRing in TotalsProofs. *)
(***************************************************************************)
EXTENDS Integers

\* Mutant: the value the loop starts with is taken as it is.
WrapNot(now, n) == now

\* if (now == 0) now = n
Wrap(now, n) == IF now = 0 THEN n ELSE now

\* now - 1 == 0 ? n : now - 1
Below(now, n) == IF now - 1 = 0 THEN n ELSE now - 1

\* The value of now when it is tested for the i-th time, from 0.
Tested(idx, n) ==
  LET now[i \in 0..n - 1] ==
        IF i = 0 THEN idx - 1 ELSE Below(Wrap(now[i - 1], n), n)
  IN  now

\* The instance whose turn it is in round i.
TurnOf(i, idx, n) == Wrap(Tested(idx, n)[i], n)

===============================================================================
