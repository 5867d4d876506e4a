-------------------------------- MODULE Totals --------------------------------
(***************************************************************************)
(* The sum of a sequence of numbers, for what the references of the        *)
(* calculators add up.                                                     *)
(***************************************************************************)
EXTENDS Integers, Sequences, SequencesExt

Total(s) == FoldLeft(LAMBDA sum, x : sum + x, 0, s)

===============================================================================
