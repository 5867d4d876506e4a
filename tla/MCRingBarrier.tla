---------------------------- MODULE MCRingBarrier -----------------------------
(***************************************************************************)
(* Model-checking instances of RingBarrier.                                *)
(***************************************************************************)
EXTENDS RingBarrier

===============================================================================
