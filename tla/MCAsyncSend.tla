----------------------------- MODULE MCAsyncSend ------------------------------
(***************************************************************************)
(* Model-checking instances of AsyncSend.                                  *)
(***************************************************************************)
EXTENDS AsyncSend

===============================================================================
