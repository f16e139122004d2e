------------------------------ MODULE MCSession ------------------------------
(***************************************************************************)
(* Two workers and two products, and as many signals as it takes to use    *)
(* up the timeouts without waiting, one more, and one that comes late.     *)
(***************************************************************************)
EXTENDS Session
=============================================================================
