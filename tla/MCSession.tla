------------------------------ MODULE MCSession ------------------------------
(* Session for TLC.  The goroutine slots need no symmetry: the manager's loop *)
(* always takes the same free one.                                           *)
EXTENDS Session
=============================================================================
