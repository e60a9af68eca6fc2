---------------------------- MODULE MCBackendPool ----------------------------
(* BackendPool for model checking; the constants are given in the .cfg files.*)
EXTENDS BackendPool
=============================================================================
