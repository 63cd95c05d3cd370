-------------------------- MODULE MCBtActionServer --------------------------
(* Constants for model checking BtActionServer: which trees goals name.     *)
EXTENDS BtActionServer

AllTrees == {"default", "other", "missing"}
=============================================================================
