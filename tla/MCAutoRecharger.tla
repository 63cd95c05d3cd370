-------------------------- MODULE MCAutoRecharger --------------------------
(***************************************************************************)
(* The subsets of AllKeys that show a single statement: the operator's own *)
(* keys, and those that end the node.                                      *)
(***************************************************************************)
EXTENDS AutoRecharger

Operator == {"", "q", "e"}
Quitting == {"", "q", "ctrl_c"}
=============================================================================
