---------------------------- MODULE MCPtaskPool ----------------------------
(***************************************************************************)
(* Small pools for the model checker.                                      *)
(***************************************************************************)
EXTENDS PtaskPoolMain, TLC

CONSTANTS c1, c2

Creators == Permutations({c1, c2})

(* No modes, the one mode there is, and that mode followed by an unknown one. *)
SomeModes == {<<>>, <<0>>, <<0, 1>>}
PlainTasks == {<<>>}
=============================================================================
