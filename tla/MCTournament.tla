---------------------------- MODULE MCTournament ----------------------------
(* Instances of Tournament for TLC. *)
EXTENDS Tournament

(* In a group: a narrow win, a high win of the other side, and a draw. *)
MCResults == {<<1, 0, 1>>, <<0, 2, 2>>, <<0, 0, 0>>}
=============================================================================
