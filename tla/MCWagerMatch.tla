---------------------------- MODULE MCWagerMatch ----------------------------
(* WagerMatch over a win for either player and a tie. *)
EXTENDS WagerMatch

Scores == {<<1, 0>>, <<0, 1>>, <<1, 1>>}
=============================================================================
