---------------------------- MODULE MCTetrisGame ----------------------------
(* TetrisGame.tla for TLC: two of the page's pieces.                       *)
EXTENDS TetrisGame

I == [size |-> 4, cells |-> {<<x, 1>> : x \in 0..3}]
S == [size |-> 3, cells |-> {<<1, 0>>, <<2, 0>>, <<0, 1>>, <<1, 1>>}]

TwoShapes == {I, S}
=============================================================================
