---------------------------- MODULE MCPieceFlow ----------------------------
(***************************************************************************)
(* Torrents for the model checker.                                          *)
(***************************************************************************)
EXTENDS PieceFlow

\* A piece of two blocks and a shorter last one.
TwoPieces == <<2, 1>>

\* One piece of one block.
OneBlock == <<1>>
=============================================================================
