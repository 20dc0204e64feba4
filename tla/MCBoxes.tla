------------------------------ MODULE MCBoxes -------------------------------
(***************************************************************************)
(* Small tables for TLC.  The scripts create what server/game/*/box.lua    *)
(* create, with fewer pieces and piles.  The configurations differ in the  *)
(* boxes on the table and in the number of stones.                         *)
(***************************************************************************)
EXTENDS Game, TLC

CONSTANTS
    boxfield, chessbox, chessfield, chessboard, piece1, piece2, piece3,
    gobox, gofield, goban, bowl1, bowl2, stone1, stone2, stone3

MCClass == [e \in Entity |->
    CASE e \in {boxfield, chessfield, gofield} -> "felt.Field"
      [] e \in {chessbox, gobox}               -> "gameboxes.Box"
      [] e = chessboard                        -> "chess.Board"
      [] e = goban                             -> "go.Board"
      [] e \in {piece1, piece2, piece3}        -> "chess.Piece"
      [] e \in {bowl1, bowl2}                   -> "felt.Pile"
      [] e \in {stone1, stone2, stone3}        -> "go.Piece"]

MCHome == [e \in Entity |->
    CASE e \in {chessbox, gobox}  -> boxfield
      [] e = chessboard           -> chessfield
      [] e \in {piece1, piece2, piece3} -> chessboard
      [] e \in {goban, bowl1, bowl2} -> gofield
      [] OTHER                    -> nil]

Present(seq) == SelectSeq(seq, LAMBDA e : e \in Entity)

ChessScript == Present(<<chessfield, chessboard, piece1, piece2, piece3>>)

GoScript == Present(<<gofield, goban, bowl1, bowl2>>)

\* What comes out of a box that is not on the table has been taken out of it.
MCStart == Present(<<boxfield, chessbox, gobox>>)
           \o (IF chessbox \in Entity THEN <<>> ELSE ChessScript)
           \o (IF gobox \in Entity THEN <<>> ELSE GoScript)

MCContents == [b \in Entity \cap {chessbox, gobox} |->
                  IF b = chessbox THEN ChessScript ELSE GoScript]

MCLayout == [e \in Entity |->
    Present(SelectSeq(<<chessbox, gobox, chessboard, piece1, piece2, piece3,
                        goban, bowl1, bowl2>>,
                      LAMBDA x : x \in Entity /\ MCHome[x] = e))]

Symmetry == Permutations(Player) \cup Permutations(Entity \cap {stone1, stone2, stone3})
=============================================================================
