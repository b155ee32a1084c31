------------------------ MODULE MCTorrentDownloader ------------------------
(***************************************************************************)
(* Small torrents for TorrentDownloader.                                    *)
(***************************************************************************)
EXTENDS TorrentDownloader, TLC

CONSTANTS b1, b2, b3, b4, p1, p2, p3

\* Two pieces, the first of two blocks.
TwoPieces == (b1 :> p1) @@ (b2 :> p1) @@ (b3 :> p2)

\* File 1 shares piece p1 with file 2, which reaches into p2.
SharedPiece == <<{b1}, {b2, b3}>>

\* File 2 is the padding between files 1 and 4, the rest of piece p1 and all
\* of p3; file 3 is empty.
WithPaddingPiece == TwoPieces @@ (b4 :> p3)
PaddedAndEmpty   == <<{b1}, {b2, b4}, {}, {b3}>>

\* Two files of one block and one piece each.
OneBlockPieces == (b1 :> p1) @@ (b2 :> p2)
OneBlockFiles  == <<{b1}, {b2}>>

WorkerSymmetry == Permutations(Workers)
=============================================================================
