---------------------------- MODULE MCDetailList ----------------------------
(***************************************************************************)
(* Detail pages with a torrent link, a magnet link and no link.  A torrent  *)
(* and its name are represented by a url.                                   *)
(***************************************************************************)
EXTENDS DetailList, TLC

CONSTANTS u1, u2, u3, u4

MCNames == Pages \cup Urls

\* A torrent link, two magnet links to torrents of the same name, no link.
Links       == (u1 :> "torrent") @@ (u2 :> "magnet") @@ (u3 :> "magnet")
                 @@ (u4 :> "none")
SharedNames == [u \in Urls |-> IF u = u3 THEN u2 ELSE u]
=============================================================================
