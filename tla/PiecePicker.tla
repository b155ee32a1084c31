----------------------------- MODULE PiecePicker -----------------------------
(***************************************************************************)
(* libtorrent's piece_picker: which pieces of the torrent are there, and    *)
(* for a piece that is being downloaded the state of each of its blocks.    *)
(* A picker is a record; every operation of the class is an operator that   *)
(* gives the picker afterwards.                                             *)
(*                                                                          *)
(*    have, filtered          pieces that are there, pieces of priority 0   *)
(*    dl[p]                   the downloading_piece of p                    *)
(*    num_have, num_passed, num_filtered, num_have_filtered    counters     *)
(*    cursor, reverse_cursor  the range outside which nothing is to pick    *)
(*                                                                          *)
(* Left out: the order in which pieces are picked (m_pieces and its         *)
(* priority buckets, availability, reverse pieces) and which peer sent a    *)
(* block.  m_downloads and m_block_info are the one function dl.            *)
(***************************************************************************)
EXTENDS Naturals, FiniteSets, FiniteSetsExt, SequencesExt

CONSTANT NumBlocks      \* the number of blocks of each piece, as a sequence

ASSUME BlocksAssumption ==
    /\ NumBlocks \in Seq(Nat \ {0})
    /\ NumBlocks # <<>>

\* Pieces are numbered from 0; blocks are pairs.
num_pieces == Len(NumBlocks)
Pieces == 0..(num_pieces - 1)
blocks_in_piece(p) == NumBlocks[p + 1]
Blocks == UNION {{p} \X (1..blocks_in_piece(p)) : p \in Pieces}

BlockStates == {"none", "requested", "writing", "finished"}
Queues == {"open", "downloading", "full", "finished", "zero_prio"}

\* A piece that is not being downloaded.
NoDownload(p) ==
    [queue |-> "open",
     state |-> [k \in 1..blocks_in_piece(p) |-> "none"],
     num_peers |-> [k \in 1..blocks_in_piece(p) |-> 0],
     requested |-> 0, writing |-> 0, finished |-> 0,
     passed_hash_check |-> FALSE, locked |-> FALSE]

init ==
    [have |-> {}, filtered |-> {}, dl |-> [p \in Pieces |-> NoDownload(p)],
     num_have |-> 0, num_passed |-> 0, num_filtered |-> 0, num_have_filtered |-> 0,
     cursor |-> 0, reverse_cursor |-> num_pieces]

Downloading(pk, p) == pk.dl[p].queue # "open"
StateOf(pk, b) == pk.dl[b[1]].state[b[2]]
InUse(e) == e.requested + e.finished + e.writing

\* Faulty variant: a block that is being written does not count.
IsWritten(pk, b) == b[1] \in pk.have \/ StateOf(pk, b) = "finished"

is_requested(pk, b)  == StateOf(pk, b) = "requested"
is_downloaded(pk, b) == b[1] \in pk.have \/ StateOf(pk, b) \in {"writing", "finished"}

is_piece_finished(pk, p) ==
    \/ p \in pk.have
    \/ Downloading(pk, p) /\ pk.dl[p].finished + pk.dl[p].writing >= blocks_in_piece(p)

num_peers(pk, b) == pk.dl[b[1]].num_peers[b[2]]
-----------------------------------------------------------------------------
(***************************************************************************)
(* Helpers.                                                                 *)
(***************************************************************************)
One(condition) == IF condition THEN 1 ELSE 0

\* The queue for an entry e of a piece; an entry of which nothing is in use
\* stays where it is.
update_piece_state(pk, p, e) ==
    [e EXCEPT !.queue =
        CASE p \in pk.filtered -> "zero_prio"
          [] p \notin pk.filtered /\ InUse(e) = 0 -> @
          [] p \notin pk.filtered /\ InUse(e) \in 1..(blocks_in_piece(p) - 1)
               -> "downloading"
          [] OTHER -> IF e.requested > 0 THEN "full" ELSE "finished"]

erase_download_piece(pk, p) == [pk EXCEPT !.dl[p] = NoDownload(p)]

\* The entry of p, added if there is none.
add_download_piece(pk, p) ==
    IF Downloading(pk, p) THEN pk.dl[p] ELSE [NoDownload(p) EXCEPT !.queue = "downloading"]

\* Store e for p, or drop it when nothing of it is in use any more.
KeepInUse(pk, p, e) ==
    IF InUse(e) = 0 THEN erase_download_piece(pk, p)
    ELSE [pk EXCEPT !.dl[p] = update_piece_state(pk, p, e)]

\* What is left of the range to pick from when index p leaves it.
Settled(pk) == pk.have \cup pk.filtered
ShrinkCursors(pk, p) ==
    IF pk.cursor = p /\ pk.reverse_cursor = p + 1
    THEN [pk EXCEPT !.cursor = num_pieces, !.reverse_cursor = 0]
    ELSE IF pk.cursor = p
    THEN [pk EXCEPT !.cursor =
            Min({q \in (p + 1)..num_pieces : q = num_pieces \/ q \notin Settled(pk)})]
    ELSE IF pk.reverse_cursor = p + 1
    THEN [pk EXCEPT !.reverse_cursor =
            Max({q \in 0..p : q = 0 \/ q - 1 \notin Settled(pk)})]
    ELSE pk

GrowCursors(pk, p) ==
    [pk EXCEPT !.cursor = IF p < @ THEN p ELSE @,
               !.reverse_cursor = IF p >= @ THEN p + 1 ELSE @]
-----------------------------------------------------------------------------
(***************************************************************************)
(* Operations on pieces.                                                    *)
(***************************************************************************)
\* Faulty variant: the counter already holds the piece that has passed.
HaveCountsTwice(pk, p) ==
    IF p \in pk.have THEN pk ELSE
    LET f == One(p \in pk.filtered)
        got == [erase_download_piece(pk, p) EXCEPT
                  !.have = @ \cup {p},
                  !.num_have = @ + 1,
                  !.num_passed = @ + 1,
                  !.num_filtered = @ - f,
                  !.num_have_filtered = @ + f]
    IN  ShrinkCursors(got, p)

we_have(pk, p) ==
    IF p \in pk.have THEN pk ELSE
    LET f == One(p \in pk.filtered)
        got == [erase_download_piece(pk, p) EXCEPT
                  !.have = @ \cup {p},
                  !.num_have = @ + 1,
                  !.num_passed = @ - One(pk.dl[p].passed_hash_check) + 1,
                  !.num_filtered = @ - f,
                  !.num_have_filtered = @ + f]
    IN  ShrinkCursors(got, p)

\* Faulty variant: a piece that has passed is there before it is written.
HaveWhenPassed(pk, p) ==
    IF ~Downloading(pk, p) \/ pk.dl[p].locked THEN pk ELSE
    we_have([pk EXCEPT !.dl[p].passed_hash_check = TRUE, !.num_passed = @ + 1], p)

piece_passed(pk, p) ==
    IF ~Downloading(pk, p) \/ pk.dl[p].locked THEN pk ELSE
    LET passed == [pk EXCEPT !.dl[p].passed_hash_check = TRUE, !.num_passed = @ + 1]
    IN  IF pk.dl[p].finished < blocks_in_piece(p) THEN passed ELSE we_have(passed, p)

\* Forget that the piece has passed.
ClearPassed(pk, p) ==
    [pk EXCEPT !.dl[p].passed_hash_check = FALSE,
               !.num_passed = @ - One(pk.dl[p].passed_hash_check)]

lock_piece(pk, p) ==
    IF ~Downloading(pk, p) THEN pk
    ELSE [ClearPassed(pk, p) EXCEPT !.dl[p].locked = TRUE]

restore_piece(pk, p) ==
    IF ~Downloading(pk, p) THEN pk ELSE erase_download_piece(pk, p)

\* set_piece_priority to 0 (filter) or to another priority.  (The test for equal
\* cursors after a piece was unfiltered cannot succeed: that piece is wanted and
\* missing, and lies between them.)
Filter(pk, p) ==
    IF p \in pk.have
    THEN [pk EXCEPT !.num_have_filtered = @ + 1]
    ELSE ShrinkCursors([pk EXCEPT !.num_filtered = @ + 1], p)
Unfilter(pk, p) ==
    IF p \in pk.have
    THEN [pk EXCEPT !.num_have_filtered = @ - 1]
    ELSE GrowCursors([pk EXCEPT !.num_filtered = @ - 1], p)

set_piece_priority(pk, p, filter) ==
    IF filter <=> p \in pk.filtered THEN pk ELSE
    LET counted == IF filter THEN Filter(pk, p) ELSE Unfilter(pk, p)
        set == [counted EXCEPT !.filtered = IF filter THEN @ \cup {p} ELSE @ \ {p}]
    IN  IF ~Downloading(pk, p) THEN set
        ELSE [set EXCEPT !.dl[p] = update_piece_state(set, p, @)]
-----------------------------------------------------------------------------
(***************************************************************************)
(* Operations on blocks.                                                    *)
(***************************************************************************)
mark_as_downloading(pk, b) ==
    LET p == b[1]
        s == StateOf(pk, b)
        e == [add_download_piece(pk, p) EXCEPT
                !.state[b[2]] = "requested",
                !.num_peers[b[2]] = @ + 1,
                !.requested = @ + One(s = "none")]
    IN  IF s \in {"writing", "finished"} THEN pk
        ELSE [pk EXCEPT !.dl[p] = IF s = "none" THEN update_piece_state(pk, p, e) ELSE e]

\* Faulty variant: the block is still counted as requested.
WritingAndRequested(pk, b) ==
    LET p == b[1]
        s == StateOf(pk, b)
        e == [add_download_piece(pk, p) EXCEPT
                !.state[b[2]] = "writing",
                !.num_peers[b[2]] = 0,
                !.writing = @ + 1]
    IN  IF (~Downloading(pk, p) /\ p \in pk.have) \/ s \in {"writing", "finished"} THEN pk
        ELSE [pk EXCEPT !.dl[p] = update_piece_state(pk, p, e)]

mark_as_writing(pk, b) ==
    LET p == b[1]
        s == StateOf(pk, b)
        e == [add_download_piece(pk, p) EXCEPT
                !.state[b[2]] = "writing",
                !.num_peers[b[2]] = 0,
                !.requested = @ - One(s = "requested"),
                !.writing = @ + 1]
    IN  IF (~Downloading(pk, p) /\ p \in pk.have) \/ s \in {"writing", "finished"} THEN pk
        ELSE [pk EXCEPT !.dl[p] = update_piece_state(pk, p, e)]

\* A block that is neither writing nor finished keeps its count in requested.
mark_as_finished(pk, b) ==
    LET p == b[1]
        s == StateOf(pk, b)
        e == [add_download_piece(pk, p) EXCEPT
                !.state[b[2]] = "finished",
                !.writing = @ - One(s = "writing"),
                !.finished = @ + 1]
        written == [pk EXCEPT !.dl[p] = update_piece_state(pk, p, e)]
    IN  IF (~Downloading(pk, p) /\ p \in pk.have) \/ s = "finished" THEN pk
        ELSE IF e.finished >= blocks_in_piece(p) /\ e.passed_hash_check
        THEN we_have(written, p)
        ELSE written

write_failed(pk, b) ==
    LET p == b[1]
        s == StateOf(pk, b)
        e == [ClearPassed(pk, p).dl[p] EXCEPT
                !.state[b[2]] = "none",
                !.writing = @ - One(s = "writing"),
                !.locked = TRUE]
    IN  IF ~Downloading(pk, p) \/ s = "finished" THEN pk
        ELSE KeepInUse(ClearPassed(pk, p), p, e)

\* Faulty variant: the block is free although another peer still sends it.
AbortForAll(pk, b) ==
    LET p == b[1]
        e == [pk.dl[p] EXCEPT !.num_peers[b[2]] = 0,
                              !.state[b[2]] = "none", !.requested = @ - 1]
    IN  IF ~is_requested(pk, b) THEN pk ELSE KeepInUse(pk, p, e)

abort_download(pk, b) ==
    LET p == b[1]
        n == num_peers(pk, b)
        e == [pk.dl[p] EXCEPT !.num_peers[b[2]] = 0,
                              !.state[b[2]] = "none", !.requested = @ - 1]
    IN  IF ~is_requested(pk, b) THEN pk
        ELSE IF n > 1 THEN [pk EXCEPT !.dl[p].num_peers[b[2]] = n - 1]
        ELSE KeepInUse(pk, p, e)
-----------------------------------------------------------------------------
(***************************************************************************)
(* check_invariant.                                                         *)
(***************************************************************************)
IsPicker(pk) ==
    /\ pk.have \subseteq Pieces /\ pk.filtered \subseteq Pieces
    /\ \A p \in Pieces :
         pk.dl[p] \in [queue : Queues,
                       state : [1..blocks_in_piece(p) -> BlockStates],
                       num_peers : [1..blocks_in_piece(p) -> Nat],
                       requested : Nat, writing : Nat, finished : Nat,
                       passed_hash_check : BOOLEAN, locked : BOOLEAN]
    /\ {pk.num_have, pk.num_passed, pk.num_filtered, pk.num_have_filtered} \subseteq Nat
    /\ {pk.cursor, pk.reverse_cursor} \subseteq 0..num_pieces

InState(e, s) == {k \in DOMAIN e.state : e.state[k] = s}

\* The entry of piece p: the counters are those of the blocks, the queue is
\* the one for these counters, and exactly requested blocks have peers.
EntryAgrees(pk, p) ==
    LET e == pk.dl[p]
    IN  /\ e.requested = Cardinality(InState(e, "requested"))
        /\ e.writing   = Cardinality(InState(e, "writing"))
        /\ e.finished  = Cardinality(InState(e, "finished"))
        /\ \A k \in DOMAIN e.state : e.num_peers[k] > 0 <=> e.state[k] = "requested"
        /\ e.queue = IF InUse(e) = 0 THEN "open"
                     ELSE IF p \in pk.filtered THEN "zero_prio"
                     ELSE IF InState(e, "none") # {} THEN "downloading"
                     ELSE IF e.requested > 0 THEN "full" ELSE "finished"

\* The counters of pieces and the two cursors.
CountsAgree(pk) ==
    LET wanted == Pieces \ Settled(pk)
    IN  /\ pk.num_have = Cardinality(pk.have)
        /\ pk.num_filtered = Cardinality(pk.filtered \ pk.have)
        /\ pk.num_have_filtered = Cardinality(pk.filtered \cap pk.have)
        /\ pk.cursor = IF wanted = {} THEN num_pieces ELSE Min(wanted)
        /\ pk.reverse_cursor = IF wanted = {} THEN 0 ELSE Max(wanted) + 1

\* num_passed counts the pieces that are there and those that have passed and
\* are still being written.
PassedAgrees(pk) ==
    pk.num_passed = Cardinality(pk.have \cup
                      {p \in Pieces : pk.dl[p].passed_hash_check})
=============================================================================
