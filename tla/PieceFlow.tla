------------------------------ MODULE PieceFlow ------------------------------
(***************************************************************************)
(* The way of a piece through libtorrent: peers are asked for its blocks    *)
(* (peer_connection.cpp), the blocks go to the disk threads, the complete   *)
(* piece is hashed, and the torrent (torrent.cpp) tells the piece picker    *)
(* what became of it.  A piece that fails its hash check, and one of which  *)
(* a write failed, is cleared by a fence job.                               *)
(*                                                                          *)
(* Everything but the disk runs in the network thread.  A handler is one    *)
(* step, with two exceptions: a peer that is disconnected gives up its      *)
(* requests one by one, and priorities are set piece by piece.  No other    *)
(* handler runs until such a loop is through; the disk threads could, but   *)
(* share no variable with it, so their steps are put before or after it.    *)
(*                                                                          *)
(* The disk threads report a job that is complete when they come to it: the *)
(* fence orders the jobs (FenceOrder of DiskJobFence), not the calls of     *)
(* their handlers, because job_complete releases the fence job before       *)
(* add_completed_jobs appends the jobs it waited for to m_completed_jobs.   *)
(*                                                                          *)
(* Left out: the requests that are not sent yet (m_request_queue), parole   *)
(* and trust, which pieces a peer has, and the shutdown of the torrent.     *)
(***************************************************************************)
EXTENDS PiecePicker

CONSTANTS
    Peers,
    MaxFaults,      \* bound: damaged blocks and disk errors
    MaxRequests,    \* bound: requests made to peers
    MaxChanges      \* bound: changes of the piece priorities

ASSUME FlowAssumption ==
    /\ IsFiniteSet(Peers)
    /\ MaxFaults \in Nat /\ MaxRequests \in Nat /\ MaxChanges \in Nat

VARIABLES
    picker,         \* torrent::m_picker
    mode,           \* "download", "upload" (m_upload_mode) or "paused"
    queue,          \* m_download_queue of each peer: blocks asked for
    stale,          \* those of them that are timed_out or not_wanted
    leaving,        \* peers being disconnected that still have requests
    setting,        \* what prioritize_pieces is given and its loop index
    jobs,           \* disk jobs whose handlers were not called yet, oldest first
    disk,           \* what the files hold for each block
    late, failed,   \* history: pieces whose handlers ran out of order around
                    \* their clearing; pieces that met a disk error
    faults, asked, changed      \* what the bounds count

peerVars == <<queue, stale, leaving>>
history  == <<late, failed>>
counts   == <<faults, asked, changed>>
vars == <<picker, mode, peerVars, setting, jobs, disk, history, counts>>

\* The network thread is in none of its two loops.
NotSetting == [want |-> {}, index |-> num_pieces]
Idle == leaving = {} /\ setting = NotSetting

\* A write carries a block and its data; hash and the two kinds of
\* clear_piece, after a hash failure and after a write failure, a piece.
WriteJob(b, data) == [kind |-> "write", piece |-> b[1], block |-> b, data |-> data, ret |-> "pending"]
PieceJob(kind, p) == [kind |-> kind, piece |-> p, ret |-> "pending"]

\* "ghost": the write failed, the good data are in the cache only.
Data == {"good", "bad"}
Contents == Data \cup {"none", "ghost"}

Init ==
    /\ picker = init
    /\ mode = "download"
    /\ queue = [c \in Peers |-> {}]
    /\ stale = [c \in Peers |-> {}]
    /\ leaving = {}
    /\ setting = NotSetting
    /\ jobs = <<>>
    /\ disk = [b \in Blocks |-> "none"]
    /\ late = {} /\ failed = {}
    /\ faults = 0 /\ asked = 0 /\ changed = 0
-----------------------------------------------------------------------------
(***************************************************************************)
(* Peers.                                                                   *)
(***************************************************************************)
\* Blocks the picker offers: of a piece that is wanted, not there and not
\* locked.
Pickable(b) ==
    /\ b[1] \notin Settled(picker)
    /\ ~picker.dl[b[1]].locked

\* request_a_block and add_request: a block nobody was asked for, or in end
\* game, for a peer with nothing else to do, one another peer was asked for.
add_request(c, b) ==
    /\ mode = "download" /\ asked < MaxRequests
    /\ b \notin queue[c] /\ Pickable(b)
    /\ \/ StateOf(picker, b) = "none"
       \/ is_requested(picker, b) /\ queue[c] = {}
    /\ picker' = mark_as_downloading(picker, b)
    /\ queue' = [queue EXCEPT ![c] = @ \cup {b}]
    /\ asked' = asked + 1
    /\ UNCHANGED <<mode, stale, leaving, setting, jobs, disk, history, faults, changed>>

\* Faulty variant: the flags of the request are kept.
UnqueueKeepsFlags(c, b) ==
    /\ queue' = [queue EXCEPT ![c] = @ \ {b}]
    /\ UNCHANGED stale

\* Peer c no longer has block b in its queue.
Unqueue(c, b) ==
    /\ queue' = [queue EXCEPT ![c] = @ \ {b}]
    /\ stale' = [stale EXCEPT ![c] = @ \ {b}]

Redundant(c, b) ==
    /\ is_downloaded(picker, b)
    /\ Unqueue(c, b)
    /\ UNCHANGED <<picker, mode, leaving, setting, jobs, disk, history, counts>>

\* Faulty variant: the piece is hashed when all blocks are written.
VerifyWhenWritten(p, pk) ==
    IF p \in pk.have \/ pk.dl[p].finished = blocks_in_piece(p)
    THEN <<PieceJob("hash", p)>> ELSE <<>>

\* The piece is hashed when this block completes it.
VerifyIfComplete(p, pk) ==
    IF is_piece_finished(pk, p) /\ ~is_piece_finished(picker, p)
    THEN <<PieceJob("hash", p)>> ELSE <<>>

\* torrent::cancel_block in state pk: the block is not wanted any more from
\* the peers that were asked for it, if it is still marked as requested.
cancel_block(pk, b, q, st) ==
    IF is_requested(pk, b)
    THEN [c \in Peers |-> IF b \in q[c] THEN st[c] \cup {b} ELSE st[c]]
    ELSE st

Received(c, b, data) ==
    /\ ~is_downloaded(picker, b)
    /\ LET pk == mark_as_writing(picker, b)
           q  == [queue EXCEPT ![c] = @ \ {b}]
           st == [stale EXCEPT ![c] = @ \ {b}]
       IN  /\ picker' = pk
           /\ queue' = q
           /\ stale' = IF num_peers(picker, b) > 1 THEN cancel_block(pk, b, q, st) ELSE st
           /\ jobs' = Append(jobs, WriteJob(b, data)) \o VerifyIfComplete(b[1], pk)
    /\ faults' = faults + One(data = "bad")
    /\ UNCHANGED <<mode, leaving, setting, disk, history, asked, changed>>

\* Block b arrives.  (A torrent that is a seed by then takes the first request
\* off the queue in place of this one; the blocks left there are all redundant.)
incoming_piece(c, b) ==
    /\ b \in queue[c]
    /\ \/ Redundant(c, b)
       \/ \E data \in Data : (data = "bad" => faults < MaxFaults) /\ Received(c, b, data)

\* Peer c will not send block b.
GiveUp(c, b) ==
    /\ b \in queue[c]
    /\ picker' = IF b \in stale[c] THEN picker ELSE abort_download(picker, b)
    /\ Unqueue(c, b)
    /\ UNCHANGED <<mode, setting, jobs, disk, history, counts>>

incoming_reject_request(c, b) ==
    /\ GiveUp(c, b)
    /\ UNCHANGED leaving

\* snub_peer gives one block free for others if that is all its piece waits for.
\* The code takes the last eligible one of the queue, here it is any; a peer on
\* parole is spared there.  The request it makes in place of the block is an
\* add_request of its own, which may come or not.
snub_peer(c, b) ==
    /\ b \in queue[c] \ stale[c]
    /\ InUse(picker.dl[b[1]]) >= blocks_in_piece(b[1])
    /\ picker' = abort_download(picker, b)
    /\ stale' = [stale EXCEPT ![c] = @ \cup {b}]
    /\ UNCHANGED <<mode, queue, leaving, setting, jobs, disk, history, counts>>

\* The peers in cs are disconnected; st are the stale requests of all peers.
Drop(pk, st, cs) ==
    /\ picker' = pk
    /\ stale' = st
    /\ leaving' = {c \in cs : queue[c] # {}}
    /\ UNCHANGED queue

disconnect(c) ==
    /\ queue[c] # {}
    /\ Drop(picker, stale, {c})
    /\ UNCHANGED <<mode, setting, jobs, disk, history, counts>>

\* The loop of disconnect over m_download_queue.
empty_download_queue(c, b) ==
    /\ c \in leaving
    /\ GiveUp(c, b)
    /\ leaving' = IF queue[c] = {b} THEN leaving \ {c} ELSE leaving

\* One round of the loop of prioritize_pieces, for piece p.
PrioritizePiece(w, p) ==
    /\ picker' = set_piece_priority(picker, p, p \notin w)
    /\ setting' = IF p + 1 = num_pieces THEN NotSetting ELSE [want |-> w, index |-> p + 1]

\* prioritize_pieces: the pieces in w get a priority other than 0.
prioritize_pieces(w) ==
    /\ changed < MaxChanges /\ Pieces \ w # picker.filtered
    /\ picker.have # Pieces
    /\ PrioritizePiece(w, 0)
    /\ changed' = changed + 1
    /\ UNCHANGED <<mode, peerVars, jobs, disk, history, faults, asked>>

prioritize_next ==
    /\ setting # NotSetting
    /\ PrioritizePiece(setting.want, setting.index)
    /\ UNCHANGED <<mode, peerVars, jobs, disk, history, counts>>

\* second_tick, 10 minutes after the error.
leave_upload_mode ==
    /\ mode = "upload"
    /\ mode' = "download"
    /\ UNCHANGED <<picker, peerVars, setting, jobs, disk, history, counts>>
-----------------------------------------------------------------------------
(***************************************************************************)
(* Disk threads.                                                            *)
(***************************************************************************)
IsFence(j) == j.kind \in {"clear", "clear_failed"}
Pending(i) == jobs[i].ret = "pending"

\* The fence lets job i pass.
MayRun(i) ==
    /\ Pending(i)
    /\ \A k \in 1..(i - 1) : IsFence(jobs[k]) \/ IsFence(jobs[i]) => ~Pending(k)

Return(i, ret) == jobs' = [jobs EXCEPT ![i].ret = ret]

\* The data a hash of block b sees: those in the cache first.
Visible(b) ==
    LET ws == {i \in 1..Len(jobs) :
                 jobs[i].kind = "write" /\ jobs[i].block = b /\ MayRun(i)}
    IN  IF ws = {} THEN disk[b] ELSE jobs[Max(ws)].data

DoWrite(i) ==
    /\ jobs[i].kind = "write"
    /\ disk' = [disk EXCEPT ![jobs[i].block] = jobs[i].data]
    /\ Return(i, "ok")
    /\ UNCHANGED faults

\* iovec_flushed with an error: all writes of the piece that hang in the cache
\* fail, and their blocks are taken for clean.
FailWrites(i) ==
    /\ jobs[i].kind = "write" /\ faults < MaxFaults
    /\ LET fails == {k \in 1..Len(jobs) :
                       /\ jobs[k].kind = "write" /\ jobs[k].piece = jobs[i].piece
                       /\ MayRun(k)}
       IN  /\ jobs' = [k \in 1..Len(jobs) |->
                        IF k \in fails THEN [jobs[k] EXCEPT !.ret = "error"] ELSE jobs[k]]
           /\ disk' = [b \in Blocks |->
                        LET ks == {k \in fails : jobs[k].block = b}
                        IN  IF ks = {} THEN disk[b]
                            ELSE IF jobs[Max(ks)].data = "good" THEN "ghost" ELSE "bad"]
    /\ faults' = faults + 1

\* The hash of what is visible.  (retry_job, while another thread hashes the
\* piece, leaves the job where it is: the step is not taken yet.)
do_hash(i) ==
    /\ jobs[i].kind = "hash"
    /\ LET seen == {Visible(<<jobs[i].piece, k>>) : k \in 1..blocks_in_piece(jobs[i].piece)}
       IN  \/ seen \subseteq {"good", "ghost"} /\ Return(i, "ok") /\ UNCHANGED faults
           \/ seen # {"good"} /\ Return(i, "mismatch") /\ UNCHANGED faults
           \/ faults < MaxFaults /\ Return(i, "error") /\ faults' = faults + 1
    /\ UNCHANGED disk

do_clear_piece(i) ==
    /\ IsFence(jobs[i])
    /\ Return(i, "ok")
    /\ disk' = [b \in Blocks |-> IF b[1] = jobs[i].piece /\ disk[b] = "ghost"
                                 THEN "none" ELSE disk[b]]
    /\ UNCHANGED faults

perform_job(i) ==
    /\ MayRun(i)
    /\ DoWrite(i) \/ FailWrites(i) \/ do_hash(i) \/ do_clear_piece(i)
    /\ UNCHANGED <<picker, mode, peerVars, setting, history, asked, changed>>
-----------------------------------------------------------------------------
(***************************************************************************)
(* Handlers of disk jobs that are complete (call_job_handlers).             *)
(***************************************************************************)
\* The handler of job i runs and jobs new are issued.
Handled(i, new) == jobs' = RemoveAt(jobs, i) \o new

\* The handler of job i is called after an older one of the same piece, with
\* the clearing of a failed piece between them or one of them.
OutOfOrder(i) ==
    \E k \in 1..(i - 1) :
        jobs[k].piece = jobs[i].piece /\ "clear" \in {jobs[k].kind, jobs[i].kind}
NoteOrder(i) == late' = IF OutOfOrder(i) THEN late \cup {jobs[i].piece} ELSE late

WriteOk(i) ==
    /\ jobs[i].ret = "ok"
    /\ picker' = mark_as_finished(picker, jobs[i].block)
    /\ Handled(i, <<>>)
    /\ UNCHANGED <<mode, peerVars, failed>>

\* handle_disk_error: the torrent stops downloading for a while (upload mode:
\* peers that only upload are disconnected, others drop what is cancelled), or
\* one peer is disconnected (out of memory), or the torrent is paused.  The
\* requests that set_upload_mode takes back from the peers that stay are given up
\* in steps of their own (as if rejected), sooner or later.
Consequence(pk, st) ==
    \/ /\ mode' = IF mode = "paused" THEN mode ELSE "upload"
       /\ \E cs \in SUBSET Peers :
            (cs # {} => mode = "download") /\ Drop(pk, st, cs)
    \/ /\ mode' = mode
       /\ \E cs \in {{}} \cup {{c} : c \in Peers} : Drop(pk, st, cs)
    \/ /\ mode' = "paused"
       /\ Drop(pk, st, Peers)

WriteError(i) ==
    /\ jobs[i].ret = "error"
    /\ LET b == jobs[i].block
       IN  Consequence(write_failed(picker, b), cancel_block(picker, b, queue, stale))
    /\ Handled(i, <<PieceJob("clear_failed", jobs[i].piece)>>)
    /\ failed' = failed \cup {jobs[i].piece}

on_disk_write_complete(i) ==
    /\ jobs[i].kind = "write"
    /\ WriteOk(i) \/ WriteError(i)

\* torrent::piece_failed: the peers that sent the piece may be banned, the
\* piece is locked until it is cleared.
piece_failed(i) ==
    /\ \E banned \in SUBSET Peers :
         Drop(lock_piece(picker, jobs[i].piece), stale, banned)
    /\ Handled(i, <<PieceJob("clear", jobs[i].piece)>>)
    /\ UNCHANGED mode

\* The result counts only while all blocks are there.
StillComplete(p) == is_piece_finished(picker, p)

HashError(i) ==
    /\ jobs[i].ret = "error"
    /\ \/ mode' = mode /\ UNCHANGED <<picker, peerVars>>
       \/ mode' = "paused" /\ Drop(picker, stale, Peers)
    /\ Handled(i, <<>>)
    /\ failed' = failed \cup {jobs[i].piece}

HashResult(i) ==
    /\ jobs[i].ret # "error"
    /\ LET p == jobs[i].piece
       IN  \/ /\ ~StillComplete(p)
              /\ Handled(i, <<>>)
              /\ UNCHANGED <<picker, mode, peerVars>>
           \/ /\ StillComplete(p) /\ jobs[i].ret = "ok"
              /\ picker' = piece_passed(picker, p)
              /\ Handled(i, <<>>)
              /\ UNCHANGED <<mode, peerVars>>
           \/ /\ StillComplete(p) /\ jobs[i].ret = "mismatch"
              /\ piece_failed(i)
    /\ UNCHANGED failed

on_piece_verified(i) ==
    /\ jobs[i].kind = "hash"
    /\ HashError(i) \/ HashResult(i)

\* The peers that were asked for block b and still owe it.
Holders(b) == {c \in Peers : b \in queue[c] \ stale[c]}

\* restore_piece, and mark_as_downloading for every request that is still
\* open: the piece starts anew with these blocks requested.
RestoreAndRequest(p) ==
    LET peers == [k \in 1..blocks_in_piece(p) |-> Cardinality(Holders(<<p, k>>))]
        open  == {k \in 1..blocks_in_piece(p) : peers[k] > 0}
        e == [NoDownload(p) EXCEPT
                !.queue = "downloading",
                !.state = [k \in 1..blocks_in_piece(p) |->
                             IF k \in open THEN "requested" ELSE "none"],
                !.num_peers = peers,
                !.requested = Cardinality(open)]
    IN  IF open = {} THEN restore_piece(picker, p)
        ELSE [picker EXCEPT !.dl[p] = update_piece_state(picker, p, e)]

on_piece_sync(i) ==
    /\ jobs[i].kind = "clear"
    /\ picker' = RestoreAndRequest(jobs[i].piece)
    /\ Handled(i, <<>>)
    /\ UNCHANGED <<mode, peerVars, failed>>

\* It only looks whether peers have become interesting.
on_piece_fail_sync(i) ==
    /\ jobs[i].kind = "clear_failed"
    /\ Handled(i, <<>>)
    /\ UNCHANGED <<picker, mode, peerVars, failed>>

call_job_handler(i) ==
    /\ ~Pending(i)
    /\ \/ on_disk_write_complete(i) \/ on_piece_verified(i)
       \/ on_piece_sync(i) \/ on_piece_fail_sync(i)
    /\ NoteOrder(i)
    /\ UNCHANGED <<setting, disk, counts>>
-----------------------------------------------------------------------------
Disk == Idle /\ \E i \in 1..Len(jobs) : perform_job(i)
Handlers == Idle /\ \E i \in 1..Len(jobs) : call_job_handler(i)

\* The loops in which the network thread may be.
Loops ==
    \/ \E c \in Peers, b \in Blocks : empty_download_queue(c, b)
    \/ prioritize_next

Network ==
    /\ Idle
    /\ \/ \E c \in Peers, b \in Blocks :
             \/ add_request(c, b) \/ incoming_piece(c, b)
             \/ incoming_reject_request(c, b) \/ snub_peer(c, b)
       \/ \E c \in Peers : disconnect(c)
       \/ \E w \in SUBSET Pieces : prioritize_pieces(w)
       \/ leave_upload_mode

Next == Network \/ Loops \/ Disk \/ Handlers

Spec == Init /\ [][Next]_vars

\* The disk threads complete the jobs and the network thread calls their
\* handlers; nothing is assumed of the peers.
FairSpec == Spec /\ WF_vars(Disk) /\ WF_vars(Loops) /\ WF_vars(Handlers)
-----------------------------------------------------------------------------
(***************************************************************************)
(* Properties.                                                              *)
(***************************************************************************)
\* Every variable stays in its type: no counter of the picker goes below zero,
\* and a peer has flagged only requests that are still in its queue.
TypeOK ==
    /\ IsPicker(picker)
    /\ mode \in {"download", "upload", "paused"}
    /\ queue \in [Peers -> SUBSET Blocks]
    /\ \A c \in Peers : stale[c] \subseteq queue[c]
    /\ leaving \subseteq {c \in Peers : queue[c] # {}}
    /\ setting \in [want : SUBSET Pieces, index : 0..num_pieces]
    /\ \A i \in 1..Len(jobs) : jobs[i].ret \in {"pending", "ok", "error", "mismatch"}
    /\ disk \in [Blocks -> Contents]
    /\ late \subseteq Pieces /\ failed \subseteq Pieces
    /\ faults \in 0..MaxFaults /\ asked \in 0..MaxRequests /\ changed \in 0..MaxChanges

\* Most of what the picker promises ends for a piece when a write of it fails,
\* or when the handlers of its jobs run out of order around its clearing.
Undisturbed == Pieces \ (late \cup failed)

\* piece_picker::check_invariant for each piece: end game, time-outs, changes of
\* priority and restored pieces leave no counter behind and no piece in the
\* wrong queue, from which it would never be picked.
EntriesAgree == \A p \in Undisturbed : EntryAgrees(picker, p)

\* The picker's totals, from which the torrent concludes that it is finished,
\* and the cursors agree with the pieces whatever goes wrong; num_passed does
\* unless a disk error lets a piece pass twice.
CountsOk == CountsAgree(picker) /\ (failed = {} => PassedAgrees(picker))

\* num_peers of a requested block is the number of peers that still owe it:
\* a peer that goes away never frees a block that another one was asked for.
RequestsCounted ==
    \A b \in Blocks : is_requested(picker, b) /\ b[1] \in Undisturbed =>
        num_peers(picker, b) = Cardinality(Holders(b))

\* A piece the picker calls there is on disk, every block as it should be:
\* across end game, a hash that is ready before the writes are, and a piece
\* that is cleared and downloaded again.
HaveIsOnDisk ==
    \A b \in Blocks : b[1] \in picker.have \cap Undisturbed => disk[b] = "good"

\* A block is writing in the picker exactly while its write is on the way: no
\* block is written twice at a time, none waits for a write that is gone.
WritingIsWritten ==
    \A b \in Blocks : b[1] \in Undisturbed =>
       (StateOf(picker, b) = "writing" <=>
          \E i \in 1..Len(jobs) : jobs[i].kind = "write" /\ jobs[i].block = b)

\* A piece of which all blocks have come, or that is locked because it failed,
\* does not stay so: it is there in the end, or can be asked for again.
InHand(p) == p \notin picker.have /\ (is_piece_finished(picker, p) \/ picker.dl[p].locked)
PieceDecided ==
    \A p \in Pieces : InHand(p) ~> ~InHand(p) \/ p \in late \cup failed

\* num_have counts pieces "whose hash has passed _and_ they have been
\* successfully flushed to disk" (piece_picker.hpp), also after a disk error.
HaveMeansFlushed == \A b \in Blocks : b[1] \in picker.have => disk[b] = "good"
=============================================================================
