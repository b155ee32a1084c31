--------------------------- MODULE PieceFlowProofs ---------------------------
(***************************************************************************)
(* Proofs about PieceFlow, for any torrent, any number of peers and any     *)
(* bounds.                                                                  *)
(***************************************************************************)
EXTENDS PieceFlow, PiecePickerProofs

-----------------------------------------------------------------------------
(***************************************************************************)
(* Jobs.                                                                    *)
(***************************************************************************)
Rets == {"pending", "ok", "error", "mismatch"}
WriteJobs == [kind : {"write"}, piece : Pieces, block : Blocks, data : Data, ret : Rets]
PieceJobs == [kind : {"hash", "clear", "clear_failed"}, piece : Pieces, ret : Rets]

\* What is in the job queue: a write names the piece of its block.
AllJobs == {j \in WriteJobs : j.block[1] = j.piece} \cup PieceJobs

\* The fields of a job.
LEMMA JobFields ==
    ASSUME NEW j \in AllJobs
    PROVE  /\ j.kind \in {"write", "hash", "clear", "clear_failed"}
           /\ j.piece \in Pieces /\ j.ret \in Rets
           /\ j.kind = "write" => /\ j \in WriteJobs
                                  /\ j.block \in Blocks /\ j.data \in Data
                                  /\ j.block[1] = j.piece
           /\ j.kind # "write" => j \in PieceJobs
<1>1. CASE j \in PieceJobs
  BY <1>1 DEF PieceJobs
<1>2. CASE j \in WriteJobs /\ j.block[1] = j.piece
  BY <1>2 DEF WriteJobs
<1> QED BY <1>1, <1>2 DEF AllJobs

\* A job keeps everything but its result.
LEMMA JobReturns ==
    ASSUME NEW j \in AllJobs, NEW r \in Rets
    PROVE  LET n == [j EXCEPT !.ret = r]
           IN  /\ n \in AllJobs
               /\ n.kind = j.kind /\ n.piece = j.piece /\ n.ret = r
               /\ j.kind = "write" => n.block = j.block /\ n.data = j.data
<1> DEFINE n == [j EXCEPT !.ret = r]
<1>1. CASE j.kind # "write"
  <2>1. j \in PieceJobs
    BY <1>1, JobFields
  <2>2. n \in PieceJobs /\ n.kind = j.kind /\ n.piece = j.piece /\ n.ret = r
    BY <2>1 DEF PieceJobs
  <2> QED BY <1>1, <2>2 DEF AllJobs
<1>2. CASE j.kind = "write"
  <2>1. j \in WriteJobs /\ j.block[1] = j.piece
    BY <1>2, JobFields
  <2>2. /\ n \in WriteJobs /\ n.kind = j.kind /\ n.piece = j.piece /\ n.ret = r
        /\ n.block = j.block /\ n.data = j.data
    BY <2>1 DEF WriteJobs
  <2> HIDE DEF n
  <2>3. n \in AllJobs
    BY <2>1, <2>2 DEF AllJobs
  <2> QED BY <2>2, <2>3 DEF n
<1> QED BY <1>1, <1>2

\* New jobs.
LEMMA NewJobs ==
    /\ \A b \in Blocks : \A d \in Data : WriteJob(b, d) \in AllJobs
    /\ \A p \in Pieces : \A k \in {"hash", "clear", "clear_failed"} : PieceJob(k, p) \in AllJobs
<1>1. ASSUME NEW b \in Blocks, NEW d \in Data PROVE WriteJob(b, d) \in AllJobs
  <2>1. b[1] \in Pieces
    BY BlockParts
  <2>2. WriteJob(b, d) \in WriteJobs
    BY <2>1 DEF WriteJob, WriteJobs, Rets
  <2>3. WriteJob(b, d).block = b /\ WriteJob(b, d).piece = b[1]
    BY DEF WriteJob
  <2> QED BY <2>2, <2>3 DEF AllJobs
<1>2. ASSUME NEW p \in Pieces, NEW k \in {"hash", "clear", "clear_failed"}
      PROVE  PieceJob(k, p) \in AllJobs
  <2>1. PieceJob(k, p) \in PieceJobs
    BY DEF PieceJob, PieceJobs, Rets
  <2> QED BY <2>1 DEF AllJobs
<1> QED BY <1>1, <1>2

\* A queue without its element i.
LEMMA Removed ==
    ASSUME NEW S, NEW s \in Seq(S), NEW i \in 1..Len(s)
    PROVE  /\ RemoveAt(s, i) \in Seq(S)
           /\ Len(RemoveAt(s, i)) = Len(s) - 1
           /\ \A k \in 1..(Len(s) - 1) : RemoveAt(s, i)[k] = s[IF k < i THEN k ELSE k + 1]
<1> DEFINE a == SubSeq(s, 1, i - 1)
           b == SubSeq(s, i + 1, Len(s))
<1>1. Len(s) \in Nat /\ i \in Nat /\ 1 <= i /\ i <= Len(s)
  OBVIOUS
<1>2. a \in Seq(S) /\ Len(a) = i - 1 /\ \A k \in 1..(i - 1) : a[k] = s[k]
  BY <1>1
<1>3. b \in Seq(S) /\ Len(b) = Len(s) - i /\ \A k \in 1..(Len(s) - i) : b[k] = s[i + k]
  <2>1. b \in Seq(S) /\ Len(b) = Len(s) - i
    BY <1>1
  <2>2. \A k \in 1..(Len(s) - i) : b[k] = s[(i + 1) + k - 1]
    BY <1>1
  <2>3. \A k \in 1..(Len(s) - i) : (i + 1) + k - 1 = i + k
    BY <1>1
  <2> QED BY <2>1, <2>2, <2>3
<1>4. RemoveAt(s, i) = a \o b
  BY DEF RemoveAt
<1> HIDE DEF a, b
<1>5. a \o b \in Seq(S) /\ Len(a \o b) = Len(s) - 1
  <2>1. a \in Seq(S) /\ b \in Seq(S)
    BY <1>2, <1>3
  <2>2. a \o b \in Seq(S) /\ Len(a \o b) = Len(a) + Len(b)
    BY <2>1
  <2> QED BY <1>1, <1>2, <1>3, <2>2
<1>6. ASSUME NEW k \in 1..(Len(s) - 1)
      PROVE  (a \o b)[k] = s[IF k < i THEN k ELSE k + 1]
  <2>1. CASE k < i
    BY <1>1, <1>2, <1>3, <2>1
  <2>2. CASE ~(k < i)
    <3>1. (a \o b)[k] = b[k - (i - 1)]
      BY <1>1, <1>2, <1>3, <2>2
    <3>2. k - (i - 1) \in 1..(Len(s) - i) /\ i + (k - (i - 1)) = k + 1
      BY <1>1, <2>2
    <3>3. b[k - (i - 1)] = s[i + (k - (i - 1))]
      BY <1>3, <3>2
    <3> QED BY <2>2, <3>1, <3>2, <3>3
  <2> QED BY <2>1, <2>2
<1> QED BY <1>4, <1>5, <1>6

-----------------------------------------------------------------------------
(***************************************************************************)
(* Types, in parts.                                                         *)
(***************************************************************************)
PeersOk ==
    /\ mode \in {"download", "upload", "paused"}
    /\ queue \in [Peers -> SUBSET Blocks] /\ stale \in [Peers -> SUBSET Blocks]
    /\ \A c \in Peers : stale[c] \subseteq queue[c]
    /\ leaving \subseteq {c \in Peers : queue[c] # {}}
SettingOk == setting = NotSetting \/ setting \in [want : SUBSET Pieces, index : Pieces]
JobsOk == jobs \in Seq(AllJobs) /\ disk \in [Blocks -> Contents]
HistoryOk ==
    /\ late \subseteq Pieces /\ failed \subseteq Pieces
    /\ faults \in 0..MaxFaults /\ asked \in 0..MaxRequests /\ changed \in 0..MaxChanges

FlowOk == PickerOk(picker) /\ PeersOk /\ SettingOk /\ JobsOk /\ HistoryOk

\* It holds when nothing has happened.
LEMMA InitFlow == Init => FlowOk
<1> SUFFICES ASSUME Init PROVE FlowOk
  OBVIOUS
<1>1. PickerOk(picker)
  BY InitOk DEF Init
<1>2. PeersOk
  BY DEF Init, PeersOk
<1>3. SettingOk
  BY DEF Init, SettingOk
<1>4. JobsOk
  BY DEF Init, JobsOk, Contents
<1>5. HistoryOk
  BY FlowAssumption DEF Init, HistoryOk
<1> QED BY <1>1, <1>2, <1>3, <1>4, <1>5 DEF FlowOk

\* A job of the queue, and the queue without it and with new ones.
LEMMA JobAt ==
    ASSUME JobsOk, NEW i \in 1..Len(jobs)
    PROVE  /\ jobs[i] \in AllJobs
           /\ jobs[i].piece \in Pieces /\ jobs[i].ret \in Rets
           /\ jobs[i].kind \in {"write", "hash", "clear", "clear_failed"}
           /\ jobs[i].kind = "write" => /\ jobs[i].block \in Blocks /\ jobs[i].data \in Data
                                        /\ jobs[i].block[1] = jobs[i].piece
<1>1. jobs[i] \in AllJobs
  BY DEF JobsOk
<1> QED BY <1>1, JobFields

\* What Handled leaves is a queue.
LEMMA HandledQueue ==
    ASSUME JobsOk, NEW i \in 1..Len(jobs), NEW new \in Seq(AllJobs), Handled(i, new)
    PROVE  jobs' \in Seq(AllJobs)
<1>1. RemoveAt(jobs, i) \in Seq(AllJobs)
  BY Removed DEF JobsOk
<1> QED BY <1>1 DEF Handled

\* Unqueue keeps the peers' types.
LEMMA UnqueueTypes ==
    ASSUME PeersOk, NEW c \in Peers, NEW b, Unqueue(c, b)
    PROVE  /\ queue' \in [Peers -> SUBSET Blocks] /\ stale' \in [Peers -> SUBSET Blocks]
           /\ \A d \in Peers : stale'[d] \subseteq queue'[d]
<1>1. queue' = [queue EXCEPT ![c] = @ \ {b}] /\ stale' = [stale EXCEPT ![c] = @ \ {b}]
  BY DEF Unqueue
<1>2. queue \in [Peers -> SUBSET Blocks] /\ stale \in [Peers -> SUBSET Blocks]
      /\ \A d \in Peers : stale[d] \subseteq queue[d]
  BY DEF PeersOk
<1>3. queue' \in [Peers -> SUBSET Blocks] /\ stale' \in [Peers -> SUBSET Blocks]
  BY <1>1, <1>2
<1>4. \A d \in Peers : stale'[d] \subseteq queue'[d]
  BY <1>1, <1>2
<1> QED BY <1>3, <1>4

\* Peers are asked and answer.
LEMMA PeerSteps ==
    ASSUME FlowOk, Idle, NEW c \in Peers, NEW b \in Blocks,
           add_request(c, b) \/ incoming_piece(c, b) \/ incoming_reject_request(c, b)
             \/ snub_peer(c, b)
    PROVE  FlowOk'
<1> USE DEF FlowOk
<1>1. leaving = {}
  BY DEF Idle
<1>2. CASE add_request(c, b)
  <2>1. PickerOk(picker')
    BY <1>2, DownloadingKeeps DEF add_request
  <2>2. PeersOk'
    <3>1. queue' = [queue EXCEPT ![c] = @ \cup {b}] /\ stale' = stale /\ leaving' = leaving
          /\ mode' = mode
      BY <1>2 DEF add_request
    <3>2. queue' \in [Peers -> SUBSET Blocks]
      BY <3>1 DEF PeersOk
    <3>3. \A d \in Peers : stale'[d] \subseteq queue'[d]
      BY <3>1 DEF PeersOk
    <3> QED BY <1>1, <3>1, <3>2, <3>3 DEF PeersOk
  <2>3. SettingOk' /\ JobsOk'
    BY <1>2 DEF add_request, SettingOk, NotSetting, JobsOk
  <2>4. HistoryOk'
    BY <1>2, FlowAssumption DEF add_request, HistoryOk, history
  <2> QED BY <2>1, <2>2, <2>3, <2>4
<1>3. CASE Redundant(c, b)
  <2>1. PickerOk(picker') /\ SettingOk' /\ JobsOk' /\ HistoryOk'
    BY <1>3 DEF Redundant, SettingOk, NotSetting, JobsOk, HistoryOk, history, counts
  <2>2. Unqueue(c, b) /\ leaving' = {} /\ mode' = mode
    BY <1>1, <1>3 DEF Redundant
  <2>3. PeersOk'
    BY <2>2, UnqueueTypes DEF PeersOk
  <2> QED BY <2>1, <2>3
<1>4. ASSUME NEW data \in Data, data = "bad" => faults < MaxFaults, Received(c, b, data)
      PROVE  FlowOk'
  <2> DEFINE pk == mark_as_writing(picker, b)
             q  == [queue EXCEPT ![c] = @ \ {b}]
             st == [stale EXCEPT ![c] = @ \ {b}]
  <2>1. /\ picker' = pk /\ queue' = q
        /\ stale' = IF num_peers(picker, b) > 1 THEN cancel_block(pk, b, q, st) ELSE st
        /\ jobs' = Append(jobs, WriteJob(b, data)) \o VerifyIfComplete(b[1], pk)
        /\ faults' = faults + One(data = "bad")
        /\ mode' = mode /\ leaving' = leaving /\ setting' = setting /\ disk' = disk
        /\ late' = late /\ failed' = failed /\ asked' = asked /\ changed' = changed
    BY <1>4 DEF Received, history
  <2>2. PickerOk(picker')
    BY <2>1, WritingKeeps
  <2>3. PeersOk'
    <3>1. /\ queue \in [Peers -> SUBSET Blocks] /\ stale \in [Peers -> SUBSET Blocks]
          /\ \A d \in Peers : stale[d] \subseteq queue[d]
      BY DEF PeersOk
    <3>2. /\ q \in [Peers -> SUBSET Blocks] /\ st \in [Peers -> SUBSET Blocks]
          /\ \A d \in Peers : st[d] \subseteq q[d]
      BY <3>1
    <3> HIDE DEF q, st, pk
    <3>3. LET cb == cancel_block(pk, b, q, st)
          IN  cb \in [Peers -> SUBSET Blocks] /\ \A d \in Peers : cb[d] \subseteq q[d]
      BY <3>2 DEF cancel_block
    <3>4. stale' \in [Peers -> SUBSET Blocks] /\ \A d \in Peers : stale'[d] \subseteq q[d]
      BY <2>1, <3>2, <3>3
    <3> QED BY <1>1, <2>1, <3>2, <3>4 DEF PeersOk
  <2>4. JobsOk'
    <3>1. jobs \in Seq(AllJobs) /\ disk' \in [Blocks -> Contents]
      BY <2>1 DEF JobsOk
    <3>2. Append(jobs, WriteJob(b, data)) \in Seq(AllJobs)
      BY <3>1, NewJobs
    <3>3. VerifyIfComplete(b[1], pk) \in Seq(AllJobs)
      <4>1. PieceJob("hash", b[1]) \in AllJobs
        BY BlockParts, NewJobs
      <4> QED BY <4>1 DEF VerifyIfComplete
    <3> HIDE DEF pk
    <3> QED BY <2>1, <3>1, <3>2, <3>3 DEF JobsOk
  <2>5. HistoryOk' /\ SettingOk'
    BY <1>4, <2>1, FlowAssumption DEF HistoryOk, SettingOk, NotSetting, One
  <2> QED BY <2>2, <2>3, <2>4, <2>5
<1>5. CASE incoming_reject_request(c, b)
  <2>1. PickerOk(picker')
    BY <1>5, AbortKeeps DEF incoming_reject_request, GiveUp
  <2>2. SettingOk' /\ JobsOk' /\ HistoryOk'
    BY <1>5 DEF incoming_reject_request, GiveUp, SettingOk, NotSetting, JobsOk, HistoryOk,
                history, counts
  <2>3. Unqueue(c, b) /\ leaving' = {} /\ mode' = mode
    BY <1>1, <1>5 DEF incoming_reject_request, GiveUp
  <2>4. PeersOk'
    BY <2>3, UnqueueTypes DEF PeersOk
  <2> QED BY <2>1, <2>2, <2>4
<1>6. CASE snub_peer(c, b)
  <2>1. PickerOk(picker')
    BY <1>6, AbortKeeps DEF snub_peer
  <2>2. SettingOk' /\ JobsOk' /\ HistoryOk'
    BY <1>6 DEF snub_peer, SettingOk, NotSetting, JobsOk, HistoryOk, history, counts
  <2>3. /\ stale' = [stale EXCEPT ![c] = @ \cup {b}] /\ b \in queue[c]
        /\ queue' = queue /\ leaving' = leaving /\ mode' = mode
    BY <1>6 DEF snub_peer
  <2>4. PeersOk'
    <3>1. stale' \in [Peers -> SUBSET Blocks]
      BY <2>3 DEF PeersOk
    <3>2. \A d \in Peers : stale'[d] \subseteq queue'[d]
      BY <2>3 DEF PeersOk
    <3> QED BY <1>1, <2>3, <3>1, <3>2 DEF PeersOk
  <2> QED BY <2>1, <2>2, <2>4
<1> QED BY <1>2, <1>3, <1>4, <1>5, <1>6 DEF incoming_piece

\* Drop only notes who has to go.
LEMMA DropTypes ==
    ASSUME PeersOk, NEW pk, NEW st \in [Peers -> SUBSET Blocks], NEW cs,
           cs \subseteq Peers, \A c \in Peers : st[c] \subseteq queue[c],
           Drop(pk, st, cs), mode' \in {"download", "upload", "paused"}
    PROVE  PeersOk' /\ picker' = pk
  BY DEF Drop, PeersOk

\* Peers leave, and priorities are set.
LEMMA LoopSteps ==
    ASSUME FlowOk, \/ \E c \in Peers : disconnect(c)
                   \/ \E c \in Peers, b \in Blocks : empty_download_queue(c, b)
                   \/ \E w \in SUBSET Pieces : prioritize_pieces(w)
                   \/ prioritize_next
                   \/ leave_upload_mode
    PROVE  FlowOk'
<1> USE DEF FlowOk
<1>1. ASSUME NEW c \in Peers, disconnect(c) PROVE FlowOk'
  <2>1. /\ Drop(picker, stale, {c}) /\ mode' = mode
        /\ setting' = setting /\ jobs' = jobs /\ disk' = disk
        /\ late' = late /\ failed' = failed /\ faults' = faults /\ asked' = asked
        /\ changed' = changed
    BY <1>1 DEF disconnect, history, counts
  <2>2. PeersOk' /\ picker' = picker
    <3>1. /\ stale \in [Peers -> SUBSET Blocks] /\ \A d \in Peers : stale[d] \subseteq queue[d]
          /\ mode' \in {"download", "upload", "paused"}
      BY <2>1 DEF PeersOk
    <3> QED BY <2>1, <3>1, DropTypes
  <2>3. SettingOk' /\ JobsOk' /\ HistoryOk'
    BY <2>1 DEF SettingOk, NotSetting, JobsOk, HistoryOk
  <2> QED BY <2>2, <2>3
<1>2. ASSUME NEW c \in Peers, NEW b \in Blocks, empty_download_queue(c, b) PROVE FlowOk'
  <2>1. PickerOk(picker')
    BY <1>2, AbortKeeps DEF empty_download_queue, GiveUp
  <2>2. SettingOk' /\ JobsOk' /\ HistoryOk'
    BY <1>2 DEF empty_download_queue, GiveUp, SettingOk, NotSetting, JobsOk, HistoryOk,
                history, counts
  <2>3. /\ Unqueue(c, b) /\ mode' = mode /\ b \in queue[c]
        /\ leaving' = IF queue[c] = {b} THEN leaving \ {c} ELSE leaving
    BY <1>2 DEF empty_download_queue, GiveUp
  <2>4. leaving' \subseteq {d \in Peers : queue'[d] # {}}
    <3>1. queue' = [queue EXCEPT ![c] = @ \ {b}]
      BY <2>3 DEF Unqueue
    <3>2. ASSUME NEW d \in leaving' PROVE d \in Peers /\ queue'[d] # {}
      <4>1. d \in leaving /\ d \in Peers /\ queue[d] # {}
        BY <2>3 DEF PeersOk
      <4>2. CASE d # c
        BY <3>1, <4>1, <4>2 DEF PeersOk
      <4>3. CASE d = c
        <5>1. queue[c] # {b}
          BY <2>3, <4>3
        <5>2. queue'[c] = queue[c] \ {b}
          BY <3>1 DEF PeersOk
        <5> QED BY <2>3, <4>1, <4>3, <5>1, <5>2
      <4> QED BY <4>2, <4>3
    <3> QED BY <3>2
  <2>5. PeersOk'
    BY <2>3, <2>4, UnqueueTypes DEF PeersOk
  <2> QED BY <2>1, <2>2, <2>5
<1>3. ASSUME NEW w \in SUBSET Pieces, NEW p \in Pieces, PrioritizePiece(w, p)
      PROVE  PickerOk(picker') /\ SettingOk'
  <2>1. PickerOk(picker')
    <3>1. (p \notin w) \in BOOLEAN
      OBVIOUS
    <3>2. PickerOk(set_piece_priority(picker, p, p \notin w))
      BY <3>1, PriorityKeeps
    <3> QED BY <1>3, <3>2 DEF PrioritizePiece
  <2>2. p + 1 # num_pieces => p + 1 \in Pieces
    BY Layout DEF Pieces
  <2>3. SettingOk'
    BY <1>3, <2>2 DEF PrioritizePiece, SettingOk, NotSetting
  <2> QED BY <2>1, <2>3
<1>4. ASSUME NEW w \in SUBSET Pieces, prioritize_pieces(w) PROVE FlowOk'
  <2>1. 0 \in Pieces
    BY Layout DEF Pieces
  <2>2. PickerOk(picker') /\ SettingOk'
    BY <1>3, <1>4, <2>1 DEF prioritize_pieces
  <2>3. PeersOk' /\ JobsOk' /\ HistoryOk'
    BY <1>4, FlowAssumption DEF prioritize_pieces, peerVars, PeersOk, JobsOk, HistoryOk, history
  <2> QED BY <2>2, <2>3
<1>5. CASE prioritize_next
  <2>1. setting.want \in SUBSET Pieces /\ setting.index \in Pieces
    BY <1>5 DEF prioritize_next, SettingOk
  <2>2. PickerOk(picker') /\ SettingOk'
    BY <1>3, <1>5, <2>1 DEF prioritize_next
  <2>3. PeersOk' /\ JobsOk' /\ HistoryOk'
    BY <1>5 DEF prioritize_next, peerVars, PeersOk, JobsOk, HistoryOk, history, counts
  <2> QED BY <2>2, <2>3
<1>6. CASE leave_upload_mode
  BY <1>6 DEF leave_upload_mode, peerVars, PeersOk, JobsOk, HistoryOk, SettingOk, NotSetting,
              history, counts
<1> QED BY <1>1, <1>2, <1>4, <1>5, <1>6

\* A job returns.
LEMMA Returned ==
    ASSUME JobsOk, NEW i \in 1..Len(jobs), NEW r \in Rets, Return(i, r)
    PROVE  jobs' \in Seq(AllJobs)
<1>1. jobs[i] \in AllJobs /\ jobs \in Seq(AllJobs)
  BY DEF JobsOk
<1>2. [jobs[i] EXCEPT !.ret = r] \in AllJobs
  BY <1>1, JobReturns
<1>3. jobs' = [jobs EXCEPT ![i] = [jobs[i] EXCEPT !.ret = r]]
  BY <1>1 DEF Return
<1> QED BY <1>1, <1>2, <1>3

\* The disk threads.
LEMMA DiskSteps ==
    ASSUME FlowOk, NEW i \in 1..Len(jobs), perform_job(i)
    PROVE  FlowOk'
<1> USE DEF FlowOk
<1>1. /\ picker' = picker /\ mode' = mode /\ queue' = queue /\ stale' = stale
      /\ leaving' = leaving /\ setting' = setting /\ late' = late /\ failed' = failed
      /\ asked' = asked /\ changed' = changed
  BY DEF perform_job, peerVars, history
<1>2. PickerOk(picker') /\ PeersOk' /\ SettingOk'
  BY <1>1 DEF PeersOk, SettingOk, NotSetting
<1>3. "ok" \in Rets /\ "mismatch" \in Rets /\ "error" \in Rets
  BY DEF Rets
<1>4. disk \in [Blocks -> Contents] /\ jobs \in Seq(AllJobs)
  BY DEF JobsOk
<1>5. faults' \in {faults, faults + 1} /\ (faults' # faults => faults < MaxFaults)
  BY DEF perform_job, DoWrite, FailWrites, do_hash, do_clear_piece
<1>6. HistoryOk'
  BY <1>1, <1>5, FlowAssumption DEF HistoryOk
<1>7. CASE DoWrite(i)
  <2>1. /\ jobs[i].block \in Blocks /\ jobs[i].data \in Contents
    BY <1>7, JobAt DEF DoWrite, Contents
  <2>2. disk' \in [Blocks -> Contents]
    BY <1>4, <1>7, <2>1 DEF DoWrite
  <2>3. jobs' \in Seq(AllJobs)
    BY <1>3, <1>7, Returned DEF DoWrite
  <2> QED BY <1>2, <1>6, <2>2, <2>3 DEF JobsOk
<1>8. CASE FailWrites(i)
  <2>1. PICK fails : /\ jobs' = [k \in 1..Len(jobs) |->
                           IF k \in fails THEN [jobs[k] EXCEPT !.ret = "error"] ELSE jobs[k]]
                     /\ disk' = [b \in Blocks |->
                           LET ks == {k \in fails : jobs[k].block = b}
                           IN  IF ks = {} THEN disk[b]
                               ELSE IF jobs[Max(ks)].data = "good" THEN "ghost" ELSE "bad"]
    BY <1>8 DEF FailWrites
  <2>2. disk' \in [Blocks -> Contents]
    BY <1>4, <2>1 DEF Contents, Data
  <2>3. jobs' \in Seq(AllJobs)
    <3>1. Len(jobs) \in Nat
      BY <1>4
    <3>2. \A k \in 1..Len(jobs) : jobs[k] \in AllJobs
      BY <1>4
    <3>3. \A k \in 1..Len(jobs) : [jobs[k] EXCEPT !.ret = "error"] \in AllJobs
      BY <1>3, <3>2, JobReturns
    <3>4. \A k \in 1..Len(jobs) : jobs'[k] \in AllJobs
      BY <2>1, <3>2, <3>3
    <3>5. jobs' = [k \in 1..Len(jobs) |-> jobs'[k]]
      BY <2>1
    <3> QED BY <3>1, <3>4, <3>5
  <2> QED BY <1>2, <1>6, <2>2, <2>3 DEF JobsOk
<1>9. CASE do_hash(i)
  <2>1. PICK r \in {"ok", "mismatch", "error"} : Return(i, r)
    BY <1>9 DEF do_hash
  <2>2. jobs' \in Seq(AllJobs) /\ disk' = disk
    BY <1>3, <1>9, <2>1, Returned DEF do_hash
  <2> QED BY <1>2, <1>4, <1>6, <2>2 DEF JobsOk
<1>10. CASE do_clear_piece(i)
  <2>1. disk' \in [Blocks -> Contents]
    BY <1>4, <1>10 DEF do_clear_piece, Contents
  <2>2. jobs' \in Seq(AllJobs)
    BY <1>3, <1>10, Returned DEF do_clear_piece
  <2> QED BY <1>2, <1>6, <2>1, <2>2 DEF JobsOk
<1> QED BY <1>7, <1>8, <1>9, <1>10 DEF perform_job

-----------------------------------------------------------------------------
(***************************************************************************)
(* A piece that starts anew.                                                *)
(***************************************************************************)
\* How many peers still owe a block.
LEMMA HoldersFinite ==
    ASSUME NEW b
    PROVE  /\ Holders(b) \subseteq Peers /\ IsFiniteSet(Holders(b))
           /\ Cardinality(Holders(b)) \in Nat
           /\ Cardinality(Holders(b)) > 0 <=> Holders(b) # {}
<1>1. Holders(b) \subseteq Peers
  BY DEF Holders
<1>2. IsFiniteSet(Holders(b))
  BY <1>1, FlowAssumption, FS_Subset
<1>3. Cardinality(Holders(b)) \in Nat
  BY <1>2, FS_CardinalityType
<1>4. Cardinality(Holders(b)) = 0 <=> Holders(b) = {}
  BY <1>2, FS_EmptySet
<1> QED BY <1>1, <1>2, <1>3, <1>4

\* What RestoreAndRequest makes of the picker.
Restarted(p) ==
    LET new == RestoreAndRequest(p)
        e == new.dl[p]
        open == {k \in 1..blocks_in_piece(p) : Holders(<<p, k>>) # {}}
    IN  /\ Shape(new) /\ SameBut(picker, new, p)
        /\ e \in EntryType(p)
        /\ \A k \in 1..blocks_in_piece(p) :
             /\ e.state[k] = IF k \in open THEN "requested" ELSE "none"
             /\ e.num_peers[k] = Cardinality(Holders(<<p, k>>))
        /\ e.requested = Cardinality(open) /\ e.writing = 0 /\ e.finished = 0
        /\ e.passed_hash_check = FALSE /\ e.locked = FALSE
        /\ e.queue = IF open = {} THEN "open" ELSE QueueFor(picker, p, e)

\* Exactly the blocks that peers still owe are requested.
LEMMA RestartedEntry ==
    ASSUME PickerOk(picker), NEW p \in Pieces
    PROVE  Restarted(p)
<1> DEFINE B == 1..blocks_in_piece(p)
           peers == [k \in B |-> Cardinality(Holders(<<p, k>>))]
           op == {k \in B : peers[k] > 0}
           open == {k \in B : Holders(<<p, k>>) # {}}
           st == [k \in B |-> IF k \in op THEN "requested" ELSE "none"]
           e == [NoDownload(p) EXCEPT !.queue = "downloading", !.state = st,
                                      !.num_peers = peers, !.requested = Cardinality(op)]
           new == RestoreAndRequest(p)
<1>1. \A k \in B : peers[k] \in Nat /\ (peers[k] > 0 <=> Holders(<<p, k>>) # {})
  BY HoldersFinite
<1>2. op = open
  BY <1>1
<1>3. new = IF op = {} THEN restore_piece(picker, p)
            ELSE [picker EXCEPT !.dl[p] = update_piece_state(picker, p, e)]
  BY DEF RestoreAndRequest
<1>4. peers \in [B -> Nat] /\ st \in [B -> BlockStates]
  BY <1>1 DEF BlockStates
<1>5. /\ \A k \in B : st[k] = IF k \in open THEN "requested" ELSE "none"
      /\ \A k \in B : peers[k] = Cardinality(Holders(<<p, k>>))
  BY <1>2
<1>6. /\ Cardinality(op) \in Nat /\ (op = {} <=> Cardinality(op) = 0)
  <2>1. IsFiniteSet(B)
    BY Layout, FS_Interval
  <2>2. op \subseteq B
    OBVIOUS
  <2>3. IsFiniteSet(op)
    BY <2>1, <2>2, FS_Subset
  <2> HIDE DEF op
  <2> QED BY <2>3, FS_CardinalityType, FS_EmptySet
<1>7. Shape(picker)
  BY DEF PickerOk
<1> HIDE DEF op, open, peers, st, new
<1>8. CASE op = {}
  <2>1. new = [picker EXCEPT !.dl[p] = NoDownload(p)]
    <3>1. CASE Downloading(picker, p)
      BY <1>3, <1>8, <3>1 DEF restore_piece, erase_download_piece
    <3>2. CASE ~Downloading(picker, p)
      <4>1. picker.dl[p] = NoDownload(p)
        BY <3>2, OldEntry
      <4>2. picker = [picker EXCEPT !.dl[p] = NoDownload(p)]
        BY <1>7, <4>1 DEF Shape
      <4> QED BY <1>3, <1>8, <3>2, <4>2 DEF restore_piece
    <3> QED BY <3>1, <3>2
  <2>2. Shape(new) /\ SameBut(picker, new, p) /\ new.dl[p] = NoDownload(p)
    BY <1>7, <2>1, StoreEntry
  <2>3. NoDownload(p) \in EntryType(p)
    BY EmptyEntry DEF EntryOk
  <2>4. \A k \in B : /\ NoDownload(p).state[k] = "none"
                     /\ NoDownload(p).num_peers[k] = 0
    BY DEF NoDownload
  <2>5. /\ NoDownload(p).requested = 0 /\ NoDownload(p).writing = 0
        /\ NoDownload(p).finished = 0 /\ NoDownload(p).queue = "open"
        /\ NoDownload(p).passed_hash_check = FALSE /\ NoDownload(p).locked = FALSE
    BY DEF NoDownload
  <2>6. ASSUME NEW k \in B PROVE k \notin open /\ peers[k] = 0
    <3>1. k \notin op
      BY <1>8
    <3>2. ~(peers[k] > 0) /\ peers[k] \in Nat
      BY <1>1, <3>1 DEF op
    <3> QED BY <1>2, <3>1, <3>2
  <2>7. Cardinality(open) = 0
    BY <1>2, <1>6, <1>8
  <2>8. \A k \in B : /\ new.dl[p].state[k] = IF k \in open THEN "requested" ELSE "none"
                     /\ new.dl[p].num_peers[k] = Cardinality(Holders(<<p, k>>))
    BY <1>5, <2>2, <2>4, <2>6
  <2>9. open = {}
    BY <1>2, <1>8
  <2> QED BY <2>2, <2>3, <2>5, <2>7, <2>8, <2>9 DEF Restarted, new, open
<1>9. CASE op # {}
  <2> DEFINE u == update_piece_state(picker, p, e)
  <2>1. NoDownload(p) \in EntryType(p)
    BY EmptyEntry DEF EntryOk
  <2>2. DOMAIN NoDownload(p) = EntryFields
    BY <2>1, EntryDomain
  <2>3. /\ e.queue = "downloading" /\ e.state = st /\ e.num_peers = peers
        /\ e.requested = Cardinality(op)
    BY <2>2 DEF EntryFields
  <2>4. /\ e.writing = NoDownload(p).writing /\ e.finished = NoDownload(p).finished
        /\ e.passed_hash_check = NoDownload(p).passed_hash_check
        /\ e.locked = NoDownload(p).locked
    BY <2>2 DEF EntryFields
  <2>5. DOMAIN e = EntryFields /\ e = [f \in DOMAIN e |-> e[f]]
    BY <2>2
  <2>6. /\ NoDownload(p).writing = 0 /\ NoDownload(p).finished = 0
        /\ NoDownload(p).passed_hash_check = FALSE /\ NoDownload(p).locked = FALSE
    BY DEF NoDownload
  <2> HIDE DEF e
  <2>7. e \in EntryType(p)
    <3>1. e.queue \in Queues
      BY <2>3 DEF Queues
    <3>2. /\ e.state \in [1..blocks_in_piece(p) -> BlockStates]
          /\ e.num_peers \in [1..blocks_in_piece(p) -> Nat]
          /\ e.requested \in Nat
      BY <1>4, <1>6, <2>3
    <3> HIDE DEF B
    <3> QED BY <2>1, <2>4, <2>5, <3>1, <3>2, EntryOf
  <2>8. InUse(e) > 0
    BY <1>6, <1>9, <2>3, <2>4, <2>6 DEF InUse
  <2>9. /\ u \in EntryType(p)
        /\ u.state = e.state /\ u.num_peers = e.num_peers
        /\ u.requested = e.requested /\ u.writing = e.writing
        /\ u.finished = e.finished
        /\ u.passed_hash_check = e.passed_hash_check /\ u.locked = e.locked
        /\ u.queue = QueueFor(picker, p, u)
    BY <2>7, <2>8, UpdateState DEF QueueFor, InUse
  <2>10. new = [picker EXCEPT !.dl[p] = u]
    BY <1>3, <1>9
  <2> HIDE DEF u
  <2>11. Shape(new) /\ SameBut(picker, new, p) /\ new.dl[p] = u
    BY <1>7, <2>10, StoreEntry
  <2>12. \A k \in B : /\ u.state[k] = IF k \in open THEN "requested" ELSE "none"
                      /\ u.num_peers[k] = Cardinality(Holders(<<p, k>>))
    BY <1>5, <2>3, <2>9
  <2>13. /\ u.requested = Cardinality(open) /\ u.writing = 0 /\ u.finished = 0
         /\ u.passed_hash_check = FALSE /\ u.locked = FALSE /\ open # {}
    BY <1>2, <1>9, <2>3, <2>4, <2>6, <2>9
  <2> QED BY <2>9, <2>11, <2>12, <2>13 DEF Restarted, new, open
<1> QED BY <1>8, <1>9

\* The blocks of a restarted piece in each state, and what that makes of it.
LEMMA RestartKeeps ==
    ASSUME PickerOk(picker), NEW p \in Pieces
    PROVE  PickerOk(RestoreAndRequest(p))
<1> DEFINE new == RestoreAndRequest(p)
           e == new.dl[p]
           B == 1..blocks_in_piece(p)
           open == {k \in B : Holders(<<p, k>>) # {}}
<1>1. /\ Shape(new) /\ SameBut(picker, new, p)
      /\ e \in EntryType(p)
      /\ \A k \in B : e.state[k] = IF k \in open THEN "requested" ELSE "none"
      /\ e.requested = Cardinality(open) /\ e.writing = 0 /\ e.finished = 0
      /\ e.passed_hash_check = FALSE /\ e.locked = FALSE
      /\ e.queue = IF open = {} THEN "open" ELSE QueueFor(picker, p, e)
      /\ \A k \in B : e.num_peers[k] = Cardinality(Holders(<<p, k>>))
  <2>1. Restarted(p)
    BY RestartedEntry
  <2> QED BY <2>1 DEF Restarted
<1>2. open \subseteq B /\ IsFiniteSet(open) /\ Cardinality(open) \in Nat
      /\ (Cardinality(open) = 0 <=> open = {})
  <2>1. open \subseteq B /\ IsFiniteSet(B)
    BY Layout, FS_Interval
  <2> HIDE DEF open
  <2>2. IsFiniteSet(open)
    BY <2>1, FS_Subset
  <2> QED BY <2>1, <2>2, FS_CardinalityType, FS_EmptySet
<1>3. \A k \in B : k \notin open => Cardinality(Holders(<<p, k>>)) = 0
  BY HoldersFinite
<1> HIDE DEF new, e, open
<1>4. DOMAIN e.state = B /\ e.state \in [B -> BlockStates] /\ e.num_peers \in [B -> Nat]
      /\ DOMAIN e = EntryFields
  BY <1>1, EntryDomain
<1>5. /\ InState(e, "requested") = open
      /\ InState(e, "writing") = {} /\ InState(e, "finished") = {}
  BY <1>1, <1>2, <1>4 DEF InState
<1>6. Covers(e)
  <2>1. Cardinality({}) = 0
    BY FS_EmptySet
  <2> QED BY <1>1, <1>2, <1>5, <2>1 DEF Covers, InStates
<1>7. EntryOk(p, e)
  <2>1. CASE open = {}
    <3>1. e.state = [k \in B |-> "none"] /\ e.num_peers = [k \in B |-> 0]
      BY <1>1, <1>3, <1>4, <2>1
    <3>2. e.requested = 0 /\ e.queue = "open"
      BY <1>1, <1>2, <2>1
    <3>3. e = [queue |-> e.queue, state |-> e.state, num_peers |-> e.num_peers,
               requested |-> e.requested, writing |-> e.writing, finished |-> e.finished,
               passed_hash_check |-> e.passed_hash_check, locked |-> e.locked]
      BY <1>1 DEF EntryType
    <3>4. /\ e.writing = 0 /\ e.finished = 0
          /\ e.passed_hash_check = FALSE /\ e.locked = FALSE
      BY <1>1
    <3>5. e = NoDownload(p)
      BY <3>1, <3>2, <3>3, <3>4 DEF NoDownload
    <3> QED BY <3>5, EmptyEntry
  <2>2. CASE open # {}
    <3>1. e.queue # "open"
      BY <1>1, <2>2, QueueIsOne
    <3>2. InUse(e) > 0
      <4>1. /\ e.requested = Cardinality(open) /\ e.writing = 0 /\ e.finished = 0
            /\ Cardinality(open) \in Nat /\ Cardinality(open) # 0
        BY <1>1, <1>2, <2>2
      <4> QED BY <4>1 DEF InUse
    <3> QED BY <1>1, <1>6, <3>1, <3>2 DEF EntryOk
  <2> QED BY <2>1, <2>2
<1>8. PickerOk(new)
  BY <1>1, <1>7, ReplaceEntry DEF e
<1> QED BY <1>8 DEF new

-----------------------------------------------------------------------------
(***************************************************************************)
(* Handlers of disk jobs keep the types.                                    *)
(***************************************************************************)
\* handle_disk_error.
LEMMA ConsequenceTypes ==
    ASSUME PeersOk, NEW pk, NEW st \in [Peers -> SUBSET Blocks],
           \A c \in Peers : st[c] \subseteq queue[c], Consequence(pk, st)
    PROVE  PeersOk' /\ picker' = pk
<1>1. mode \in {"download", "upload", "paused"}
  BY DEF PeersOk
<1>2. /\ mode' \in {"download", "upload", "paused"}
      /\ \E cs \in SUBSET Peers : Drop(pk, st, cs)
  BY <1>1 DEF Consequence
<1> QED BY <1>2, DropTypes

\* cancel_block only adds flags of requests.
LEMMA CancelTypes ==
    ASSUME PeersOk, NEW b \in Blocks
    PROVE  LET st == cancel_block(picker, b, queue, stale)
           IN  /\ st \in [Peers -> SUBSET Blocks]
               /\ \A c \in Peers : st[c] \subseteq queue[c]
  BY DEF PeersOk, cancel_block

\* The handlers.
LEMMA HandlerSteps ==
    ASSUME FlowOk, NEW i \in 1..Len(jobs), call_job_handler(i)
    PROVE  FlowOk'
<1> USE DEF FlowOk
<1> DEFINE p == jobs[i].piece
<1>1. /\ setting' = setting /\ disk' = disk /\ faults' = faults /\ asked' = asked
      /\ changed' = changed /\ NoteOrder(i)
  BY DEF call_job_handler, counts
<1>2. /\ p \in Pieces
      /\ jobs[i].kind = "write" => /\ jobs[i].block \in Blocks
                                   /\ jobs[i].block[1] = p
  BY JobAt
<1>3. SettingOk' /\ disk' \in [Blocks -> Contents]
  BY <1>1 DEF SettingOk, NotSetting, JobsOk
<1>4. late' \subseteq Pieces
  BY <1>1, <1>2 DEF NoteOrder, HistoryOk
<1>5. failed' \in {failed, failed \cup {p}}
  BY DEF call_job_handler, on_disk_write_complete, WriteOk, WriteError, on_piece_verified,
         HashError, HashResult, on_piece_sync, on_piece_fail_sync
<1>6. HistoryOk'
  BY <1>1, <1>2, <1>4, <1>5 DEF HistoryOk
<1>7. <<>> \in Seq(AllJobs) /\ <<PieceJob("clear", p)>> \in Seq(AllJobs)
      /\ <<PieceJob("clear_failed", p)>> \in Seq(AllJobs)
  <2>1. PieceJob("clear", p) \in AllJobs /\ PieceJob("clear_failed", p) \in AllJobs
    BY <1>2, NewJobs
  <2> QED BY <2>1
<1>8. \E new \in {<<>>, <<PieceJob("clear", p)>>, <<PieceJob("clear_failed", p)>>} : Handled(i, new)
  BY DEF call_job_handler, on_disk_write_complete, WriteOk, WriteError, on_piece_verified,
         HashError, HashResult, piece_failed, on_piece_sync, on_piece_fail_sync
<1>9. JobsOk'
  <2>1. jobs' \in Seq(AllJobs)
    BY <1>7, <1>8, HandledQueue
  <2> QED BY <1>3, <2>1 DEF JobsOk
<1>10. /\ mode \in {"download", "upload", "paused"} /\ stale \in [Peers -> SUBSET Blocks]
       /\ \A c \in Peers : stale[c] \subseteq queue[c]
  BY DEF PeersOk
<1>11. CASE on_disk_write_complete(i)
  <2>1. jobs[i].block \in Blocks
    BY <1>2, <1>11 DEF on_disk_write_complete
  <2>2. CASE WriteOk(i)
    <3>1. PickerOk(picker')
      BY <2>1, <2>2, FinishedKeeps DEF WriteOk
    <3>2. PeersOk'
      BY <2>2 DEF WriteOk, peerVars, PeersOk
    <3> QED BY <1>3, <1>6, <1>9, <3>1, <3>2
  <2>3. CASE WriteError(i)
    <3> DEFINE b == jobs[i].block
               st == cancel_block(picker, b, queue, stale)
               pk == write_failed(picker, b)
    <3>1. Consequence(pk, st)
      BY <2>3 DEF WriteError
    <3>2. st \in [Peers -> SUBSET Blocks] /\ \A c \in Peers : st[c] \subseteq queue[c]
      BY <2>1, CancelTypes
    <3>3. PickerOk(pk)
      BY <2>1, FailedWriteKeeps
    <3> HIDE DEF st, pk
    <3>4. PeersOk' /\ picker' = pk
      BY <3>1, <3>2, ConsequenceTypes
    <3> QED BY <1>3, <1>6, <1>9, <3>3, <3>4
  <2> QED BY <1>11, <2>2, <2>3 DEF on_disk_write_complete
<1>12. CASE on_piece_verified(i)
  <2>1. CASE HashError(i)
    <3>1. CASE mode' = mode /\ UNCHANGED <<picker, peerVars>>
      BY <1>3, <1>6, <1>9, <3>1 DEF PeersOk, peerVars
    <3>2. CASE mode' = "paused" /\ Drop(picker, stale, Peers)
      <4>1. mode' \in {"download", "upload", "paused"}
        BY <3>2
      <4>2. PeersOk' /\ picker' = picker
        BY <1>10, <3>2, <4>1, DropTypes
      <4> QED BY <1>3, <1>6, <1>9, <4>2
    <3> QED BY <2>1, <3>1, <3>2 DEF HashError
  <2>2. CASE HashResult(i)
    <3>1. CASE UNCHANGED <<picker, mode, peerVars>>
      BY <1>3, <1>6, <1>9, <3>1 DEF PeersOk, peerVars
    <3>2. CASE picker' = piece_passed(picker, p) /\ UNCHANGED <<mode, peerVars>>
      <4>1. PickerOk(picker')
        BY <1>2, <3>2, PassedKeeps
      <4> QED BY <1>3, <1>6, <1>9, <3>2, <4>1 DEF PeersOk, peerVars
    <3>3. CASE piece_failed(i)
      <4> DEFINE pk == lock_piece(picker, p)
      <4>1. PICK banned \in SUBSET Peers : Drop(pk, stale, banned)
        BY <3>3 DEF piece_failed
      <4>2. PickerOk(pk)
        BY <1>2, LockKeeps
      <4>3. mode' \in {"download", "upload", "paused"}
        BY <1>10, <3>3 DEF piece_failed
      <4> HIDE DEF pk
      <4>4. PeersOk' /\ picker' = pk
        BY <1>10, <4>1, <4>3, DropTypes
      <4> QED BY <1>3, <1>6, <1>9, <4>2, <4>4
    <3> QED BY <2>2, <3>1, <3>2, <3>3 DEF HashResult
  <2> QED BY <1>12, <2>1, <2>2 DEF on_piece_verified
<1>13. CASE on_piece_sync(i)
  <2>1. PickerOk(picker')
    BY <1>2, <1>13, RestartKeeps DEF on_piece_sync
  <2>2. PeersOk'
    BY <1>13 DEF on_piece_sync, peerVars, PeersOk
  <2> QED BY <1>3, <1>6, <1>9, <2>1, <2>2
<1>14. CASE on_piece_fail_sync(i)
  <2>1. PickerOk(picker') /\ PeersOk'
    BY <1>14 DEF on_piece_fail_sync, peerVars, PeersOk
  <2> QED BY <1>3, <1>6, <1>9, <2>1
<1> QED BY <1>11, <1>12, <1>13, <1>14 DEF call_job_handler

\* Every step keeps the types.
LEMMA NextFlow == FlowOk /\ [Next]_vars => FlowOk'
<1> SUFFICES ASSUME FlowOk, [Next]_vars PROVE FlowOk'
  OBVIOUS
<1>1. CASE Network
  <2>1. Idle
    BY <1>1 DEF Network
  <2> QED BY <1>1, <2>1, PeerSteps, LoopSteps DEF Network
<1>2. CASE Loops
  BY <1>2, LoopSteps DEF Loops
<1>3. CASE Disk
  BY <1>3, DiskSteps DEF Disk
<1>4. CASE Handlers
  BY <1>4, HandlerSteps DEF Handlers
<1>5. CASE UNCHANGED vars
  <2>1. PickerOk(picker') /\ PeersOk' /\ SettingOk' /\ JobsOk' /\ HistoryOk'
    BY <1>5 DEF FlowOk, vars, peerVars, history, counts, PeersOk, SettingOk, NotSetting,
                JobsOk, HistoryOk
  <2> QED BY <2>1 DEF FlowOk
<1> QED BY <1>1, <1>2, <1>3, <1>4, <1>5 DEF Next

\* The types and totals hold in every state.
LEMMA FlowInvariant == Spec => []FlowOk
<1> QED BY InitFlow, NextFlow, PTL DEF Spec

\* FlowOk says at least what TypeOK does.
LEMMA FlowTypes == FlowOk => TypeOK
<1> SUFFICES ASSUME FlowOk PROVE TypeOK
  OBVIOUS
<1>1. IsPicker(picker)
  BY PickerTypes DEF FlowOk
<1>2. setting \in [want : SUBSET Pieces, index : 0..num_pieces]
  <2>1. num_pieces \in Nat /\ Pieces \subseteq 0..num_pieces
    BY Layout DEF Pieces
  <2> QED BY <2>1 DEF FlowOk, SettingOk, NotSetting
<1>3. \A i \in 1..Len(jobs) : jobs[i].ret \in {"pending", "ok", "error", "mismatch"}
  BY JobAt DEF FlowOk, Rets
<1> QED BY <1>1, <1>2, <1>3 DEF TypeOK, FlowOk, PeersOk, JobsOk, HistoryOk

\* Every variable stays in its type whatever peers and disks do: no counter of
\* the picker (m_num_passed, m_num_filtered, the counters of a downloading_piece)
\* is decremented below zero, also after disk errors and handlers out of order.
THEOREM FlowTypeCorrect == Spec => []TypeOK
<1> QED BY FlowInvariant, FlowTypes, PTL

\* The number of pieces that are there, those filtered and the two cursors of
\* the picker agree with the pieces in every state, whatever goes wrong.
THEOREM TotalsAgree == Spec => []CountsAgree(picker)
<1>1. FlowOk => CountsAgree(picker)
  BY PickerTypes DEF FlowOk
<1> QED BY <1>1, FlowInvariant, PTL
=============================================================================
