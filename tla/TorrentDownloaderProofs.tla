---------------------- MODULE TorrentDownloaderProofs ----------------------
(***************************************************************************)
(* Proofs about TorrentDownloader for any number of workers, files, blocks  *)
(* and pieces.                                                              *)
(***************************************************************************)
EXTENDS TorrentDownloader, TLAPS

USE DEF Files

\* A block posted to the main queue goes to its end.
LEMMA AppendFacts ==
    ASSUME NEW S, NEW q \in Seq(S), NEW e \in S
    PROVE  /\ Append(q, e) \in Seq(S)
           /\ Len(Append(q, e)) = Len(q) + 1
           /\ \A i \in 1..Len(q) : Append(q, e)[i] = q[i]
           /\ Append(q, e)[Len(q) + 1] = e
  OBVIOUS

\* Running the oldest block of the main queue moves the others up by one.
LEMMA TailFacts ==
    ASSUME NEW S, NEW q \in Seq(S), q # <<>>
    PROVE  /\ Tail(q) \in Seq(S)
           /\ Len(q) \in Nat \ {0}
           /\ Len(Tail(q)) = Len(q) - 1
           /\ \A i \in 1..Len(Tail(q)) : Tail(q)[i] = q[i + 1]
           /\ Head(q) = q[1]
  OBVIOUS

\* Every step keeps every variable in its type, and so the index that walks
\* torrentInfo.files in the priority loop stays inside it.
THEOREM TypeCorrect == Spec => []TypeOK
<1>1. 1 \in Files
  BY LayoutAssumption
<1>2. Init => TypeOK
  <2> SUFFICES ASSUME Init PROVE TypeOK
    OBVIOUS
  <2>1. disk \in SUBSET Pieces /\ progress \in [Files -> Ratio]
    BY LayoutAssumption DEF Init, OpenPage, Ratio
  <2>2. hashFails \in 0..MaxHashFails
    BY BoundsAssumption DEF Init
  <2>3. /\ downloading \in BOOLEAN /\ selected \in SUBSET Files
        /\ page \in BOOLEAN /\ bar \in {"less", "full"}
    BY DEF Init, initWithTorrent
  <2>4. rows \in [Files -> Ratio] /\ mainQ \in Seq(QueuedBlock)
    BY <2>1 DEF Init
  <2>5. idx \in [Workers -> Files]
    BY <1>1 DEF Init
  <2> QED
    BY <2>1, <2>2, <2>3, <2>4, <2>5 DEF Init, TypeOK
<1>3. TypeOK /\ [Next]_vars => TypeOK'
  <2> SUFFICES ASSUME TypeOK, [Next]_vars PROVE TypeOK'
    OBVIOUS
  <2> USE DEF TypeOK
  <2>1. ASSUME NEW f \in Files, NEW w \in Workers, didSelectRow(f, w)
        PROVE  TypeOK'
    BY <2>1 DEF didSelectRow, downloadFileAtIndexes, startDownload,
                sessionVars, ActivePC
  <2>2. CASE PopPage
    BY <2>2 DEF PopPage, workerVars, sessionVars
  <2>3. CASE progressDidUpdate
    BY <2>3 DEF progressDidUpdate, reloadData, workerVars, sessionVars
  <2>4. CASE btDownloaderDidFinishDownload
    <3>1. mainQ' \in Seq(QueuedBlock)
      BY <2>4, TailFacts DEF btDownloaderDidFinishDownload
    <3> QED
      BY <2>4, <3>1 DEF btDownloaderDidFinishDownload, reloadData, workerVars,
                        sessionVars
  <2>5. ASSUME NEW w \in Workers, LoadTorrent(w)
        PROVE  TypeOK'
    BY <2>5 DEF LoadTorrent, Goto, Leave, mainVars, sessionVars, ActivePC
  <2>6. ASSUME NEW w \in Workers, AddTorrent(w)
        PROVE  TypeOK'
    <3>1. /\ pc' \in [Workers -> ActivePC \cup {"idle", "teardown", "done"}]
          /\ outcome' \in [Workers -> {"none", "error", "seed", "finish", "unheard"}]
      BY <2>6 DEF AddTorrent, Goto, Leave, ActivePC
    <3>2. idx' \in [Workers -> Files]
      BY <2>6, <1>1 DEF AddTorrent
    <3>3. /\ phase' \in [Workers -> {"none", "resume", "checking", "active"}]
          /\ got' \in [Workers -> SUBSET Blocks]
      <4>1. /\ phase \in [Workers -> {"none", "resume", "checking", "active"}]
            /\ got \in [Workers -> SUBSET Blocks]
        OBVIOUS
      <4> HIDE DEF TypeOK
      <4>2. phase' \in [Workers -> {"none", "resume", "checking", "active"}]
        BY <2>6, <4>1 DEF AddTorrent
      <4>3. got' \in [Workers -> SUBSET Blocks]
        BY <2>6, <4>1 DEF AddTorrent, PaddingBlocks
      <4> QED BY <4>2, <4>3
    <3>4. have' \in [Workers -> SUBSET Pieces]
      <4>1. have \in [Workers -> SUBSET Pieces] /\ PaddingPieces \in SUBSET Pieces
        BY DEF PaddingPieces
      <4> HIDE DEF TypeOK
      <4> QED BY <2>6, <4>1 DEF AddTorrent
    <3> QED
      BY <2>6, <3>1, <3>2, <3>3, <3>4 DEF AddTorrent, mainVars
  <2>7. ASSUME NEW w \in Workers, FilePriority(w)
        PROVE  TypeOK'
    <3>1. pc' \in [Workers -> ActivePC \cup {"idle", "teardown", "done"}]
      BY <2>7 DEF FilePriority, Goto, ActivePC, Polling
    <3>2. idx' \in [Workers -> Files]
      <4>1. NumFiles \in Nat /\ idx \in [Workers -> 1..NumFiles]
        BY LayoutAssumption
      <4>2. idx[w] < NumFiles => idx[w] + 1 \in 1..NumFiles
        BY <4>1
      <4> QED
        BY <2>7, <4>1, <4>2 DEF FilePriority, MoreFiles
    <3>3. want' \in [Workers -> SUBSET Files]
      BY <2>7 DEF FilePriority, set_file_priority
    <3> QED
      BY <2>7, <3>1, <3>2, <3>3 DEF FilePriority, mainVars
  <2>8. ASSUME NEW w \in Workers, TestSeed(w)
        PROVE  TypeOK'
    BY <2>8 DEF TestSeed, Goto, Leave, mainVars, sessionVars, ActivePC, Polling
  <2>9. ASSUME NEW w \in Workers, Status(w)
        PROVE  TypeOK'
    <3>1. StatusDone(w) \in BOOLEAN
      BY DEF StatusDone
    <3> QED
      BY <2>9, <3>1 DEF Status, Goto, mainVars, sessionVars, ActivePC, Polling
  <2>10. ASSUME NEW w \in Workers, FileProgress(w)
         PROVE  TypeOK'
    <3>1. \A f \in Files : FileRatio(w, f) \in Ratio
      BY DEF FileRatio, Ratio
    <3> QED
      BY <2>10, <3>1 DEF FileProgress, Goto, mainVars, sessionVars, ActivePC,
                         Polling
  <2>11. ASSUME NEW w \in Workers, PostProgress(w)
         PROVE  TypeOK'
    <3>1. ProgressBlock(w, snap[w]) \in QueuedBlock
      BY DEF ProgressBlock, QueuedBlock
    <3>2. mainQ' \in {mainQ, Append(mainQ, ProgressBlock(w, snap[w]))}
      BY <2>11 DEF PostProgress
    <3>3. mainQ' \in Seq(QueuedBlock)
      <4>1. mainQ \in Seq(QueuedBlock)
        OBVIOUS
      <4> HIDE DEF TypeOK
      <4> QED
        BY <3>1, <3>2, <4>1, AppendFacts
    <3>4. pc' \in [Workers -> ActivePC \cup {"idle", "teardown", "done"}]
      BY <2>11 DEF PostProgress, Goto, ActivePC, Polling
    <3> QED
      BY <2>11, <3>3, <3>4 DEF PostProgress, mainVars, sessionVars
  <2>12. ASSUME NEW w \in Workers, PostFinish(w)
         PROVE  TypeOK'
    <3>1. FinishBlock(w) \in QueuedBlock
      BY DEF FinishBlock, QueuedBlock
    <3>2. mainQ' \in {mainQ, Append(mainQ, FinishBlock(w))}
      BY <2>12 DEF PostFinish
    <3>3. mainQ' \in Seq(QueuedBlock)
      <4>1. mainQ \in Seq(QueuedBlock)
        OBVIOUS
      <4> HIDE DEF TypeOK
      <4> QED
        BY <3>1, <3>2, <4>1, AppendFacts
    <3>4. /\ pc' \in [Workers -> ActivePC \cup {"idle", "teardown", "done"}]
          /\ outcome' \in [Workers -> {"none", "error", "seed", "finish", "unheard"}]
      BY <2>12 DEF PostFinish, Goto, Leave
    <3> QED
      BY <2>12, <3>3, <3>4 DEF PostFinish, mainVars, sessionVars
  <2>13. ASSUME NEW w \in Workers, Sleep(w)
         PROVE  TypeOK'
    BY <2>13 DEF Sleep, Goto, mainVars, sessionVars, ActivePC, Polling
  <2>14. ASSUME NEW w \in Workers, Teardown(w)
         PROVE  TypeOK'
    BY <2>14 DEF Teardown, Goto, mainVars
  <2>15. ASSUME NEW w \in Workers, StartCheck(w)
         PROVE  TypeOK'
    BY <2>15 DEF StartCheck, mainVars, workerVars
  <2>16. ASSUME NEW w \in Workers, FilesChecked(w)
         PROVE  TypeOK'
    BY <2>16 DEF FilesChecked, mainVars, workerVars
  <2>17. ASSUME NEW w \in Workers, NEW b \in Blocks, BlockFinished(w, b)
         PROVE  TypeOK'
    BY <2>17 DEF BlockFinished, mainVars, workerVars
  <2>18. ASSUME NEW w \in Workers, NEW p \in Pieces, CheckPiece(w, p)
         PROVE  TypeOK'
    BY <2>18 DEF CheckPiece, BlocksOfPiece, mainVars, workerVars
  <2>19. ASSUME NEW w \in Workers, NEW p \in Pieces, PiecePassed(w, p)
         PROVE  TypeOK'
    BY <2>19 DEF PiecePassed, mainVars, workerVars
  <2>20. ASSUME NEW w \in Workers, NEW p \in Pieces, PieceFailed(w, p)
         PROVE  TypeOK'
    <3>1. hashFails' \in 0..MaxHashFails
      BY <2>20, BoundsAssumption DEF PieceFailed
    <3> QED
      BY <2>20, <3>1 DEF PieceFailed, BlocksOfPiece, mainVars, workerVars
  <2>21. CASE UNCHANGED vars
    BY <2>21 DEF vars, mainVars, workerVars, sessionVars
  <2> QED
    BY <2>1, <2>2, <2>3, <2>4, <2>5, <2>6, <2>7, <2>8, <2>9, <2>10, <2>11,
       <2>12, <2>13, <2>14, <2>15, <2>16, <2>17, <2>18, <2>19, <2>20, <2>21
    DEF Next, MainThread, Worker, Session
<1> QED
  BY <1>2, <1>3, PTL DEF Spec
-----------------------------------------------------------------------------
(***************************************************************************)
(* The slot.  A worker in the loop, or a finish block on its way, holds the *)
(* downloader; nothing else may, and every queued block is the holder's.    *)
(* The conjunction is inductive: starting a download needs the slot free,   *)
(* which the conjunction turns into an empty queue and an idle pool.        *)
(***************************************************************************)
SlotInv == SlotExclusive /\ NoStaleCallbacks

\* The steps of a worker that touch neither the main queue nor the flag.
QuietStep(w) ==
    \/ LoadTorrent(w) \/ AddTorrent(w) \/ FilePriority(w) \/ TestSeed(w)
    \/ Status(w) \/ FileProgress(w) \/ Sleep(w) \/ Teardown(w)

\* A session's threads touch nothing of the main thread or the workers.
LEMMA SessionFrame ==
    ASSUME NEW w \in Workers, Session(w)
    PROVE  UNCHANGED <<mainVars, mainQ, progress, workerVars>>
  BY DEF Session, StartCheck, FilesChecked, BlockFinished, CheckPiece,
         PiecePassed, PieceFailed

\* A quiet step moves one worker on, and never from outside the loop into it.
LEMMA QuietFrame ==
    ASSUME TypeOK, NEW w \in Workers, QuietStep(w)
    PROVE  /\ UNCHANGED <<downloading, selected, page, bar, rows, mainQ>>
           /\ \A v \in Workers : v # w => pc'[v] = pc[v]
           /\ \A v \in Workers : Active(v)' => Active(v)
<1>1. pc \in [Workers -> ActivePC \cup {"idle", "teardown", "done"}]
  BY DEF TypeOK
<1>2. UNCHANGED <<downloading, selected, page, bar, rows, mainQ>>
  BY DEF QuietStep, LoadTorrent, AddTorrent, FilePriority, TestSeed, Status,
         FileProgress, Sleep, Teardown, mainVars
<1>3. \/ pc' = pc
      \/ pc[w] \in ActivePC /\ \E next : pc' = [pc EXCEPT ![w] = next]
      \/ pc' = [pc EXCEPT ![w] = "done"]
  BY DEF QuietStep, LoadTorrent, AddTorrent, FilePriority, TestSeed, Status,
         FileProgress, Sleep, Teardown, Goto, Leave, ActivePC, Polling
<1>4. \A v \in Workers : v # w => pc'[v] = pc[v]
  BY <1>1, <1>3
<1>5. Active(w)' => Active(w)
  BY <1>1, <1>3 DEF Active, ActivePC, Polling
<1> QED
  BY <1>2, <1>4, <1>5 DEF Active

\* The slot invariant survives any step that leaves the queue and the flag
\* alone and brings no worker into the loop.
LEMMA SlotFrame ==
    ASSUME SlotInv, UNCHANGED <<mainQ, downloading>>,
           \A v \in Workers : Active(v)' => Active(v)
    PROVE  SlotInv'
  BY DEF SlotInv, SlotExclusive, NoStaleCallbacks

\* A row is tapped: the queue was empty and no worker in the loop.
LEMMA SlotSelect ==
    ASSUME TypeOK, SlotInv, NEW f \in Files, NEW w \in Workers,
           didSelectRow(f, w)
    PROVE  SlotInv'
<1>1. /\ ~downloading /\ downloading' = TRUE /\ mainQ' = mainQ
      /\ pc' = [pc EXCEPT ![w] = "load"]
  BY DEF didSelectRow, downloadFileAtIndexes, startDownload
<1>2. \A v \in Workers : ~Active(v)
  BY <1>1 DEF SlotInv, SlotExclusive
<1>3. mainQ = <<>>
  BY <1>1 DEF SlotInv, NoStaleCallbacks
<1>4. \A v \in Workers : Active(v)' => v = w
  BY <1>1, <1>2 DEF TypeOK, Active
<1>5. Len(mainQ') = 0
  BY <1>1, <1>3
<1> QED
  BY <1>1, <1>3, <1>4, <1>5 DEF SlotInv, SlotExclusive, NoStaleCallbacks

\* A progress block runs: the rest of the queue moves up.
LEMMA SlotProgress ==
    ASSUME TypeOK, SlotInv, progressDidUpdate
    PROVE  SlotInv'
<1>1. /\ mainQ # <<>> /\ mainQ' = Tail(mainQ)
      /\ downloading' = downloading /\ pc' = pc
  BY DEF progressDidUpdate, workerVars
<1>2. mainQ \in Seq(QueuedBlock)
  BY DEF TypeOK
<1>3. /\ Len(mainQ) \in Nat \ {0} /\ Len(mainQ') = Len(mainQ) - 1
      /\ \A i \in 1..Len(mainQ') : mainQ'[i] = mainQ[i + 1]
      /\ \A i \in 1..Len(mainQ') : i + 1 \in 1..Len(mainQ)
  BY <1>1, <1>2, TailFacts
<1>4. \A v \in Workers : Active(v)' <=> Active(v)
  BY <1>1 DEF Active
<1>5. SlotExclusive'
  BY <1>1, <1>3, <1>4 DEF SlotInv, SlotExclusive
<1>6. NoStaleCallbacks'
  <2>1. \A i, j \in 1..Len(mainQ') : mainQ'[i].w = mainQ'[j].w
    BY <1>3 DEF SlotInv, NoStaleCallbacks
  <2>2. \A i \in 1..Len(mainQ'), w \in Workers : Active(w)' => mainQ'[i].w = w
    BY <1>3, <1>4 DEF SlotInv, NoStaleCallbacks
  <2>3. downloading'
    BY <1>1 DEF SlotInv, NoStaleCallbacks
  <2>4. \A i \in 1..Len(mainQ') : mainQ'[i].kind = "finish" => i = Len(mainQ')
    <3> SUFFICES ASSUME NEW i \in 1..Len(mainQ'), mainQ'[i].kind = "finish"
                 PROVE  i = Len(mainQ')
      OBVIOUS
    <3>1. i + 1 \in 1..Len(mainQ) /\ mainQ[i + 1].kind = "finish"
      BY <1>3
    <3>2. i + 1 = Len(mainQ)
      BY <3>1 DEF SlotInv, NoStaleCallbacks
    <3> QED
      BY <1>3, <3>2
  <2> QED
    BY <2>1, <2>2, <2>3, <2>4 DEF NoStaleCallbacks
<1> QED
  BY <1>5, <1>6 DEF SlotInv

\* The finish block runs: it was the last one and no worker is in the loop.
LEMMA SlotFinish ==
    ASSUME TypeOK, SlotInv, btDownloaderDidFinishDownload
    PROVE  SlotInv'
<1>1. /\ mainQ # <<>> /\ Head(mainQ).kind = "finish" /\ mainQ' = Tail(mainQ)
      /\ pc' = pc
  BY DEF btDownloaderDidFinishDownload, workerVars
<1>2. mainQ \in Seq(QueuedBlock)
  BY DEF TypeOK
<1>3. /\ Len(mainQ) \in Nat \ {0} /\ Len(mainQ') = Len(mainQ) - 1
      /\ Head(mainQ) = mainQ[1] /\ mainQ' \in Seq(QueuedBlock)
  BY <1>1, <1>2, TailFacts
<1>4. 1 \in 1..Len(mainQ) /\ mainQ[1].kind = "finish"
  BY <1>1, <1>3
<1>5. Len(mainQ) = 1 /\ \A v \in Workers : ~Active(v)
  BY <1>4 DEF SlotInv, SlotExclusive, NoStaleCallbacks
<1>6. Len(mainQ') = 0 /\ mainQ' = <<>>
  BY <1>3, <1>5
<1>7. \A v \in Workers : ~Active(v)'
  BY <1>1, <1>5 DEF Active
<1> QED
  BY <1>6, <1>7 DEF SlotInv, SlotExclusive, NoStaleCallbacks

\* A worker posts its progress: no finish block is queued, and every queued
\* block is its own.
LEMMA SlotPostProgress ==
    ASSUME TypeOK, SlotInv, NEW w \in Workers, PostProgress(w)
    PROVE  SlotInv'
<1>1. /\ downloading' = downloading /\ pc[w] = "notify"
      /\ pc' = [pc EXCEPT ![w] = "check"]
      /\ mainQ' \in {mainQ, Append(mainQ, ProgressBlock(w, snap[w]))}
  BY DEF PostProgress, mainVars, Goto
<1>2. pc \in [Workers -> ActivePC \cup {"idle", "teardown", "done"}]
  BY DEF TypeOK
<1>3. Active(w) /\ \A v \in Workers : Active(v)' <=> Active(v)
  BY <1>1, <1>2 DEF Active, ActivePC, Polling
<1>4. CASE mainQ' = mainQ
  BY <1>1, <1>3, <1>4, SlotFrame
<1>5. CASE mainQ' = Append(mainQ, ProgressBlock(w, snap[w]))
  <2> DEFINE m == ProgressBlock(w, snap[w])
  <2>1. m \in QueuedBlock /\ m.kind = "progress" /\ m.w = w
    BY DEF TypeOK, ProgressBlock, QueuedBlock
  <2>2. mainQ \in Seq(QueuedBlock)
    BY DEF TypeOK
  <2> HIDE DEF m
  <2>3. /\ Len(mainQ) \in Nat /\ Len(mainQ') = Len(mainQ) + 1
        /\ \A i \in 1..Len(mainQ) : mainQ'[i] = mainQ[i]
        /\ mainQ'[Len(mainQ) + 1] = m
    BY <1>5, <2>1, <2>2, AppendFacts DEF m
  <2>4. \A i \in 1..Len(mainQ) : mainQ[i].w = w /\ mainQ[i].kind # "finish"
    BY <1>3 DEF SlotInv, SlotExclusive, NoStaleCallbacks
  <2>5. \A i \in 1..Len(mainQ') : mainQ'[i].w = w /\ mainQ'[i].kind # "finish"
    BY <2>1, <2>3, <2>4
  <2>6. downloading' /\ \A v \in Workers : Active(v)' => v = w
    BY <1>1, <1>3 DEF SlotInv, SlotExclusive
  <2> QED
    BY <2>5, <2>6 DEF SlotInv, SlotExclusive, NoStaleCallbacks
<1> QED
  BY <1>1, <1>4, <1>5

\* A worker posts the finish block and leaves the loop in one step: the slot
\* passes from the worker to the block.
LEMMA SlotPostFinish ==
    ASSUME TypeOK, SlotInv, NEW w \in Workers, PostFinish(w)
    PROVE  SlotInv'
<1>1. /\ downloading' = downloading /\ pc[w] = "check"
      /\ pc' = [pc EXCEPT ![w] = "teardown"]
      /\ mainQ' \in {mainQ, Append(mainQ, FinishBlock(w))}
  BY DEF PostFinish, mainVars, Goto, Leave
<1>2. pc \in [Workers -> ActivePC \cup {"idle", "teardown", "done"}]
  BY DEF TypeOK
<1>3. Active(w) /\ \A v \in Workers : Active(v)' => Active(v) /\ v # w
  BY <1>1, <1>2 DEF Active, ActivePC, Polling
<1>4. CASE mainQ' = mainQ
  BY <1>1, <1>3, <1>4, SlotFrame
<1>5. CASE mainQ' = Append(mainQ, FinishBlock(w))
  <2>1. FinishBlock(w) \in QueuedBlock /\ FinishBlock(w).w = w
    BY DEF FinishBlock, QueuedBlock
  <2>2. mainQ \in Seq(QueuedBlock)
    BY DEF TypeOK
  <2>3. /\ Len(mainQ) \in Nat /\ Len(mainQ') = Len(mainQ) + 1
        /\ \A i \in 1..Len(mainQ) : mainQ'[i] = mainQ[i]
        /\ mainQ'[Len(mainQ) + 1] = FinishBlock(w)
    BY <1>5, <2>1, <2>2, AppendFacts
  <2>4. \A i \in 1..Len(mainQ) : mainQ[i].w = w /\ mainQ[i].kind # "finish"
    BY <1>3 DEF SlotInv, SlotExclusive, NoStaleCallbacks
  <2>5. \A i \in 1..Len(mainQ') :
            mainQ'[i].w = w /\ (mainQ'[i].kind = "finish" => i = Len(mainQ'))
    BY <2>1, <2>3, <2>4
  <2>6. downloading' /\ \A v \in Workers : ~Active(v)'
    BY <1>1, <1>3 DEF SlotInv, SlotExclusive
  <2> QED
    BY <2>5, <2>6 DEF SlotInv, SlotExclusive, NoStaleCallbacks
<1> QED
  BY <1>1, <1>4, <1>5

\* startDownload never has two workers in its loop, and the callbacks of one
\* download never meet those of another, for any number of workers, files and
\* pieces and a main queue of any length.
THEOREM SlotSafe == Spec => [](SlotExclusive /\ NoStaleCallbacks)
<1>1. Init => SlotInv
  BY DEF Init, initWithTorrent, SlotInv, SlotExclusive, NoStaleCallbacks,
         Active, ActivePC, Polling
<1>2. TypeOK /\ SlotInv /\ [Next]_vars => SlotInv'
  <2> SUFFICES ASSUME TypeOK, SlotInv, [Next]_vars PROVE SlotInv'
    OBVIOUS
  <2>1. ASSUME NEW f \in Files, NEW w \in Workers, didSelectRow(f, w)
        PROVE  SlotInv'
    BY <2>1, SlotSelect
  <2>2. CASE PopPage
    BY <2>2, SlotFrame DEF PopPage, workerVars, Active
  <2>3. CASE progressDidUpdate
    BY <2>3, SlotProgress
  <2>4. CASE btDownloaderDidFinishDownload
    BY <2>4, SlotFinish
  <2>5. ASSUME NEW w \in Workers, QuietStep(w)
        PROVE  SlotInv'
    BY <2>5, QuietFrame, SlotFrame
  <2>6. ASSUME NEW w \in Workers, PostProgress(w)
        PROVE  SlotInv'
    BY <2>6, SlotPostProgress
  <2>7. ASSUME NEW w \in Workers, PostFinish(w)
        PROVE  SlotInv'
    BY <2>7, SlotPostFinish
  <2>8. ASSUME NEW w \in Workers, Session(w)
        PROVE  SlotInv'
    BY <2>8, SessionFrame, SlotFrame DEF mainVars, workerVars, Active
  <2>9. CASE UNCHANGED vars
    BY <2>9, SlotFrame DEF vars, mainVars, workerVars, Active
  <2> QED
    BY <2>1, <2>2, <2>3, <2>4, <2>5, <2>6, <2>7, <2>8, <2>9
    DEF Next, MainThread, Worker, QuietStep
<1>3. SlotInv => SlotExclusive /\ NoStaleCallbacks
  BY DEF SlotInv
<1> QED
  BY <1>1, <1>2, <1>3, TypeCorrect, PTL DEF Spec
-----------------------------------------------------------------------------
(***************************************************************************)
(* The selection.  The loop over the files has set the priorities below its *)
(* index, unless the torrent was a seed by then, and once a seed it stays   *)
(* one until its session ends; the selection the loop reads does not        *)
(* change, because a tap changes it only while no worker is in the loop     *)
(* (SlotInv).                                                               *)
(***************************************************************************)
PriorityOf(w) ==
    /\ pc[w] = "prio" /\ ~IsSeed(w) =>
         \A f \in Files : f < idx[w] => (f \in want[w] <=> f \in selected)
    /\ pc[w] \in Polling => want[w] = selected \/ (pc[w] = "test" /\ IsSeed(w))

PriorityInv == \A w \in Workers : PriorityOf(w)

\* A step keeps PriorityInv if it changes the state of one worker only and
\* establishes that worker's part.
LEMMA PriorityFrame ==
    ASSUME PriorityInv, NEW w \in Workers, selected' = selected,
           \A v \in Workers : v # w => /\ pc'[v] = pc[v] /\ idx'[v] = idx[v]
                                       /\ want'[v] = want[v]
                                       /\ IsSeed(v)' = IsSeed(v),
           PriorityOf(w)'
    PROVE  PriorityInv'
<1> SUFFICES ASSUME NEW v \in Workers PROVE PriorityOf(v)'
  BY DEF PriorityInv, PriorityOf
<1>1. CASE v = w
  BY <1>1
<1>2. CASE v # w
  BY <1>2 DEF PriorityInv, PriorityOf
<1> QED
  BY <1>1, <1>2

\* One turn of the priority loop; the last one has set all of the files.
LEMMA PriorityLoop ==
    ASSUME TypeOK, PriorityInv, NEW w \in Workers, FilePriority(w)
    PROVE  PriorityInv'
<1>1. /\ pc \in [Workers -> ActivePC \cup {"idle", "teardown", "done"}]
      /\ idx \in [Workers -> Files] /\ want \in [Workers -> SUBSET Files]
      /\ selected \in SUBSET Files
  BY DEF TypeOK
<1>2. /\ pc[w] = "prio" /\ selected' = selected /\ have' = have
      /\ want' = IF IsSeed(w) THEN want
                 ELSE [want EXCEPT ![w] = IF idx[w] \in selected
                                          THEN want[w] \cup {idx[w]}
                                          ELSE want[w] \ {idx[w]}]
      /\ \/ idx[w] < NumFiles /\ pc' = pc /\ idx' = [idx EXCEPT ![w] = idx[w] + 1]
         \/ ~(idx[w] < NumFiles) /\ pc' = [pc EXCEPT ![w] = "test"] /\ idx' = idx
  BY DEF FilePriority, set_file_priority, MoreFiles, Goto, mainVars
<1>3. \A v \in Workers : /\ IsSeed(v)' = IsSeed(v)
                         /\ v # w => /\ pc'[v] = pc[v] /\ idx'[v] = idx[v]
                                     /\ want'[v] = want[v]
  <2>1. \A v \in Workers : IsSeed(v)' = IsSeed(v)
    BY <1>2 DEF IsSeed
  <2>2. \A v \in Workers : v # w => /\ pc'[v] = pc[v] /\ idx'[v] = idx[v]
                                    /\ want'[v] = want[v]
    BY <1>1, <1>2
  <2> QED
    BY <2>1, <2>2
<1>4. CASE IsSeed(w)
  <2>1. pc'[w] \in {"prio", "test"} /\ IsSeed(w)'
    BY <1>1, <1>2, <1>3, <1>4
  <2>2. PriorityOf(w)'
    BY <2>1 DEF PriorityOf, Polling
  <2> QED
    BY <1>2, <1>3, <2>2, PriorityFrame
<1>5. CASE ~IsSeed(w)
  <2>1. \A f \in Files : f < idx[w] => (f \in want[w] <=> f \in selected)
    BY <1>2, <1>5 DEF PriorityInv, PriorityOf
  <2>2. want'[w] = IF idx[w] \in selected THEN want[w] \cup {idx[w]}
                                           ELSE want[w] \ {idx[w]}
    BY <1>1, <1>2, <1>5
  <2>3. \A f \in Files : f <= idx[w] => (f \in want'[w] <=> f \in selected)
    <3> SUFFICES ASSUME NEW f \in Files, f <= idx[w]
                 PROVE  f \in want'[w] <=> f \in selected
      OBVIOUS
    <3>1. CASE f = idx[w]
      BY <2>2, <3>1
    <3>2. CASE f # idx[w]
      <4>1. f < idx[w]
        BY <1>1, <3>2, LayoutAssumption
      <4> QED
        BY <2>1, <2>2, <3>2, <4>1
    <3> QED
      BY <3>1, <3>2
  <2>4. PriorityOf(w)'
    <3>1. CASE idx[w] < NumFiles /\ pc' = pc /\ idx' = [idx EXCEPT ![w] = idx[w] + 1]
      <4>1. pc'[w] = "prio" /\ idx'[w] = idx[w] + 1
        BY <1>1, <1>2, <3>1
      <4>2. \A f \in Files : f < idx'[w] => f <= idx[w]
        BY <1>1, <4>1, LayoutAssumption
      <4> QED
        BY <1>2, <2>3, <4>1, <4>2 DEF PriorityOf, Polling
    <3>2. CASE ~(idx[w] < NumFiles) /\ pc' = [pc EXCEPT ![w] = "test"] /\ idx' = idx
      <4>1. pc'[w] = "test" /\ \A f \in Files : f <= idx[w]
        BY <1>1, <3>2, LayoutAssumption
      <4>2. want'[w] \in SUBSET Files
        BY <1>1, <2>2
      <4>3. want'[w] = selected'
        BY <1>1, <1>2, <2>3, <4>1, <4>2
      <4> QED
        BY <4>1, <4>3 DEF PriorityOf
    <3> QED
      BY <1>2, <3>1, <3>2
  <2> QED
    BY <1>2, <1>3, <2>4, PriorityFrame
<1> QED
  BY <1>4, <1>5

\* The other steps of a worker: they enter the priority loop at its first
\* file, or stay in the polling loop, or leave.
LEMMA PriorityOther ==
    ASSUME TypeOK, PriorityInv, NEW w \in Workers,
           \/ LoadTorrent(w) \/ AddTorrent(w) \/ TestSeed(w) \/ Status(w)
           \/ FileProgress(w) \/ PostProgress(w) \/ PostFinish(w) \/ Sleep(w)
           \/ Teardown(w)
    PROVE  PriorityInv'
<1>1. /\ pc \in [Workers -> ActivePC \cup {"idle", "teardown", "done"}]
      /\ idx \in [Workers -> Files] /\ want \in [Workers -> SUBSET Files]
      /\ have \in [Workers -> SUBSET Pieces]
  BY DEF TypeOK
<1>2. selected' = selected
  BY DEF LoadTorrent, AddTorrent, TestSeed, Status, FileProgress, PostProgress,
         PostFinish, Sleep, Teardown, mainVars
<1>3. \/ pc' = [pc EXCEPT ![w] = "prio"] /\ idx' = [idx EXCEPT ![w] = 1]
         /\ want' = want
      \/ pc[w] \in Polling /\ (pc[w] = "test" => ~IsSeed(w))
         /\ want' = want /\ idx' = idx
         /\ \E next \in Polling : pc' = [pc EXCEPT ![w] = next]
      \/ (\E next \in {"add", "teardown", "done"} : pc' = [pc EXCEPT ![w] = next])
         /\ idx' = idx /\ \E x : want' = [want EXCEPT ![w] = x]
  <2>1. CASE LoadTorrent(w)
    BY <2>1, <1>1 DEF LoadTorrent, Goto, Leave, sessionVars
  <2>2. CASE AddTorrent(w)
    BY <2>2, <1>1 DEF AddTorrent, Goto, Leave
  <2>3. CASE TestSeed(w)
    BY <2>3, <1>1 DEF TestSeed, Goto, Leave, sessionVars, Polling
  <2>4. CASE Status(w)
    BY <2>4 DEF Status, Goto, sessionVars, Polling
  <2>5. CASE FileProgress(w)
    BY <2>5 DEF FileProgress, Goto, sessionVars, Polling
  <2>6. CASE PostProgress(w)
    BY <2>6 DEF PostProgress, Goto, sessionVars, Polling
  <2>7. CASE PostFinish(w)
    BY <2>7, <1>1 DEF PostFinish, Goto, Leave, sessionVars
  <2>8. CASE Sleep(w)
    BY <2>8 DEF Sleep, Goto, sessionVars, Polling
  <2>9. CASE Teardown(w)
    BY <2>9 DEF Teardown, Goto
  <2> QED
    BY <2>1, <2>2, <2>3, <2>4, <2>5, <2>6, <2>7, <2>8, <2>9
<1>4. \A v \in Workers : v # w => /\ pc'[v] = pc[v] /\ idx'[v] = idx[v]
                                  /\ want'[v] = want[v]
                                  /\ IsSeed(v)' = IsSeed(v)
  <2>1. \A v \in Workers : v # w => /\ pc'[v] = pc[v] /\ idx'[v] = idx[v]
                                    /\ want'[v] = want[v]
    BY <1>1, <1>3
  <2>2. have' = have \/ \E x : have' = [have EXCEPT ![w] = x]
    BY DEF LoadTorrent, AddTorrent, TestSeed, Status, FileProgress,
           PostProgress, PostFinish, Sleep, Teardown, sessionVars
  <2>3. \A v \in Workers : v # w => have'[v] = have[v]
    BY <1>1, <2>2
  <2> QED
    BY <2>1, <2>3 DEF IsSeed
<1>5. PriorityOf(w)'
  <2>1. CASE pc' = [pc EXCEPT ![w] = "prio"] /\ idx' = [idx EXCEPT ![w] = 1]
    <3>1. pc'[w] = "prio" /\ idx'[w] = 1
      BY <1>1, <2>1
    <3>2. \A f \in Files : ~(f < 1)
      BY LayoutAssumption
    <3> QED
      BY <3>1, <3>2 DEF PriorityOf, Polling
  <2>2. CASE /\ pc[w] \in Polling /\ (pc[w] = "test" => ~IsSeed(w))
             /\ want' = want
             /\ \E next \in Polling : pc' = [pc EXCEPT ![w] = next]
    <3>1. pc'[w] \in Polling
      BY <1>1, <2>2
    <3>2. want'[w] = selected'
      BY <1>2, <2>2 DEF PriorityInv, PriorityOf
    <3> QED
      BY <3>1, <3>2 DEF PriorityOf, Polling
  <2>3. CASE \E next \in {"add", "teardown", "done"} : pc' = [pc EXCEPT ![w] = next]
    <3>1. pc'[w] \in {"add", "teardown", "done"}
      BY <1>1, <2>3
    <3> QED
      BY <3>1 DEF PriorityOf, Polling
  <2> QED
    BY <1>3, <2>1, <2>2, <2>3
<1> QED
  BY <1>2, <1>4, <1>5, PriorityFrame

\* Whenever a worker reads or acts on what its session reports, the session
\* wants exactly the files the page has selected, for any number of files and
\* however the priority loop, the main thread and the session's check of the
\* files interleave; a session that dropped the calls as a seed is at the test
\* that ends the loop.
THEOREM SelectionKept == Spec => []PrioritiesFollowSelection
<1>1. Init => PriorityInv
  BY DEF Init, PriorityInv, PriorityOf, Polling
<1>2. TypeOK /\ SlotExclusive /\ PriorityInv /\ [Next]_vars => PriorityInv'
  <2> SUFFICES ASSUME TypeOK, SlotExclusive, PriorityInv, [Next]_vars
               PROVE  PriorityInv'
    OBVIOUS
  <2>1. ASSUME NEW f \in Files, NEW w \in Workers, didSelectRow(f, w)
        PROVE  PriorityInv'
    <3>1. ~downloading /\ pc' = [pc EXCEPT ![w] = "load"]
      BY <2>1 DEF didSelectRow, downloadFileAtIndexes, startDownload
    <3>2. \A v \in Workers : ~Active(v)
      BY <3>1 DEF SlotExclusive
    <3>3. \A v \in Workers : pc'[v] = "load" \/ pc'[v] = pc[v]
      BY <3>1 DEF TypeOK
    <3> QED
      BY <3>2, <3>3 DEF PriorityInv, PriorityOf, Active, ActivePC, Polling
  <2>2. CASE PopPage \/ progressDidUpdate \/ btDownloaderDidFinishDownload
    <3>1. UNCHANGED <<pc, idx, want, selected, have>>
      BY <2>2 DEF PopPage, progressDidUpdate, btDownloaderDidFinishDownload,
                  workerVars, sessionVars
    <3> QED
      BY <3>1 DEF PriorityInv, PriorityOf, IsSeed
  <2>3. ASSUME NEW w \in Workers, Worker(w)
        PROVE  PriorityInv'
    BY <2>3, PriorityLoop, PriorityOther DEF Worker
  <2>4. ASSUME NEW w \in Workers, Session(w)
        PROVE  PriorityInv'
    <3>1. UNCHANGED <<pc, idx, want, selected>>
      BY <2>4 DEF Session, StartCheck, FilesChecked, BlockFinished, CheckPiece,
                  PiecePassed, PieceFailed, mainVars, workerVars
    <3>2. \A v \in Workers : IsSeed(v) => IsSeed(v)'
      <4>1. have' = have \/ \E p \in Pieces : have' = [have EXCEPT ![w] = have[w] \cup {p}]
        BY <2>4 DEF Session, StartCheck, FilesChecked, BlockFinished, CheckPiece,
                    PiecePassed, PieceFailed
      <4>2. have \in [Workers -> SUBSET Pieces]
        BY DEF TypeOK
      <4>3. \A v \in Workers : have'[v] = have[v]
                             \/ \E p \in Pieces : have'[v] = have[v] \cup {p}
        BY <4>1, <4>2
      <4>4. \A v \in Workers, p \in Pieces : have[v] = Pieces => have[v] \cup {p} = Pieces
        OBVIOUS
      <4> QED
        BY <4>3, <4>4 DEF IsSeed
    <3> QED
      BY <3>1, <3>2 DEF PriorityInv, PriorityOf
  <2>5. CASE UNCHANGED vars
    BY <2>5 DEF vars, mainVars, workerVars, sessionVars, PriorityInv, PriorityOf,
                IsSeed
  <2> QED
    BY <2>1, <2>2, <2>3, <2>4, <2>5 DEF Next, MainThread
<1>3. PriorityInv => PrioritiesFollowSelection
  BY DEF PriorityInv, PriorityOf, PrioritiesFollowSelection
<1> QED
  BY <1>1, <1>2, <1>3, TypeCorrect, SlotSafe, PTL DEF Spec
-----------------------------------------------------------------------------
(***************************************************************************)
(* Refinement of DownloadSlot.  What is needed beyond SlotInv: for a page   *)
(* that is still there, a finish block follows a report of full progress,   *)
(* and the worker that is about to post it has just posted that report.     *)
(***************************************************************************)
FullReport(m) == m.kind = "progress" /\ m.done

\* The last report before position i of the queue was one of full progress.
FullBefore(i) == IF i = 1 THEN bar = "full" ELSE FullReport(mainQ[i - 1])

ReportInv ==
    page =>
        /\ \A i \in 1..Len(mainQ) : mainQ[i].kind = "finish" => FullBefore(i)
        /\ \A w \in Workers :
               pc[w] = "check" /\ snap[w] => FullBefore(Len(mainQ) + 1)

\* A step that leaves the queue, the bar and the page alone and brings no
\* worker to its check keeps ReportInv.
LEMMA ReportFrame ==
    ASSUME ReportInv, UNCHANGED <<mainQ, bar, page>>,
           \A v \in Workers : pc'[v] = "check" => pc[v] = "check" /\ snap'[v] = snap[v]
    PROVE  ReportInv'
  BY DEF ReportInv, FullBefore

\* The quiet steps of a worker bring none to its check.
LEMMA ReportQuiet ==
    ASSUME TypeOK, ReportInv, NEW w \in Workers, QuietStep(w)
    PROVE  ReportInv'
<1>1. /\ pc \in [Workers -> ActivePC \cup {"idle", "teardown", "done"}]
      /\ snap \in [Workers -> BOOLEAN]
  BY DEF TypeOK
<1>2. UNCHANGED <<mainQ, bar, page>>
  BY QuietFrame
<1>3. pc'[w] # "check"
  BY <1>1 DEF QuietStep, LoadTorrent, AddTorrent, FilePriority, TestSeed,
              Status, FileProgress, Sleep, Teardown, Goto, Leave
<1>4. \A v \in Workers : v # w => pc'[v] = pc[v] /\ snap'[v] = snap[v]
  <2>1. \A v \in Workers : v # w => pc'[v] = pc[v]
    BY QuietFrame
  <2>2. \A v \in Workers : v # w => snap'[v] = snap[v]
    BY <1>1 DEF QuietStep, LoadTorrent, AddTorrent, FilePriority, TestSeed,
                Status, FileProgress, Sleep, Teardown
  <2> QED
    BY <2>1, <2>2
<1> QED
  BY <1>2, <1>3, <1>4, ReportFrame

\* A progress block runs: the report it carried is now what the bar shows.
LEMMA ReportProgress ==
    ASSUME TypeOK, ReportInv, progressDidUpdate
    PROVE  ReportInv'
<1> SUFFICES ASSUME page PROVE ReportInv'
  BY DEF ReportInv, progressDidUpdate
<1>1. /\ mainQ # <<>> /\ Head(mainQ).kind = "progress" /\ mainQ' = Tail(mainQ)
      /\ page' = page /\ pc' = pc /\ snap' = snap
      /\ bar' = IF Head(mainQ).done THEN "full" ELSE "less"
  BY DEF progressDidUpdate, workerVars
<1>2. mainQ \in Seq(QueuedBlock)
  BY DEF TypeOK
<1>3. /\ Len(mainQ) \in Nat \ {0} /\ Len(mainQ') = Len(mainQ) - 1
      /\ \A i \in 1..Len(mainQ') : mainQ'[i] = mainQ[i + 1]
      /\ Head(mainQ) = mainQ[1]
  BY <1>1, <1>2, TailFacts
<1>4. ASSUME NEW i \in 1..(Len(mainQ') + 1), FullBefore(i + 1)
      PROVE  FullBefore(i)'
  <2>1. i \in Nat \ {0} /\ FullReport(mainQ[i])
    BY <1>3, <1>4 DEF FullBefore
  <2>2. CASE i = 1
    BY <1>1, <1>3, <2>1, <2>2 DEF FullBefore, FullReport
  <2>3. CASE i # 1
    <3>1. i - 1 \in 1..Len(mainQ') /\ mainQ'[i - 1] = mainQ[i]
      BY <1>3, <2>1, <2>3
    <3> QED
      BY <2>1, <2>3, <3>1 DEF FullBefore, FullReport
  <2> QED
    BY <2>2, <2>3
<1>5. \A i \in 1..Len(mainQ') : mainQ'[i].kind = "finish" => FullBefore(i)'
  <2> SUFFICES ASSUME NEW i \in 1..Len(mainQ'), mainQ'[i].kind = "finish"
               PROVE  FullBefore(i)'
    OBVIOUS
  <2>1. i + 1 \in 1..Len(mainQ) /\ mainQ[i + 1].kind = "finish"
    BY <1>3
  <2>2. FullBefore(i + 1) /\ i \in 1..(Len(mainQ') + 1)
    BY <1>3, <2>1 DEF ReportInv
  <2> QED
    BY <1>4, <2>2
<1>6. \A w \in Workers :
          pc'[w] = "check" /\ snap'[w] => FullBefore(Len(mainQ) + 1)'
  <2> SUFFICES ASSUME NEW w \in Workers, pc'[w] = "check", snap'[w]
               PROVE  FullBefore(Len(mainQ) + 1)'
    OBVIOUS
  <2>1. FullBefore(Len(mainQ) + 1)
    BY <1>1 DEF ReportInv
  <2>2. Len(mainQ) + 1 = (Len(mainQ') + 1) + 1
        /\ Len(mainQ') + 1 \in 1..(Len(mainQ') + 1)
    BY <1>3
  <2>3. FullBefore((Len(mainQ') + 1) + 1)
    BY <2>1, <2>2
  <2> QED
    BY <1>4, <2>2, <2>3
<1> QED
  BY <1>5, <1>6 DEF ReportInv

\* A row is tapped: the worker it starts is far from its check.
LEMMA ReportSelect ==
    ASSUME TypeOK, ReportInv, NEW f \in Files, NEW w \in Workers,
           didSelectRow(f, w)
    PROVE  ReportInv'
<1>1. /\ UNCHANGED <<mainQ, bar, page, snap>> /\ pc' = [pc EXCEPT ![w] = "load"]
  BY DEF didSelectRow, downloadFileAtIndexes, startDownload
<1>2. \A v \in Workers : pc'[v] = "check" => pc[v] = "check"
  BY <1>1 DEF TypeOK
<1> QED
  BY <1>1, <1>2, ReportFrame

\* The finish block runs: it was the last one, and no worker is at its check.
LEMMA ReportFinish ==
    ASSUME TypeOK, SlotInv, btDownloaderDidFinishDownload
    PROVE  ReportInv'
<1>1. /\ mainQ # <<>> /\ Head(mainQ).kind = "finish" /\ mainQ' = Tail(mainQ)
      /\ pc' = pc
  BY DEF btDownloaderDidFinishDownload, workerVars
<1>2. mainQ \in Seq(QueuedBlock)
  BY DEF TypeOK
<1>3. /\ Len(mainQ) \in Nat \ {0} /\ Len(mainQ') = Len(mainQ) - 1
      /\ Head(mainQ) = mainQ[1]
  BY <1>1, <1>2, TailFacts
<1>4. 1 \in 1..Len(mainQ) /\ mainQ[1].kind = "finish"
  BY <1>1, <1>3
<1>5. Len(mainQ) = 1 /\ \A v \in Workers : ~Active(v)
  BY <1>4 DEF SlotInv, SlotExclusive, NoStaleCallbacks
<1>6. Len(mainQ') = 0
  BY <1>3, <1>5
<1>7. \A v \in Workers : pc'[v] # "check"
  BY <1>1, <1>5 DEF Active, ActivePC, Polling
<1> QED
  BY <1>6, <1>7 DEF ReportInv

\* A worker posts its progress: if that was full, so is the last report.
LEMMA ReportPostProgress ==
    ASSUME TypeOK, SlotInv, ReportInv, NEW w \in Workers, PostProgress(w)
    PROVE  ReportInv'
<1> DEFINE m == ProgressBlock(w, snap[w])
<1> SUFFICES ASSUME page PROVE ReportInv'
  BY DEF ReportInv, PostProgress, mainVars
<1>1. /\ pc[w] = "notify" /\ pc' = [pc EXCEPT ![w] = "check"]
      /\ UNCHANGED <<bar, page, snap>> /\ mainQ' = Append(mainQ, m)
  BY DEF PostProgress, mainVars, Goto
<1>2. /\ pc \in [Workers -> ActivePC \cup {"idle", "teardown", "done"}]
      /\ mainQ \in Seq(QueuedBlock) /\ snap[w] \in BOOLEAN
  BY DEF TypeOK
<1>3. m \in QueuedBlock /\ m.kind = "progress" /\ m.done = snap[w]
  BY <1>2 DEF ProgressBlock, QueuedBlock
<1> HIDE DEF m
<1>4. /\ Len(mainQ) \in Nat /\ Len(mainQ') = Len(mainQ) + 1
      /\ \A i \in 1..Len(mainQ) : mainQ'[i] = mainQ[i]
      /\ mainQ'[Len(mainQ) + 1] = m
  BY <1>1, <1>2, <1>3, AppendFacts
<1>5. \A i \in 1..Len(mainQ') : mainQ'[i].kind = "finish" => FullBefore(i)'
  <2> SUFFICES ASSUME NEW i \in 1..Len(mainQ'), mainQ'[i].kind = "finish"
               PROVE  FullBefore(i)'
    OBVIOUS
  <2>1. i \in 1..Len(mainQ) /\ mainQ[i].kind = "finish"
    BY <1>3, <1>4
  <2>2. FullBefore(i)
    BY <2>1 DEF ReportInv
  <2>3. i # 1 => i - 1 \in 1..Len(mainQ)
    BY <1>4, <2>1
  <2> QED
    BY <1>1, <1>4, <2>2, <2>3 DEF FullBefore
<1>6. \A v \in Workers :
          pc'[v] = "check" /\ snap'[v] => FullBefore(Len(mainQ) + 1)'
  <2> SUFFICES ASSUME NEW v \in Workers, pc'[v] = "check", snap'[v]
               PROVE  FullBefore(Len(mainQ) + 1)'
    OBVIOUS
  <2>1. v = w
    BY <1>1, <1>2 DEF SlotInv, SlotExclusive, Active, ActivePC, Polling
  <2>2. FullReport(m)
    BY <1>1, <1>3, <2>1 DEF FullReport
  <2>3. Len(mainQ') + 1 # 1 /\ (Len(mainQ') + 1) - 1 = Len(mainQ) + 1
    BY <1>4
  <2> QED
    BY <1>4, <2>2, <2>3 DEF FullBefore, FullReport
<1> QED
  BY <1>5, <1>6 DEF ReportInv

\* A worker posts the finish block: the last report was full, and no other
\* worker is at its check.
LEMMA ReportPostFinish ==
    ASSUME TypeOK, SlotInv, ReportInv, NEW w \in Workers, PostFinish(w)
    PROVE  ReportInv'
<1> SUFFICES ASSUME page PROVE ReportInv'
  BY DEF ReportInv, PostFinish, mainVars
<1>1. /\ pc[w] = "check" /\ snap[w] /\ pc' = [pc EXCEPT ![w] = "teardown"]
      /\ UNCHANGED <<bar, page>> /\ mainQ' = Append(mainQ, FinishBlock(w))
  BY DEF PostFinish, Leave, mainVars, Goto
<1>2. /\ pc \in [Workers -> ActivePC \cup {"idle", "teardown", "done"}]
      /\ mainQ \in Seq(QueuedBlock)
  BY DEF TypeOK
<1>3. FinishBlock(w) \in QueuedBlock
  BY DEF FinishBlock, QueuedBlock
<1>4. /\ Len(mainQ) \in Nat /\ Len(mainQ') = Len(mainQ) + 1
      /\ \A i \in 1..Len(mainQ) : mainQ'[i] = mainQ[i]
  BY <1>1, <1>2, <1>3, AppendFacts
<1>5. \A i \in 1..Len(mainQ') : mainQ'[i].kind = "finish" => FullBefore(i)'
  <2> SUFFICES ASSUME NEW i \in 1..Len(mainQ'), mainQ'[i].kind = "finish"
               PROVE  FullBefore(i)'
    OBVIOUS
  <2>1. FullBefore(i)
    <3>1. CASE i \in 1..Len(mainQ)
      BY <1>4, <3>1 DEF ReportInv
    <3>2. CASE i \notin 1..Len(mainQ)
      <4>1. i = Len(mainQ) + 1
        BY <1>4, <3>2
      <4> QED
        BY <1>1, <4>1 DEF ReportInv
    <3> QED
      BY <3>1, <3>2
  <2>2. i # 1 => i - 1 \in 1..Len(mainQ)
    BY <1>4
  <2> QED
    BY <1>1, <1>4, <2>1, <2>2 DEF FullBefore
<1>6. \A v \in Workers : pc'[v] # "check"
  BY <1>1, <1>2 DEF SlotInv, SlotExclusive, Active, ActivePC, Polling
<1> QED
  BY <1>5, <1>6 DEF ReportInv

\* A page that is still there hears of full progress before the end.
LEMMA ReportStep ==
    ASSUME TypeOK, SlotInv, ReportInv, [Next]_vars
    PROVE  ReportInv'
<1>1. ASSUME NEW f \in Files, NEW w \in Workers, didSelectRow(f, w)
      PROVE  ReportInv'
  BY <1>1, ReportSelect
<1>2. CASE PopPage
  BY <1>2 DEF PopPage, ReportInv
<1>3. CASE progressDidUpdate
  BY <1>3, ReportProgress
<1>4. CASE btDownloaderDidFinishDownload
  BY <1>4, ReportFinish
<1>5. ASSUME NEW w \in Workers, QuietStep(w)
      PROVE  ReportInv'
  BY <1>5, ReportQuiet
<1>6. ASSUME NEW w \in Workers, PostProgress(w)
      PROVE  ReportInv'
  BY <1>6, ReportPostProgress
<1>7. ASSUME NEW w \in Workers, PostFinish(w)
      PROVE  ReportInv'
  BY <1>7, ReportPostFinish
<1>8. ASSUME NEW w \in Workers, Session(w)
      PROVE  ReportInv'
  BY <1>8, SessionFrame, ReportFrame DEF mainVars, workerVars
<1>9. CASE UNCHANGED vars
  BY <1>9, ReportFrame DEF vars, mainVars, workerVars
<1> QED
  BY <1>1, <1>2, <1>3, <1>4, <1>5, <1>6, <1>7, <1>8, <1>9
  DEF Next, MainThread, Worker, QuietStep

\* Every step is a step of the slot or leaves it alone.
LEMMA SlotSimulation ==
    ASSUME TypeOK, SlotInv, ReportInv, [Next]_vars
    PROVE  [Slot!SlotNext]_(Slot!slotVars)
<1> USE DEF Slot!slotVars, Slot!SlotNext
<1>1. ASSUME NEW f \in Files, NEW w \in Workers, didSelectRow(f, w)
      PROVE  Slot!Begin(f)
  BY <1>1 DEF didSelectRow, downloadFileAtIndexes, startDownload, Slot!Begin
<1>2. CASE PopPage
  BY <1>2 DEF PopPage, Slot!Leave
<1>3. CASE progressDidUpdate
  <2>1. mainQ # <<>> /\ UNCHANGED <<downloading, selected, page>>
    BY <1>3 DEF progressDidUpdate
  <2>2. downloading
    BY <2>1 DEF SlotInv, NoStaleCallbacks
  <2>3. bar' = bar \/ (page /\ bar' \in {"less", "full"})
    BY <1>3 DEF progressDidUpdate
  <2> QED
    BY <2>1, <2>2, <2>3 DEF Slot!Report
<1>4. CASE btDownloaderDidFinishDownload
  <2>1. /\ mainQ # <<>> /\ Head(mainQ).kind = "finish"
        /\ downloading' = FALSE /\ UNCHANGED <<selected, bar, page>>
    BY <1>4 DEF btDownloaderDidFinishDownload
  <2>2. downloading
    BY <2>1 DEF SlotInv, NoStaleCallbacks
  <2>3. mainQ \in Seq(QueuedBlock)
    BY DEF TypeOK
  <2>4. 1 \in 1..Len(mainQ) /\ mainQ[1].kind = "finish"
    BY <2>1, <2>3, TailFacts
  <2>5. page => bar = "full"
    BY <2>4 DEF ReportInv, FullBefore
  <2> QED
    BY <2>1, <2>2, <2>5 DEF Slot!Finish
<1>5. ASSUME NEW w \in Workers, Worker(w)
      PROVE  UNCHANGED <<downloading, selected, page, bar>>
  BY <1>5 DEF Worker, LoadTorrent, AddTorrent, FilePriority, TestSeed, Status,
              FileProgress, PostProgress, PostFinish, Sleep, Teardown, mainVars
<1>6. ASSUME NEW w \in Workers, Session(w)
      PROVE  UNCHANGED <<downloading, selected, page, bar>>
  BY <1>6, SessionFrame DEF mainVars
<1>7. CASE UNCHANGED vars
  BY <1>7 DEF vars, mainVars
<1> QED
  BY <1>1, <1>2, <1>3, <1>4, <1>5, <1>6, <1>7 DEF Next, MainThread

\* The downloader, with its workers, the main queue and the sessions, does
\* what DownloadSlot promises the page: a report or a reset only while a
\* download holds the slot, and the end only after a report of full progress.
THEOREM SlotImplemented == Spec => ImplementsSlot
<1>1. Init => Slot!SlotInit
  BY DEF Init, initWithTorrent, Slot!SlotInit
<1>2. Init => ReportInv
  BY DEF Init, ReportInv
<1>3. TypeOK /\ SlotInv /\ ReportInv /\ [Next]_vars => ReportInv'
  BY ReportStep
<1>4. TypeOK /\ SlotInv /\ ReportInv /\ [Next]_vars
        => [Slot!SlotNext]_(Slot!slotVars)
  BY SlotSimulation
<1>5. SlotExclusive /\ NoStaleCallbacks => SlotInv
  BY DEF SlotInv
<1> QED
  BY <1>1, <1>2, <1>3, <1>4, <1>5, TypeCorrect, SlotSafe, PTL
  DEF Spec, ImplementsSlot, Slot!SlotSpec
-----------------------------------------------------------------------------
(***************************************************************************)
(* What the page may conclude from the flag, from the rows and from the     *)
(* finish block.                                                            *)
(***************************************************************************)
\* A block that is posted is queued behind the others.
LEMMA QueuedAppend ==
    ASSUME mainQ \in Seq(QueuedBlock), NEW x \in QueuedBlock, mainQ' = Append(mainQ, x)
    PROVE  \A m : Queued(m)' <=> Queued(m) \/ m = x
<1>1. /\ Len(mainQ) \in Nat /\ Len(mainQ') = Len(mainQ) + 1
      /\ \A i \in 1..Len(mainQ) : mainQ'[i] = mainQ[i]
      /\ mainQ'[Len(mainQ) + 1] = x
  BY AppendFacts
<1>2. ASSUME NEW m, Queued(m)' PROVE Queued(m) \/ m = x
  <2>1. PICK i \in 1..Len(mainQ') : mainQ'[i] = m
    BY <1>2 DEF Queued
  <2>2. i \in 1..Len(mainQ) \/ i = Len(mainQ) + 1
    BY <1>1, <2>1
  <2> QED BY <1>1, <2>1, <2>2 DEF Queued
<1>3. ASSUME NEW m, Queued(m) PROVE Queued(m)'
  <2>1. PICK i \in 1..Len(mainQ) : mainQ[i] = m
    BY <1>3 DEF Queued
  <2>2. i \in 1..Len(mainQ') /\ mainQ'[i] = m
    BY <1>1, <2>1
  <2> QED BY <2>2 DEF Queued
<1>4. Queued(x)'
  <2>1. Len(mainQ) + 1 \in 1..Len(mainQ')
    BY <1>1
  <2> QED BY <1>1, <2>1 DEF Queued
<1> QED BY <1>2, <1>3, <1>4

\* Running the oldest block takes just that one from the queue.
LEMMA QueuedTail ==
    ASSUME mainQ \in Seq(QueuedBlock), mainQ # <<>>, mainQ' = Tail(mainQ)
    PROVE  /\ \A m : Queued(m)' => Queued(m)
           /\ \A m : Queued(m) /\ m # Head(mainQ) => Queued(m)'
<1>1. /\ Len(mainQ) \in Nat \ {0} /\ Len(mainQ') = Len(mainQ) - 1
      /\ \A i \in 1..Len(mainQ') : mainQ'[i] = mainQ[i + 1]
      /\ Head(mainQ) = mainQ[1]
  BY TailFacts
<1>2. ASSUME NEW m, Queued(m)' PROVE Queued(m)
  <2>1. PICK i \in 1..Len(mainQ') : mainQ'[i] = m
    BY <1>2 DEF Queued
  <2>2. i + 1 \in 1..Len(mainQ) /\ mainQ[i + 1] = m
    BY <1>1, <2>1
  <2> QED BY <2>2 DEF Queued
<1>3. ASSUME NEW m, Queued(m), m # Head(mainQ) PROVE Queued(m)'
  <2>1. PICK i \in 1..Len(mainQ) : mainQ[i] = m
    BY <1>3 DEF Queued
  <2>2. i - 1 \in 1..Len(mainQ') /\ (i - 1) + 1 = i
    BY <1>1, <1>3, <2>1
  <2>3. mainQ'[i - 1] = m
    BY <1>1, <2>1, <2>2
  <2> QED BY <2>2, <2>3 DEF Queued
<1> QED BY <1>2, <1>3

\* Every worker's finish block is its own, and none is a report.
LEMMA FinishBlocks ==
    /\ \A w \in Workers : FinishBlock(w) \in QueuedBlock /\ FinishBlock(w).kind = "finish"
    /\ \A v, w \in Workers : FinishBlock(v) = FinishBlock(w) => v = w
    /\ \A v, w \in Workers, d \in BOOLEAN :
          ProgressBlock(v, d) \in QueuedBlock /\ ProgressBlock(v, d) # FinishBlock(w)
  BY DEF FinishBlock, ProgressBlock, QueuedBlock

\* A quiet step that takes a worker out of the loop is one of the silent ends.
LEMMA QuietEnds ==
    ASSUME TypeOK, NEW w \in Workers, QuietStep(w)
    PROVE  /\ \A v \in Workers : v # w => outcome'[v] = outcome[v]
           /\ Active(w) => Active(w)' \/ outcome'[w] \in {"error", "seed"}
           /\ ~Active(w) => outcome'[w] = outcome[w]
<1>1. /\ pc \in [Workers -> ActivePC \cup {"idle", "teardown", "done"}]
      /\ outcome \in [Workers -> {"none", "error", "seed", "finish", "unheard"}]
  BY DEF TypeOK
<1>2. \/ /\ outcome' = outcome
         /\ pc[w] = "teardown" \/ Active(w)'
      \/ /\ Active(w)
         /\ \E how \in {"error", "seed"} : outcome' = [outcome EXCEPT ![w] = how]
  <2>1. CASE LoadTorrent(w)
    BY <1>1, <2>1 DEF LoadTorrent, Leave, Goto, Active, ActivePC
  <2>2. CASE AddTorrent(w)
    BY <1>1, <2>2 DEF AddTorrent, Leave, Goto, Active, ActivePC
  <2>3. CASE FilePriority(w)
    BY <1>1, <2>3 DEF FilePriority, Goto, Active, ActivePC, Polling
  <2>4. CASE TestSeed(w)
    BY <1>1, <2>4 DEF TestSeed, Leave, Goto, Active, ActivePC, Polling
  <2>5. CASE Status(w) \/ FileProgress(w) \/ Sleep(w)
    BY <1>1, <2>5 DEF Status, FileProgress, Sleep, Goto, Active, ActivePC, Polling
  <2>6. CASE Teardown(w)
    BY <2>6 DEF Teardown
  <2> QED BY <2>1, <2>2, <2>3, <2>4, <2>5, <2>6 DEF QuietStep
<1>3. pc[w] = "teardown" => ~Active(w)
  BY DEF Active, ActivePC, Polling
<1> QED BY <1>1, <1>2, <1>3

\* One step of a worker or of a session keeps the reason for downloading.
LEMMA LeakWorker ==
    ASSUME TypeOK, LeakOnlyBySilentEnd, NEW w \in Workers, Worker(w)
    PROVE  LeakOnlyBySilentEnd'
<1>0. /\ mainQ \in Seq(QueuedBlock) /\ snap \in [Workers -> BOOLEAN]
      /\ pc \in [Workers -> ActivePC \cup {"idle", "teardown", "done"}]
      /\ outcome \in [Workers -> {"none", "error", "seed", "finish", "unheard"}]
  BY DEF TypeOK
<1>1. CASE QuietStep(w)
  <2>1. /\ downloading' = downloading /\ mainQ' = mainQ
        /\ \A v \in Workers : v # w => pc'[v] = pc[v] /\ outcome'[v] = outcome[v]
        /\ Active(w) => Active(w)' \/ outcome'[w] \in {"error", "seed"}
        /\ ~Active(w) => outcome'[w] = outcome[w]
    BY <1>1, QuietFrame, QuietEnds
  <2>2. \A m : Queued(m)' <=> Queued(m)
    BY <2>1 DEF Queued
  <2>3. \A v \in Workers : v # w => (Active(v)' <=> Active(v))
    BY <2>1 DEF Active
  <2>4. CASE Active(w)
    BY <2>1, <2>4 DEF LeakOnlyBySilentEnd
  <2>5. CASE ~Active(w)
    <3>1. \A v \in Workers : Active(v) => Active(v)'
      BY <2>3, <2>5
    <3>2. \A v \in Workers : outcome'[v] = outcome[v]
      BY <2>1, <2>5
    <3> QED BY <2>1, <2>2, <3>1, <3>2 DEF LeakOnlyBySilentEnd
  <2> QED BY <2>4, <2>5
<1>2. CASE PostProgress(w)
  <2>1. pc' = [pc EXCEPT ![w] = "check"]
    BY <1>2 DEF PostProgress, Goto
  <2>2. Active(w)'
    BY <2>1, <1>0 DEF Active, ActivePC, Polling
  <2> QED BY <2>2 DEF LeakOnlyBySilentEnd
<1>3. CASE PostFinish(w)
  <2>1. CASE page
    <3>1. mainQ' = Append(mainQ, FinishBlock(w))
      BY <1>3, <2>1 DEF PostFinish
    <3>2. Queued(FinishBlock(w))'
      BY <3>1, <1>0, QueuedAppend, FinishBlocks
    <3> QED BY <3>2 DEF LeakOnlyBySilentEnd
  <2>2. CASE ~page
    <3>1. outcome'[w] = "unheard"
      BY <1>0, <1>3, <2>2 DEF PostFinish, Leave
    <3> QED BY <3>1 DEF LeakOnlyBySilentEnd
  <2> QED BY <2>1, <2>2
<1> QED BY <1>1, <1>2, <1>3 DEF Worker, QuietStep

\* downloading stays YES with no worker in its loop and no finish block queued
\* only after an end that posts none, for any number of downloads.
THEOREM LeaksAreExplained == Spec => []LeakOnlyBySilentEnd
<1>1. Init => LeakOnlyBySilentEnd
  BY DEF Init, initWithTorrent, LeakOnlyBySilentEnd
<1>2. TypeOK /\ LeakOnlyBySilentEnd /\ [Next]_vars => LeakOnlyBySilentEnd'
  <2> SUFFICES ASSUME TypeOK, LeakOnlyBySilentEnd, [Next]_vars
               PROVE  LeakOnlyBySilentEnd'
    OBVIOUS
  <2>0. mainQ \in Seq(QueuedBlock)
        /\ pc \in [Workers -> ActivePC \cup {"idle", "teardown", "done"}]
    BY DEF TypeOK
  <2>1. ASSUME NEW f \in Files, NEW w \in Workers, didSelectRow(f, w)
        PROVE  LeakOnlyBySilentEnd'
    <3>1. pc' = [pc EXCEPT ![w] = "load"]
      BY <2>1 DEF didSelectRow, downloadFileAtIndexes, startDownload
    <3>2. Active(w)'
      BY <3>1, <2>0 DEF Active, ActivePC
    <3> QED BY <3>2 DEF LeakOnlyBySilentEnd
  <2>2. CASE UNCHANGED <<downloading, mainQ, pc, outcome>>
    BY <2>2 DEF LeakOnlyBySilentEnd, Active, Queued
  <2>3. CASE PopPage
    BY <2>3, <2>2 DEF PopPage, workerVars
  <2>4. CASE progressDidUpdate
    <3>1. /\ mainQ # <<>> /\ mainQ' = Tail(mainQ) /\ Head(mainQ).kind = "progress"
          /\ downloading' = downloading /\ pc' = pc /\ outcome' = outcome
      BY <2>4 DEF progressDidUpdate, workerVars
    <3>2. \A w \in Workers : FinishBlock(w) # Head(mainQ)
      BY <3>1, FinishBlocks
    <3>3. \A w \in Workers : Queued(FinishBlock(w)) => Queued(FinishBlock(w))'
      BY <3>1, <3>2, <2>0, QueuedTail
    <3>4. \A w \in Workers : Active(w)' <=> Active(w)
      BY <3>1 DEF Active
    <3> QED BY <3>1, <3>3, <3>4 DEF LeakOnlyBySilentEnd
  <2>5. CASE btDownloaderDidFinishDownload
    BY <2>5 DEF btDownloaderDidFinishDownload, LeakOnlyBySilentEnd
  <2>6. ASSUME NEW w \in Workers, Worker(w)
        PROVE  LeakOnlyBySilentEnd'
    BY <2>6, LeakWorker
  <2>7. ASSUME NEW w \in Workers, Session(w)
        PROVE  LeakOnlyBySilentEnd'
    BY <2>7, <2>2, SessionFrame DEF mainVars, workerVars
  <2>8. CASE UNCHANGED vars
    BY <2>8, <2>2 DEF vars, mainVars, workerVars
  <2> QED
    BY <2>1, <2>3, <2>4, <2>5, <2>6, <2>7, <2>8 DEF Next, MainThread
<1> QED
  BY <1>1, <1>2, TypeCorrect, PTL DEF Spec

\* With no callback on its way the visible rows show the progress that was
\* stored last, although the worker stores it without telling the page.
THEOREM RowsAreCurrent == Spec => []RowsUpToDate
<1>1. Init => RowsUpToDate
  BY DEF Init, RowsUpToDate
<1>2. TypeOK /\ RowsUpToDate /\ [Next]_vars => RowsUpToDate'
  <2> SUFFICES ASSUME TypeOK, RowsUpToDate, [Next]_vars
               PROVE  RowsUpToDate'
    OBVIOUS
  <2>0. mainQ \in Seq(QueuedBlock)
        /\ pc \in [Workers -> ActivePC \cup {"idle", "teardown", "done"}]
    BY DEF TypeOK
  <2>1. ASSUME UNCHANGED <<rows, progress, page, mainQ>>,
               NEW w \in Workers, pc[w] # "notify",
               \A v \in Workers : v # w => pc'[v] = pc[v]
        PROVE  RowsUpToDate'
    BY <2>1 DEF RowsUpToDate
  <2>2. ASSUME NEW f \in Files, NEW w \in Workers, didSelectRow(f, w)
        PROVE  RowsUpToDate'
    <3>1. /\ pc[w] = "idle" /\ pc' = [pc EXCEPT ![w] = "load"]
          /\ UNCHANGED <<rows, progress, page, mainQ>>
      BY <2>2 DEF didSelectRow, downloadFileAtIndexes, startDownload
    <3>2. \A v \in Workers : v # w => pc'[v] = pc[v]
      BY <3>1, <2>0
    <3> QED BY <3>1, <3>2, <2>1
  <2>3. CASE PopPage
    BY <2>3 DEF PopPage, RowsUpToDate
  <2>4. CASE progressDidUpdate \/ btDownloaderDidFinishDownload
    BY <2>4 DEF progressDidUpdate, btDownloaderDidFinishDownload, reloadData, RowsUpToDate
  <2>5. ASSUME NEW w \in Workers, FileProgress(w)
        PROVE  RowsUpToDate'
    <3>1. pc'[w] = "notify"
      BY <2>5, <2>0 DEF FileProgress, Goto
    <3> QED BY <3>1 DEF RowsUpToDate
  <2>6. ASSUME NEW w \in Workers, QuietStep(w), ~FileProgress(w)
        PROVE  RowsUpToDate'
    <3>1. UNCHANGED <<rows, progress, page, mainQ>> /\ pc[w] # "notify"
      BY <2>6 DEF QuietStep, LoadTorrent, AddTorrent, FilePriority, TestSeed, Status,
                  Sleep, Teardown, mainVars
    <3>2. \A v \in Workers : v # w => pc'[v] = pc[v]
      BY <2>6, QuietFrame
    <3> QED BY <3>1, <3>2, <2>1
  <2>7. ASSUME NEW w \in Workers, PostProgress(w)
        PROVE  RowsUpToDate'
    <3>1. CASE page
      <4>1. mainQ' = Append(mainQ, ProgressBlock(w, snap[w]))
        BY <2>7, <3>1 DEF PostProgress
      <4>2. ProgressBlock(w, snap[w]) \in QueuedBlock
        BY FinishBlocks DEF TypeOK
      <4>3. mainQ' # <<>>
        BY <4>1, <4>2, <2>0, AppendFacts
      <4> QED BY <4>3 DEF RowsUpToDate
    <3>2. CASE ~page
      BY <2>7, <3>2 DEF PostProgress, mainVars, RowsUpToDate
    <3> QED BY <3>1, <3>2
  <2>8. ASSUME NEW w \in Workers, PostFinish(w)
        PROVE  RowsUpToDate'
    <3>1. CASE page
      <4>1. mainQ' = Append(mainQ, FinishBlock(w))
        BY <2>8, <3>1 DEF PostFinish
      <4>2. FinishBlock(w) \in QueuedBlock
        BY FinishBlocks
      <4>3. mainQ' # <<>>
        BY <4>1, <4>2, <2>0, AppendFacts
      <4> QED BY <4>3 DEF RowsUpToDate
    <3>2. CASE ~page
      BY <2>8, <3>2 DEF PostFinish, mainVars, RowsUpToDate
    <3> QED BY <3>1, <3>2
  <2>9. CASE UNCHANGED <<rows, progress, page, mainQ, pc>>
    BY <2>9 DEF RowsUpToDate
  <2>10. ASSUME NEW w \in Workers, Session(w)
         PROVE  RowsUpToDate'
    BY <2>10, <2>9, SessionFrame DEF mainVars, workerVars
  <2>11. CASE UNCHANGED vars
    BY <2>11, <2>9 DEF vars, mainVars, workerVars
  <2> QED
    BY <2>2, <2>3, <2>4, <2>5, <2>6, <2>7, <2>8, <2>10, <2>11
    DEF Next, MainThread, Worker, QuietStep
<1> QED
  BY <1>1, <1>2, TypeCorrect, PTL DEF Spec
-----------------------------------------------------------------------------
(***************************************************************************)
(* What a finish means.  FinishIsSound is inductive once it is known that   *)
(* the session wants what is selected, which makes status() speak of the    *)
(* selected files, and that the slot is exclusive: a worker that leaves     *)
(* its loop silently cannot find a finish block of an earlier time.         *)
(***************************************************************************)
\* Worker w has decided to finish, or has announced it and is being torn down.
Finishing(w) ==
    \/ snap[w] /\ pc[w] \in {"files", "notify", "check"}
    \/ pc[w] = "teardown" /\ Queued(FinishBlock(w))

\* Every block of the selected files has arrived in the session of w.
AllArrived(w) == \A f \in selected \ PadFiles : BlocksOf[f] \subseteq got[w]

\* FinishIsSound in these words.
LEMMA FinishReading ==
    FinishIsSound <=>
        (hashFails = 0 => \A w \in Workers : Finishing(w) => AllArrived(w))
  BY DEF FinishIsSound, Finishing, AllArrived

\* status() reports progress 1 only when the blocks of all selected files are
\* there: the blocks of a wanted file lie in wanted pieces.
LEMMA StatusCovers ==
    ASSUME TypeOK, NEW w \in Workers, want[w] = selected, StatusDone(w)
    PROVE  AllArrived(w)
<1> SUFFICES ASSUME NEW f \in selected \ PadFiles, NEW b \in BlocksOf[f]
             PROVE  b \in got[w]
  BY DEF AllArrived
<1>1. f \in Files /\ b \in Blocks
  BY LayoutAssumption DEF TypeOK
<1>2. b \in UNION {BlocksOf[g] : g \in want[w] \ PadFiles}
  OBVIOUS
<1>3. PieceOf[b] \in WantedPieces(w)
  BY <1>2 DEF WantedPieces
<1>4. b \in PayloadBlocks
  BY <1>1 DEF PayloadBlocks
<1> QED
  BY <1>3, <1>4 DEF StatusDone

\* A step that keeps the selection keeps FinishIsSound when whoever is
\* finishing after it was so before and has lost no block, or has them all.
LEMMA FinishFrame ==
    ASSUME FinishIsSound, selected' = selected, hashFails' = 0 => hashFails = 0,
           \A v \in Workers : Finishing(v)' =>
               \/ Finishing(v) /\ got[v] \subseteq got'[v]
               \/ AllArrived(v)'
    PROVE  FinishIsSound'
<1> SUFFICES ASSUME hashFails' = 0, NEW v \in Workers, Finishing(v)'
             PROVE  AllArrived(v)'
  BY DEF FinishIsSound, Finishing, AllArrived
<1>1. Finishing(v) => AllArrived(v)
  BY FinishReading
<1> QED
  BY <1>1 DEF AllArrived

\* While a worker is in its loop no finish block is queued.
LEMMA NoFinishWhileActive ==
    ASSUME SlotExclusive, NEW w \in Workers, Active(w)
    PROVE  \A v \in Workers : ~Queued(FinishBlock(v))
  BY FinishBlocks DEF SlotExclusive, Queued

\* A step of one worker touches no other worker's state, session or finish
\* block.
LEMMA OthersKept ==
    ASSUME TypeOK, NEW w \in Workers, Worker(w)
    PROVE  /\ selected' = selected /\ hashFails' = hashFails
           /\ \A v \in Workers : v # w =>
                 got'[v] = got[v] /\ (Finishing(v)' => Finishing(v))
<1>1. /\ mainQ \in Seq(QueuedBlock) /\ snap \in [Workers -> BOOLEAN]
      /\ pc \in [Workers -> ActivePC \cup {"idle", "teardown", "done"}]
      /\ got \in [Workers -> SUBSET Blocks]
  BY DEF TypeOK
<1>2. selected' = selected /\ hashFails' = hashFails
  BY DEF Worker, LoadTorrent, AddTorrent, FilePriority, TestSeed, Status,
         FileProgress, PostProgress, PostFinish, Sleep, Teardown, mainVars
<1>3. /\ \E x : snap' = [snap EXCEPT ![w] = x] \/ snap' = snap
      /\ \E x : got' = [got EXCEPT ![w] = x] \/ got' = got
      /\ \E x : pc' = [pc EXCEPT ![w] = x] \/ pc' = pc
  BY DEF Worker, LoadTorrent, AddTorrent, FilePriority, TestSeed, Status,
         FileProgress, PostProgress, PostFinish, Sleep, Teardown, Goto, Leave,
         sessionVars
<1>4. \A v \in Workers : v # w =>
          snap'[v] = snap[v] /\ got'[v] = got[v] /\ pc'[v] = pc[v]
  BY <1>1, <1>3
<1>5. \A v \in Workers : v # w => (Queued(FinishBlock(v))' => Queued(FinishBlock(v)))
  <2>1. \/ mainQ' = mainQ
        \/ mainQ' = Append(mainQ, ProgressBlock(w, snap[w]))
        \/ mainQ' = Append(mainQ, FinishBlock(w))
    BY DEF Worker, LoadTorrent, AddTorrent, FilePriority, TestSeed, Status,
           FileProgress, PostProgress, PostFinish, Sleep, Teardown
  <2>2. CASE mainQ' = mainQ
    BY <2>2 DEF Queued
  <2>3. CASE mainQ' = Append(mainQ, ProgressBlock(w, snap[w]))
    <3>1. snap[w] \in BOOLEAN
      BY <1>1
    <3>2. /\ ProgressBlock(w, snap[w]) \in QueuedBlock
          /\ \A v \in Workers : ProgressBlock(w, snap[w]) # FinishBlock(v)
      BY <3>1, FinishBlocks
    <3>3. \A m : Queued(m)' <=> Queued(m) \/ m = ProgressBlock(w, snap[w])
      BY <1>1, <2>3, <3>2, QueuedAppend
    <3> QED BY <3>2, <3>3
  <2>4. CASE mainQ' = Append(mainQ, FinishBlock(w))
    <3>1. FinishBlock(w) \in QueuedBlock
      BY FinishBlocks
    <3>2. \A m : Queued(m)' <=> Queued(m) \/ m = FinishBlock(w)
      BY <1>1, <2>4, <3>1, QueuedAppend
    <3> QED BY <3>2, FinishBlocks
  <2> QED BY <2>1, <2>2, <2>3, <2>4
<1> QED
  BY <1>2, <1>4, <1>5 DEF Finishing

\* One step of a worker: it starts to finish only on a status that covers the
\* selected files, and a silent end is not taken for a finish.
LEMMA FinishWorker ==
    ASSUME TypeOK, SlotExclusive, PrioritiesFollowSelection, FinishIsSound,
           NEW w \in Workers, Worker(w)
    PROVE  FinishIsSound'
<1>1. /\ mainQ \in Seq(QueuedBlock) /\ snap \in [Workers -> BOOLEAN]
      /\ pc \in [Workers -> ActivePC \cup {"idle", "teardown", "done"}]
      /\ got \in [Workers -> SUBSET Blocks]
  BY DEF TypeOK
<1>2. /\ selected' = selected /\ hashFails' = hashFails
      /\ \A v \in Workers : v # w =>
            got'[v] = got[v] /\ (Finishing(v)' => Finishing(v))
  BY OthersKept
<1>3. Finishing(w)' => (Finishing(w) /\ got'[w] = got[w]) \/ AllArrived(w)'
  <2>1. CASE LoadTorrent(w) \/ AddTorrent(w) \/ TestSeed(w)
    <3>1. Active(w) /\ mainQ' = mainQ
      BY <2>1 DEF LoadTorrent, AddTorrent, TestSeed, Active, ActivePC, Polling
    <3>2. ~Queued(FinishBlock(w))'
      BY <3>1, NoFinishWhileActive DEF Queued
    <3>3. pc'[w] \in {"add", "prio", "status", "teardown"}
      BY <1>1, <2>1 DEF LoadTorrent, AddTorrent, TestSeed, Goto, Leave
    <3> QED BY <3>2, <3>3 DEF Finishing
  <2>2. CASE FilePriority(w) \/ Sleep(w) \/ Teardown(w)
    <3>1. pc'[w] \in {"prio", "test", "done"}
      BY <1>1, <2>2 DEF FilePriority, Sleep, Teardown, Goto
    <3> QED BY <3>1 DEF Finishing
  <2>3. CASE Status(w)
    <3>1. /\ pc[w] = "status" /\ pc'[w] = "files" /\ snap'[w] = StatusDone(w)
          /\ got' = got
      BY <1>1, <2>3 DEF Status, Goto, sessionVars
    <3>2. want[w] = selected
      BY <3>1 DEF PrioritiesFollowSelection, Polling
    <3>3. StatusDone(w) => AllArrived(w)
      BY <3>2, StatusCovers
    <3>4. AllArrived(w) => AllArrived(w)'
      BY <1>2, <3>1 DEF AllArrived
    <3> QED BY <3>1, <3>3, <3>4 DEF Finishing
  <2>4. CASE FileProgress(w) \/ PostProgress(w)
    <3>1. /\ pc[w] \in {"files", "notify"} /\ pc'[w] \in {"notify", "check"}
          /\ snap' = snap /\ got' = got
      BY <1>1, <2>4 DEF FileProgress, PostProgress, Goto, sessionVars
    <3> QED BY <3>1 DEF Finishing
  <2>5. CASE PostFinish(w)
    <3>1. pc[w] = "check" /\ snap[w] /\ got' = got
      BY <2>5 DEF PostFinish, sessionVars
    <3> QED BY <3>1 DEF Finishing
  <2> QED BY <2>1, <2>2, <2>3, <2>4, <2>5 DEF Worker
<1>4. \A v \in Workers : Finishing(v)' =>
          \/ Finishing(v) /\ got[v] \subseteq got'[v]
          \/ AllArrived(v)'
  BY <1>2, <1>3
<1> QED
  BY <1>2, <1>4, FinishFrame

\* One step of a session: blocks are only lost to a failed hash check.
LEMMA FinishSession ==
    ASSUME TypeOK, FinishIsSound, NEW w \in Workers, Session(w)
    PROVE  FinishIsSound'
<1>1. /\ selected' = selected /\ UNCHANGED <<mainQ, pc, snap>>
  BY SessionFrame DEF mainVars, workerVars
<1>2. \A v \in Workers : Finishing(v)' => Finishing(v)
  BY <1>1 DEF Finishing, Queued
<1>3. got \in [Workers -> SUBSET Blocks] /\ hashFails \in Nat
  BY BoundsAssumption DEF TypeOK
<1>4. CASE \E p \in Pieces : PieceFailed(w, p)
  <2>1. hashFails' = hashFails + 1
    BY <1>4 DEF PieceFailed
  <2>2. hashFails' # 0
    BY <1>3, <2>1
  <2> QED BY <2>2 DEF FinishIsSound
<1>5. CASE ~\E p \in Pieces : PieceFailed(w, p)
  <2>1. /\ hashFails' = hashFails
        /\ got' = got \/ \E s : got' = [got EXCEPT ![w] = got[w] \cup s]
    BY <1>5 DEF Session, StartCheck, FilesChecked, BlockFinished, CheckPiece,
                PiecePassed
  <2>2. \A v \in Workers : got[v] \subseteq got'[v]
    BY <1>3, <2>1
  <2>3. \A v \in Workers : Finishing(v)' =>
            \/ Finishing(v) /\ got[v] \subseteq got'[v]
            \/ AllArrived(v)'
    BY <1>2, <2>2
  <2> QED BY <1>1, <2>1, <2>3, FinishFrame
<1> QED BY <1>4, <1>5

\* Unless a piece has failed its hash check, a worker that decides to finish
\* has every block of the selected files, and still has while its finish block
\* waits and its session is destroyed, for any torrent and any selection.
THEOREM FinishesAreSound == Spec => []FinishIsSound
<1>1. Init => FinishIsSound
  BY DEF Init, FinishIsSound
<1>2. TypeOK /\ SlotInv /\ PrioritiesFollowSelection /\ FinishIsSound /\ [Next]_vars
        => FinishIsSound'
  <2> SUFFICES ASSUME TypeOK, SlotInv, PrioritiesFollowSelection, FinishIsSound,
                      [Next]_vars
               PROVE  FinishIsSound'
    OBVIOUS
  <2>0. SlotExclusive /\ NoStaleCallbacks
    BY DEF SlotInv
  <2>1. ASSUME NEW f \in Files, NEW w \in Workers, didSelectRow(f, w)
        PROVE  FinishIsSound'
    <3>1. /\ ~downloading /\ mainQ' = mainQ /\ snap' = snap
          /\ pc' = [pc EXCEPT ![w] = "load"]
      BY <2>1 DEF didSelectRow, downloadFileAtIndexes, startDownload
    <3>2. mainQ' = <<>> /\ \A v \in Workers : ~Active(v)
      BY <2>0, <3>1 DEF SlotExclusive, NoStaleCallbacks
    <3>3. \A v \in Workers : ~Queued(FinishBlock(v))'
      BY <3>2 DEF Queued
    <3>4. \A v \in Workers : pc'[v] \notin {"files", "notify", "check"}
      BY <3>1, <3>2 DEF TypeOK, Active, ActivePC, Polling
    <3> QED BY <3>3, <3>4 DEF FinishIsSound
  <2>2. CASE /\ UNCHANGED <<selected, hashFails, pc, snap, got>>
             /\ \A m : Queued(m)' => Queued(m)
    BY <2>2 DEF FinishIsSound
  <2>3. CASE PopPage
    <3>1. UNCHANGED <<selected, hashFails, pc, snap, got, mainQ>>
      BY <2>3 DEF PopPage, workerVars, sessionVars
    <3> QED BY <3>1, <2>2 DEF Queued
  <2>4. CASE progressDidUpdate \/ btDownloaderDidFinishDownload
    <3>1. /\ UNCHANGED <<selected, hashFails, pc, snap, got>>
          /\ mainQ # <<>> /\ mainQ' = Tail(mainQ)
      BY <2>4 DEF progressDidUpdate, btDownloaderDidFinishDownload, workerVars,
                  sessionVars
    <3>2. mainQ \in Seq(QueuedBlock)
      BY DEF TypeOK
    <3>3. \A m : Queued(m)' => Queued(m)
      BY <3>1, <3>2, QueuedTail
    <3> QED BY <3>1, <3>3, <2>2
  <2>5. ASSUME NEW w \in Workers, Worker(w)
        PROVE  FinishIsSound'
    BY <2>0, <2>5, FinishWorker
  <2>6. ASSUME NEW w \in Workers, Session(w)
        PROVE  FinishIsSound'
    BY <2>6, FinishSession
  <2>7. CASE UNCHANGED vars
    <3>1. UNCHANGED <<selected, hashFails, pc, snap, got, mainQ>>
      BY <2>7 DEF vars, mainVars, workerVars, sessionVars
    <3> QED BY <3>1, <2>2 DEF Queued
  <2> QED
    BY <2>1, <2>3, <2>4, <2>5, <2>6, <2>7 DEF Next, MainThread
<1>3. SlotExclusive /\ NoStaleCallbacks => SlotInv
  BY DEF SlotInv
<1> QED
  BY <1>1, <1>2, <1>3, TypeCorrect, SlotSafe, SelectionKept, PTL DEF Spec
=============================================================================
