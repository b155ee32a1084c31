-------------------------- MODULE TorrentDownloader --------------------------
(***************************************************************************)
(* TorrentDownloader (LibTorrent/HKTorrent/TorrentDownloader.mm) together   *)
(* with the page that drives it (DetailList, DetailListFilesCell) and the   *)
(* libtorrent session each download opens.                                  *)
(*                                                                          *)
(* Three kinds of actors run concurrently:                                  *)
(*   - the main thread: taps on rows, and the blocks that workers post to   *)
(*     the main queue, each run as one turn;                                *)
(*   - one worker per call of startDownload, on a global dispatch queue: it *)
(*     opens a session, polls it once a second and posts the callbacks;     *)
(*   - the network and disk threads of each session (libtorrent).           *)
(*                                                                          *)
(* Workers are named in advance: taking one from the pool is the            *)
(* dispatch_async of startDownload, so Workers bounds the number of         *)
(* downloads of a run.                                                      *)
(***************************************************************************)
EXTENDS Naturals, Sequences

CONSTANTS
    Workers,        \* the workers a run may start
    NumFiles,       \* torrentInfo.files has the indexes 1..NumFiles
    Blocks,         \* the blocks of the torrent (16 KiB each)
    Pieces,         \* its pieces, the unit that is hash-checked
    PieceOf,        \* PieceOf[b]: the piece that block b belongs to
    BlocksOf,       \* BlocksOf[f]: the blocks holding bytes of file f
    PadFiles,       \* files with BTFile.isPadFile
    HiddenFiles,    \* files with BTFile.hidden
    QueueBound,     \* bound: progress blocks waiting in the main queue
    MaxHashFails    \* bound: pieces that fail their hash check in a run

Files == 1..NumFiles

ASSUME LayoutAssumption ==
    /\ NumFiles \in Nat \ {0}
    /\ PieceOf \in [Blocks -> Pieces]
    /\ BlocksOf \in [Files -> SUBSET Blocks]
    /\ PadFiles \subseteq Files /\ HiddenFiles \subseteq Files

ASSUME BoundsAssumption == QueueBound \in Nat \ {0} /\ MaxHashFails \in Nat

VARIABLES
    \* main thread
    downloading,    \* TorrentDownloader.downloading
    selected,       \* files with BTFile.selected
    page,           \* the page exists; the downloader's weak delegate is it
    bar,            \* width of downloadProgressBar: last progress reported
    rows,           \* progress the rows of the file list were drawn with
    mainQ,          \* blocks posted to the main queue, oldest first
    \* shared by the main thread and the workers
    progress,       \* BTFile.progress
    \* workers
    pc, idx, snap,  \* next statement, loop index i, "status.progress >= 1"
    outcome,        \* how the worker left its loop (history)
    \* libtorrent sessions, one per worker, and the files they share
    phase,          \* what the session's torrent is doing
    want,           \* files with a non-zero priority
    got, have,      \* blocks finished, pieces that passed their hash check
    disk,           \* pieces whose verified data is in the save path
    hashFails       \* pieces that failed their check so far

mainVars    == <<downloading, selected, page, bar, rows>>
workerVars  == <<pc, idx, snap, outcome>>
sessionVars == <<phase, want, got, have>>
vars == <<mainVars, mainQ, progress, workerVars, sessionVars, disk, hashFails>>

\* A ratio of bytes, as far as the program tells them apart: it compares
\* with 1.0 only, and 0/0 (an empty file) equals nothing.
Ratio == {"less", "full", "nan"}

Polling   == {"test", "status", "files", "notify", "check"}
ActivePC  == {"load", "add", "prio"} \cup Polling
Active(w) == pc[w] \in ActivePC

\* Blocks posted to the main queue.
\* Faulty variant: the info posted does not carry the status.
EmptyProgressBlock(w, done) == [kind |-> "progress", w |-> w, done |-> FALSE]
ProgressBlock(w, done) == [kind |-> "progress", w |-> w, done |-> done]
FinishBlock(w)         == [kind |-> "finish", w |-> w, done |-> TRUE]
QueuedBlock == [kind : {"progress", "finish"}, w : Workers, done : BOOLEAN]
-----------------------------------------------------------------------------
(***************************************************************************)
(* libtorrent's view of a torrent: torrent.cpp, piece_picker.cpp.           *)
(***************************************************************************)
BlocksOfPiece(p) == {b \in Blocks : PieceOf[b] = p}
PayloadBlocks    == UNION {BlocksOf[f] : f \in Files \ PadFiles}
PaddingBlocks    == Blocks \ PayloadBlocks

\* Pieces of which every block is padding: there is nothing to download.
PaddingPieces ==
    {p \in Pieces : BlocksOfPiece(p) # {} /\ BlocksOfPiece(p) \subseteq PaddingBlocks}

\* update_piece_priorities: a piece is wanted when a wanted file that is not
\* a pad file has bytes in it; an empty file wants nothing.
WantedPieces(w) ==
    {PieceOf[b] : b \in UNION {BlocksOf[f] : f \in want[w] \ PadFiles}}

\* is_seed: every piece has passed.
IsSeed(w) == have[w] = Pieces

\* torrent::set_file_priority, ignored by a torrent that is already a seed.
set_file_priority(w, f, wanted) ==
    want' = IF IsSeed(w) THEN want
            ELSE [want EXCEPT ![w] = IF wanted THEN @ \cup {f} ELSE @ \ {f}]

\* status().progress >= 1: every payload block of the wanted pieces is
\* finished, whether or not its piece was hash-checked yet; nothing wanted
\* counts as done.  While files are being checked, progress is that of the
\* check, and below 1.
StatusDone(w) ==
    /\ phase[w] # "checking"
    /\ {b \in PayloadBlocks : PieceOf[b] \in WantedPieces(w)} \subseteq got[w]

\* file_progress()[f] / size of f: all bytes of a seed, none until a first
\* piece has passed, finished blocks otherwise.  (The code counts a passed
\* piece from its flush on, and blocks that are still being written or are
\* only partly there too; no property tells these apart.)
FileRatio(w, f) ==
    IF BlocksOf[f] = {} THEN "nan"
    ELSE IF IsSeed(w) \/ (have[w] # {} /\ BlocksOf[f] \subseteq got[w])
         THEN "full" ELSE "less"
-----------------------------------------------------------------------------
(***************************************************************************)
(* Start: the page has just shown the file list of a new downloader.  For a *)
(* torrent found in the cache, viewDidLoad marks the files that exist in    *)
(* the save path as complete; for one just fetched, all progress is 0.      *)
(* Verified pieces in the save path belong to files that exist there.       *)
(***************************************************************************)
initWithTorrent ==
    /\ selected = Files \ (PadFiles \cup HiddenFiles)
    /\ downloading = FALSE

OpenPage ==
    \E stored \in BOOLEAN, existing \in SUBSET Files :
        /\ progress = [f \in Files |->
                         IF stored /\ f \in existing THEN "full" ELSE "less"]
        /\ disk \in SUBSET {PieceOf[b] :
                              b \in UNION {BlocksOf[f] : f \in existing}}

Init ==
    /\ initWithTorrent
    /\ OpenPage
    /\ page = TRUE
    /\ bar = "less"
    /\ rows = progress
    /\ mainQ = <<>>
    /\ pc = [w \in Workers |-> "idle"]
    /\ idx = [w \in Workers |-> 1]
    /\ snap = [w \in Workers |-> FALSE]
    /\ outcome = [w \in Workers |-> "none"]
    /\ phase = [w \in Workers |-> "none"]
    /\ want = [w \in Workers |-> Files]
    /\ got = [w \in Workers |-> {}]
    /\ have = [w \in Workers |-> {}]
    /\ hashFails = 0
-----------------------------------------------------------------------------
(***************************************************************************)
(* Main thread: a tap on a row.  A row at 1.0 opens the image instead, and  *)
(* a tap while a download runs is dropped: neither changes this state.      *)
(***************************************************************************)
\* Faulty variant: the flag is not set when a worker is dispatched.
StartWithoutFlag(w) ==
    /\ pc[w] = "idle" /\ pc' = [pc EXCEPT ![w] = "load"]
    /\ UNCHANGED downloading

startDownload(w) ==
    /\ IF downloading THEN UNCHANGED pc
       ELSE pc[w] = "idle" /\ pc' = [pc EXCEPT ![w] = "load"]
    /\ downloading' = TRUE

\* Faulty variant: files are selected while a download runs.
SelectWhileDownloading(indexes, w) ==
    /\ selected' = indexes
    /\ startDownload(w)

downloadFileAtIndexes(indexes, w) ==
    /\ ~downloading
    /\ selected' = indexes
    /\ startDownload(w)

didSelectRow(f, w) ==
    /\ page
    /\ progress[f] # "full"
    /\ downloadFileAtIndexes({f}, w)
    /\ UNCHANGED <<page, bar, rows, mainQ, progress, idx, snap, outcome,
                   sessionVars, disk, hashFails>>

\* The user leaves the page: it is released and the weak delegate is nil.
PopPage ==
    /\ page
    /\ page' = FALSE
    /\ UNCHANGED <<downloading, selected, bar, rows, mainQ, progress,
                   workerVars, sessionVars, disk, hashFails>>

(***************************************************************************)
(* Main thread: the oldest posted block.  A message to the nil delegate     *)
(* does nothing.                                                            *)
(***************************************************************************)
\* Faulty variant: the file list is not redrawn.
SkipReload == UNCHANGED rows

\* [filelist reloadData], sent to the page if there still is one.
reloadData == rows' = IF page THEN progress ELSE rows

progressDidUpdate ==
    /\ mainQ # <<>> /\ Head(mainQ).kind = "progress"
    /\ mainQ' = Tail(mainQ)
    /\ reloadData
    /\ bar' = IF ~page THEN bar ELSE IF Head(mainQ).done THEN "full" ELSE "less"
    /\ UNCHANGED <<downloading, selected, page, progress, workerVars,
                   sessionVars, disk, hashFails>>

\* Faulty variant: the finish block does not reset downloading.
FinishWithoutReset ==
    /\ mainQ # <<>> /\ Head(mainQ).kind = "finish"
    /\ mainQ' = Tail(mainQ)
    /\ reloadData
    /\ UNCHANGED <<downloading, selected, page, bar, progress, workerVars,
                   sessionVars, disk, hashFails>>

btDownloaderDidFinishDownload ==
    /\ mainQ # <<>> /\ Head(mainQ).kind = "finish"
    /\ mainQ' = Tail(mainQ)
    /\ reloadData
    /\ downloading' = FALSE
    /\ UNCHANGED <<selected, page, bar, progress, workerVars, sessionVars,
                   disk, hashFails>>

MainThread ==
    \/ \E f \in Files, w \in Workers : didSelectRow(f, w)
    \/ PopPage
    \/ progressDidUpdate
    \/ btDownloaderDidFinishDownload
-----------------------------------------------------------------------------
(***************************************************************************)
(* Worker: the block that startDownload dispatches.                         *)
(***************************************************************************)
Goto(w, next) == pc' = [pc EXCEPT ![w] = next]

\* Faulty variant: the loop is not left.
MissingBreak(w, how) == Goto(w, "test") /\ UNCHANGED outcome

\* The block ends: what remains is the destructor of the session.
Leave(w, how) ==
    /\ Goto(w, "teardown")
    /\ outcome' = [outcome EXCEPT ![w] = how]

\* torrent_info is read again from the torrent file.
LoadTorrent(w) ==
    /\ pc[w] = "load"
    /\ \/ Goto(w, "add") /\ UNCHANGED outcome
       \/ Leave(w, "error")
    /\ UNCHANGED <<mainVars, mainQ, progress, idx, snap, sessionVars, disk,
                   hashFails>>

\* The torrent starts with every file wanted; blocks that hold nothing but
\* padding count as finished from the start, pieces of such blocks as passed.
AddTorrent(w) ==
    /\ pc[w] = "add"
    /\ \/ /\ Goto(w, "prio")
          /\ idx' = [idx EXCEPT ![w] = 1]
          /\ phase' = [phase EXCEPT ![w] = "resume"]
          /\ got' = [got EXCEPT ![w] = PaddingBlocks]
          /\ have' = [have EXCEPT ![w] = PaddingPieces]
          /\ UNCHANGED outcome
       \/ Leave(w, "error") /\ UNCHANGED <<idx, phase, got, have>>
    /\ UNCHANGED <<mainVars, mainQ, progress, snap, want, disk, hashFails>>

\* Faulty variants: the loop runs one file too far, or stops one short.
OneFileTooMany(i) == i <= NumFiles
OneFileTooFew(i)  == i + 1 < NumFiles

\* i < files.count, for the index after i.
MoreFiles(i) == i < NumFiles

\* file_priority(i, selected ? 7 : 0).  The call only posts to the session's
\* network thread, which may have checked the files by then; the worker's
\* later calls are answered after it.
FilePriority(w) ==
    /\ pc[w] = "prio"
    /\ set_file_priority(w, idx[w], idx[w] \in selected)
    /\ IF MoreFiles(idx[w])
       THEN idx' = [idx EXCEPT ![w] = @ + 1] /\ UNCHANGED pc
       ELSE Goto(w, "test") /\ UNCHANGED idx
    /\ UNCHANGED <<mainVars, mainQ, progress, snap, outcome, phase, got, have,
                   disk, hashFails>>

\* while (!h.is_seed())
TestSeed(w) ==
    /\ pc[w] = "test"
    /\ IF IsSeed(w) THEN Leave(w, "seed")
       ELSE Goto(w, "status") /\ UNCHANGED outcome
    /\ UNCHANGED <<mainVars, mainQ, progress, idx, snap, sessionVars, disk,
                   hashFails>>

Status(w) ==
    /\ pc[w] = "status"
    /\ snap' = [snap EXCEPT ![w] = StatusDone(w)]
    /\ Goto(w, "files")
    /\ UNCHANGED <<mainVars, mainQ, progress, idx, outcome, sessionVars, disk,
                   hashFails>>

\* The call of file_progress and the loop that stores its results: nothing
\* but the worker reads or writes what lies between them.
FileProgress(w) ==
    /\ pc[w] = "files"
    /\ progress' = [f \in Files |-> IF f \in selected THEN FileRatio(w, f)
                                    ELSE progress[f]]
    /\ Goto(w, "notify")
    /\ UNCHANGED <<mainVars, mainQ, idx, snap, outcome, sessionVars, disk,
                   hashFails>>

\* The delegate, if there still is one, is told of the progress.
PostProgress(w) ==
    /\ pc[w] = "notify"
    /\ IF page
       THEN /\ Len(mainQ) < QueueBound
            /\ mainQ' = Append(mainQ, ProgressBlock(w, snap[w]))
       ELSE UNCHANGED mainQ
    /\ Goto(w, "check")
    /\ UNCHANGED <<mainVars, progress, idx, snap, outcome, sessionVars, disk,
                   hashFails>>

\* status.progress >= 1: the finish block is posted for a delegate that still
\* exists, and the loop is left in any case.
PostFinish(w) ==
    /\ pc[w] = "check" /\ snap[w]
    /\ IF page THEN mainQ' = Append(mainQ, FinishBlock(w)) /\ Leave(w, "finish")
       ELSE Leave(w, "unheard") /\ UNCHANGED mainQ
    /\ UNCHANGED <<mainVars, progress, idx, snap, sessionVars, disk, hashFails>>

Sleep(w) ==
    /\ pc[w] = "check" /\ ~snap[w]
    /\ Goto(w, "test")
    /\ UNCHANGED <<mainVars, mainQ, progress, idx, snap, outcome, sessionVars,
                   disk, hashFails>>

\* ~session returns; until then the session's threads still run, possibly
\* beside those of the next download.
Teardown(w) ==
    /\ pc[w] = "teardown"
    /\ Goto(w, "done")
    /\ phase' = [phase EXCEPT ![w] = "none"]
    /\ want' = [want EXCEPT ![w] = Files]
    /\ got' = [got EXCEPT ![w] = {}]
    /\ have' = [have EXCEPT ![w] = {}]
    /\ UNCHANGED <<mainVars, mainQ, progress, idx, snap, outcome, disk,
                   hashFails>>

Worker(w) ==
    \/ LoadTorrent(w) \/ AddTorrent(w) \/ FilePriority(w) \/ TestSeed(w)
    \/ Status(w) \/ FileProgress(w) \/ PostProgress(w) \/ PostFinish(w)
    \/ Sleep(w) \/ Teardown(w)
-----------------------------------------------------------------------------
(***************************************************************************)
(* The session's own threads, in libtorrent: the check of what the save     *)
(* path holds, then the download.                                           *)
(***************************************************************************)
StartCheck(w) ==
    /\ phase[w] = "resume"
    /\ phase' = [phase EXCEPT ![w] = "checking"]
    /\ UNCHANGED <<mainVars, mainQ, progress, workerVars, want, got, have,
                   disk, hashFails>>

CheckPiece(w, p) ==
    /\ phase[w] = "checking"
    /\ p \in disk \ have[w]
    /\ have' = [have EXCEPT ![w] = @ \cup {p}]
    /\ got' = [got EXCEPT ![w] = @ \cup BlocksOfPiece(p)]
    /\ UNCHANGED <<mainVars, mainQ, progress, workerVars, phase, want, disk,
                   hashFails>>

\* With nothing in the save path the check is skipped.  A piece may be missed
\* by the check: it passes over the pieces of a file that is not there.
FilesChecked(w) ==
    /\ phase[w] \in {"resume", "checking"}
    /\ phase' = [phase EXCEPT ![w] = "active"]
    /\ UNCHANGED <<mainVars, mainQ, progress, workerVars, want, got, have,
                   disk, hashFails>>

\* A block arrives and is written.  It may belong to a piece that is no
\* longer wanted: requests made before the priorities were set are answered.
BlockFinished(w, b) ==
    /\ phase[w] = "active"
    /\ b \notin got[w]
    /\ got' = [got EXCEPT ![w] = @ \cup {b}]
    /\ UNCHANGED <<mainVars, mainQ, progress, workerVars, phase, want, have,
                   disk, hashFails>>

PiecePassed(w, p) ==
    /\ phase[w] = "active"
    /\ p \notin have[w] /\ BlocksOfPiece(p) \subseteq got[w]
    /\ have' = [have EXCEPT ![w] = @ \cup {p}]
    /\ disk' = disk \cup {p}
    /\ UNCHANGED <<mainVars, mainQ, progress, workerVars, phase, want, got,
                   hashFails>>

PieceFailed(w, p) ==
    /\ phase[w] = "active"
    /\ hashFails < MaxHashFails
    /\ p \notin have[w] /\ BlocksOfPiece(p) \subseteq got[w]
    /\ got' = [got EXCEPT ![w] = @ \ BlocksOfPiece(p)]
    /\ hashFails' = hashFails + 1
    /\ UNCHANGED <<mainVars, mainQ, progress, workerVars, phase, want, have,
                   disk>>

Session(w) ==
    \/ StartCheck(w)
    \/ FilesChecked(w)
    \/ \E b \in Blocks : BlockFinished(w, b)
    \/ \E p \in Pieces : CheckPiece(w, p) \/ PiecePassed(w, p) \/ PieceFailed(w, p)
-----------------------------------------------------------------------------
Next == MainThread \/ \E w \in Workers : Worker(w) \/ Session(w)

Spec == Init /\ [][Next]_vars

\* GCD keeps running a dispatched block, and the main run loop drains its
\* queue.  Nothing is assumed of the user or of the sessions: peers may never
\* answer.
Fairness ==
    /\ \A w \in Workers : WF_vars(Worker(w))
    /\ WF_vars(progressDidUpdate \/ btDownloaderDidFinishDownload)

FairSpec == Spec /\ Fairness
-----------------------------------------------------------------------------
(***************************************************************************)
(* Properties.                                                              *)
(***************************************************************************)
Queued(m) == \E i \in 1..Len(mainQ) : mainQ[i] = m

\* Every variable stays in its type; the index of the priority loop never
\* leaves torrentInfo.files.
TypeOK ==
    /\ downloading \in BOOLEAN
    /\ selected \in SUBSET Files
    /\ page \in BOOLEAN
    /\ bar \in {"less", "full"}
    /\ rows \in [Files -> Ratio]
    /\ mainQ \in Seq(QueuedBlock)
    /\ progress \in [Files -> Ratio]
    /\ pc \in [Workers -> ActivePC \cup {"idle", "teardown", "done"}]
    /\ idx \in [Workers -> Files]
    /\ snap \in [Workers -> BOOLEAN]
    /\ outcome \in [Workers -> {"none", "error", "seed", "finish", "unheard"}]
    /\ phase \in [Workers -> {"none", "resume", "checking", "active"}]
    /\ want \in [Workers -> SUBSET Files]
    /\ got \in [Workers -> SUBSET Blocks]
    /\ have \in [Workers -> SUBSET Pieces]
    /\ disk \in SUBSET Pieces
    /\ hashFails \in 0..MaxHashFails

\* startDownload gives the downloader to one worker at a time: no two workers
\* are in the loop together, downloading is YES as long as one is, and a
\* finish block that is still to reset downloading excludes every worker, so
\* that the reset never hits a later download.
SlotExclusive ==
    /\ \A v, w \in Workers : Active(v) /\ Active(w) => v = w
    /\ \A w \in Workers : Active(w) => downloading
    /\ \A i \in 1..Len(mainQ) : mainQ[i].kind = "finish" =>
           downloading /\ \A w \in Workers : ~Active(w)

\* The callbacks of one download never mix with those of another and arrive
\* in order: all queued blocks come from one worker, the one in the loop if
\* there is one; downloading is still YES when they run; nothing follows the
\* finish block.
NoStaleCallbacks ==
    /\ \A i, j \in 1..Len(mainQ) : mainQ[i].w = mainQ[j].w
    /\ \A i \in 1..Len(mainQ), w \in Workers : Active(w) => mainQ[i].w = w
    /\ mainQ # <<>> => downloading
    /\ \A i \in 1..Len(mainQ) : mainQ[i].kind = "finish" => i = Len(mainQ)

\* The loop that calls file_priority reads BTFile.selected while the main
\* thread could change it, and the session drops the calls it handles as a
\* seed: whenever the worker reads the status or the file progress, and until
\* it has acted on them, the session wants exactly the files that are selected.
\* Only at the test of the loop may it still want others, and then is_seed()
\* is true and the loop is left.
PrioritiesFollowSelection ==
    \A w \in Workers : pc[w] \in Polling =>
        want[w] = selected \/ (pc[w] = "test" /\ IsSeed(w))

\* status() is read, then acted on after two more calls and a post: unless a
\* piece fails its hash check meanwhile, all blocks of the selected files are
\* downloaded when the worker decides to finish, and still are while the
\* finish block waits and the session is being destroyed.
FinishIsSound ==
    hashFails = 0 =>
        \A w \in Workers :
            \/ snap[w] /\ pc[w] \in {"files", "notify", "check"}
            \/ pc[w] = "teardown" /\ Queued(FinishBlock(w))
            => \A f \in selected \ PadFiles : BlocksOf[f] \subseteq got[w]

\* downloading stays YES without a worker or a pending finish block only after
\* an end that posts none: a torrent file that cannot be loaded or added, a
\* complete torrent seen by is_seed(), or a page that was gone.
LeakOnlyBySilentEnd ==
    downloading =>
        \/ \E w \in Workers : Active(w) \/ Queued(FinishBlock(w))
        \/ \E w \in Workers : outcome[w] \in {"error", "seed", "unheard"}

\* BTFile.progress is written by the worker and drawn by reloadData in the
\* callbacks: with no callback on its way the visible rows show what was
\* stored last.
RowsUpToDate ==
    page /\ mainQ = <<>> /\ (\A w \in Workers : pc[w] # "notify")
        => rows = progress

\* The downloader with its threads, queue and sessions is a download slot.
Slot == INSTANCE DownloadSlot WITH busy <- downloading, sel <- selected

\* Reports and the reset of downloading happen only while the slot is taken,
\* the selection changes only when it is taken, and a page that is still there
\* has seen full progress before the download ends.
ImplementsSlot == Slot!SlotSpec

\* A worker whose selected files are downloaded for good leaves its loop.
NoEndlessPolling ==
    \A w \in Workers : ~ <>[](Active(w) /\ phase[w] = "active" /\ StatusDone(w))

\* Once the finish block is posted, the page can start a download again.
FinishReleases ==
    \A w \in Workers : Queued(FinishBlock(w)) ~> ~downloading

\* btDownloaderDidFinishDownload: when all of the torrent has been downloaded,
\* the page hears of it and the downloader is free again.
CompletionReported ==
    \A w \in Workers : Active(w) /\ IsSeed(w) ~> ~downloading \/ ~page

\* file_progress gives the bytes downloaded of each file: when all blocks of a
\* selected file are downloaded before the worker announces the end, the file
\* is shown as complete.
FinishShowsFile ==
    hashFails = 0 =>
        \A w \in Workers, f \in Files :
            /\ pc[w] = "check" /\ snap[w]
            /\ f \in selected \ PadFiles /\ BlocksOf[f] # {}
            => progress[f] = "full"
=============================================================================
