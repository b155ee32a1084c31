# A TLA+ model of TTTTTTorrent

TTTTTTorrent is an iOS application (Objective-C++) that lists the pages of a
site, fetches the torrent behind a page, and downloads single files of it with
libtorrent. The program's own code is about 2,000 lines under `TestBB/`; almost
everything else in the repository is vendored (libtorrent, boost, Masonry,
MJRefresh, SDWebImage, NudeIn, OCGumbo). This directory models the program's own
code and the part of the vendored libtorrent that decides what the program shows as
downloaded: the piece picker, the way of a piece from the peers to the disk, and the
fence that orders the disk jobs of a torrent.

Paths below are relative to `src/TestBB/`.

## The system

### Components, their state and how they interact

| component | state | operations | talks to |
|---|---|---|---|
| `RootList` (`TestBB/RootList/RootList.m`) | `rows`, `nextPage`, an MJRefresh header and footer | header reload, footer load, the two answers | Cosxcos; pushes a detail page |
| `Cosxcos` (`Cosxcos/Cosxcos.m`) | none | `loadPage`, `loadDetail`, `downloadTorrent` | NSURLSession; answers by a block on the main queue |
| `DetailList` (`TestBB/DetailList/DetailList.m`) | `detail`, `downloader` | `viewDidLoad`, `downloadTorrent`, `parseTorrent`, `downloadFileAtIndexes`, the two delegate callbacks | Cosxcos, TorrentMaker, DetailListCache, TorrentDownloader |
| `DetailListFilesCell` (`.../DetailListCell.m`) | button, spinner, list | tap on the button, tap on a row, `displayAndUpdateFilelist` | DetailList |
| `DetailListCache` (`.../DetailListCache.m`) | a dictionary per url in NSUserDefaults; files in the temporary directory | `storeTorrent`, `storedTorrent` | survives the process |
| `TorrentMaker` (end of `LibTorrent/HKTorrent/TorrentDownloader.mm`) | none; a thread and a session per call | `downloadTorrentFromMagnet` | libtorrent; answers on the main queue |
| `TorrentDownloader` (`.../TorrentDownloader.mm`) | `downloading`, `torrentInfo`, a weak `delegate` | `startDownload` and the worker it dispatches | libtorrent; posts callbacks to the main queue |
| `TorrentInfo`, `BTFile` (`.../TorrentInfo.mm`) | files with `selected`, `progress`, `hidden`, `isPadFile` | `infoWithfile`, piece ranges | shared by worker and page |
| libtorrent `piece_picker` (`LibTorrent/torrent/piece_picker.cpp`) | pieces that are there, filtered or in download; state of each block; counters and cursors | marks for requested, writing, finished, failed, passed, locked | `torrent`, `peer_connection` |
| libtorrent `torrent`, `peer_connection` (same directory) | requests of each peer, upload mode | requests, incoming blocks, results of disk jobs | picker, disk threads |
| libtorrent `disk_io_thread`, `disk_job_fence` (`disk_io_thread.cpp`, `storage.cpp`) | job queue, block cache, fence with its counters and blocked jobs | `async_write`, `add_job`, `add_fence_job`, the thread pool | calls handlers in the network thread |
| `ImageDisplayer`, categories, application shell | display only | | |

The hard parts are where threads meet. The worker of a download and the main
thread share `selected`, `progress` and `downloading` without a lock; the worker
posts blocks that run later; the session goes on between any two calls of the
worker; the page may disappear at any moment; requests of pages that were left go
on and are answered; the process may be killed and the temporary directory purged;
a page that is opened again starts a second session on files the first one still
writes. Inside libtorrent several disk threads complete jobs that the network thread
hears of later and in another order, while peers come, go and send the same block
twice.

What makes each component correct:

* **TorrentDownloader**: one worker at a time; the reset of `downloading` never
  hits a later download; callbacks of different downloads do not mix; the session
  wants exactly the selected files, unless it has everything; the end is announced only when the selected
  files are there; the rows show what was stored.
* **DetailList with cache and TorrentMaker**: a page works on its own torrent,
  never drops a downloader whose worker may be running, records what was fetched,
  and does not spin without reason.
* **RootList**: no page twice, no page skipped, no control that spins forever.
* **Pages opened again**: a row shown as complete is complete; good data on disk is
  not overwritten.
* **Fence**: a fence job runs alone, after everything before it and before everything
  after it; every job runs once; no fence waits for ever.
* **Picker and piece flow**: counters and queues agree with the blocks, a block is
  given up only by its last peer, a piece that counts as there is on disk, a piece
  that is complete or locked is decided.

`PROJECT.json` lists every component, and under `hazards` each place where this can
go wrong, with the properties that watch it.

## Modules

| module | stands for |
|---|---|
| `DownloadSlot` | abstract: what a downloader promises its page, without threads |
| `TorrentDownloader` | `startDownload` with its workers, the main queue, the page's part in it, and the sessions |
| `MCTorrentDownloader` | small torrents for TLC |
| `TorrentDownloaderProofs` | proofs, with the refinement of `DownloadSlot` |
| `DetailListCache` | defaults and temporary directory |
| `DetailList` | detail pages, their requests, TorrentMaker, restarts; extends `DetailListCache` |
| `MCDetailList`, `DetailListProofs` | constants for TLC, proofs |
| `RootList`, `RootListProofs` | the table and its two refresh controls, proofs |
| `Reopen`, `MCReopen`, `ReopenProofs` | one torrent visited several times: pages, downloaders, sessions and the temporary directory together |
| `DiskJobFence`, `DiskJobFenceProofs` | `disk_job_fence` and the paths of `disk_io_thread` to it, proofs |
| `PiecePicker`, `PiecePickerProofs` | the class `piece_picker` as operators on a record; what each operator keeps |
| `PieceFlow`, `MCPieceFlow` | peers, torrent and disk around the picker; extends `PiecePicker` |
| `PieceFlowProofs` | types of the flow, the picker's totals |
| `PieceStateProofs` | what the steps do to one piece: its jobs, its passing, its blocks, what is on disk, who owes it |

### TorrentDownloader

Three kinds of actors: the main thread (a tap, or the oldest block of the main
queue, is one step), one worker per call of `startDownload`, and the threads of
each session. A worker is one statement group per action, in the order of the code:
`LoadTorrent` (lines 46-57), `AddTorrent`, `FilePriority` (once per file),
`TestSeed`, `Status`, `FileProgress`, `PostProgress`, `PostFinish` or `Sleep`,
`Teardown`. What the code holds in local variables is `idx` and `snap`; `outcome`
is a history variable that records how a worker left its loop. The session's
actions (`StartCheck`, `CheckPiece`, `FilesChecked`, `BlockFinished`,
`PiecePassed`, `PieceFailed`) are a coarse view of `torrent.cpp`, as much as `is_seed`,
`status` and `file_progress` show of it; `PieceFlow` has the detail. `AddTorrent` marks
the padding blocks as finished and pieces of nothing but padding as there
(`torrent::init`); `file_priority` ends in `set_file_priority`, which a torrent that is
already a seed ignores (`torrent.cpp:5647`).

Abstractions, and why they are safe for the properties:

* Progress is `less`, `full` or `nan`: the program compares with 1.0 only. Rounding
  of the float is left out (listed as a hazard).
* Bytes are blocks. `file_progress` gives zeros as long as no piece has passed,
  as the library does, and otherwise counts finished blocks. The library tests pieces
  that have passed *and are flushed*, and also counts blocks that are being written or
  received: here a block is `got` when it counts and a piece passes when it is there, so
  the moments in between belong to the step before or after. No property tells these
  moments apart.
* The call of `file_progress` and the loop that stores its answer are one step;
  nothing else writes what lies between them. The stores of the individual files are
  not separated: a row drawn in the middle of them is redrawn by the progress block
  that follows.
* Any block may arrive in an active session, also one that is not wanted (a request
  made before the priorities were set may be answered); a check of existing data may
  miss pieces. Both allow more than the library does.
* A posted session call (`file_priority`) takes effect at once. The calls that read
  the session are answered by the same thread after it.
* A read of the weak delegate is a test of `page`. After the page is gone, messages
  do nothing, while the block still resets `downloading`.

### DetailList and DetailListCache

A page is a model value that is opened at most once; its url is picked in `Init`
(the choice is visible to nothing before the page is opened). The request for the
torrent file is the variable `fetch`, which says what the request does next; `path`
is its answer. `Kill` forgets everything but `defaults` and `tmp`, and lets the
system remove any files of the temporary directory.

* `DetailListCache` never allocates its dictionary of singletons, so each use reads
  a fresh copy of the stored dictionary. Each use stays within one turn of the main
  thread: no copy is stale and the semaphore is never contended.
* `storeTorrent` moves a file onto itself, because both sources already put it in
  the temporary directory; what remains is the record.
* A file holds nothing (`absent`), something that is no complete torrent
  (`damaged`), or the torrent of a url. `TorrentMaker` opens its file with `trunc`
  (`OpenFile`) and writes it in a second step (`WriteTorrent`), which the code does
  not test. `downloadTorrent` of Cosxcos looks at the error only, not at the status of
  the response, so that what is stored may be no torrent.
* `torn` is a history variable: the files made while they existed or were recorded
  already, those cut short, and those that were no torrent when they came. It is what
  lets `RecordedIsOwn` say precisely when a recorded file can be unusable.
* Names: a UUID is named by the page that asked, the name of a magnet's torrent by
  `MagnetName`. Two magnets may share a name, and then share a file. `Namesakes(u)`
  are the urls for which this happens; the properties allow their torrents, because
  the code really confuses them.

### RootList

A page's rows are its number. A control goes through `idle`, `begun`, `loading` and
`ending`, as the states and posted blocks of the vendored MJRefresh do
(`Pods/MJRefresh/MJRefresh/Base`); header and footer are independent. How far a gesture
has to go is left out: an idle control may begin at any time. `loadPage` is its answer, or nil.

### Reopen

`DetailList` ends where a page has a downloader, and `TorrentDownloader` follows one
downloader. `Reopen` composes what is left: visits one after another, each with a page,
a downloader and its sessions, over one temporary directory that survives kills.

* A visit after the first finds the stored torrent and takes every file that exists for
  complete (`StoredFiles`, `DetailList.m:38-41`). A file exists from its first write.
* Each download opens a session from a pool (`Sessions`, of which `owner` says whose it
  is). A tap looks at `downloading` only, as the code does, so the next session of a page
  may open while the destructor of the one before still writes; so may one of a later
  visit beside the worker of a page that was left.
* The worker's loop is one step per turn (`Poll`), with the callbacks it posts; the finer
  interleaving is checked in `TorrentDownloader`. When the page is left, the worker and
  its session go on; the finish block is not posted, and `downloading` stays.
* A session hashes what is on disk (`CheckFiles`), receives what it misses, writes it
  before or after the hash, and writes all of its cache at the end (`Close`). A piece of
  any file may arrive: all files are wanted until the priorities are set, and what was
  requested before is answered after. Pieces arrive as a whole, but their first blocks may
  be written earlier (`FlushPart`), over whatever is there: they leave the piece
  incomplete, complete what another session or an earlier run left, or spoil it. Sessions
  do not see each other's writes, except through the disk.
* Pieces belong to one file each: with files that share a piece, libtorrent's part file
  would be needed, which is not modelled.
* History variables name the causes: `partial` (a file that existed incomplete when the
  page opened), `hasty` (counted before the hash), `crossed` (pieces that became good on disk
  after the session's check other than by its writing the whole piece), `damaged`. Each of the three exceptions of
  `FullRowExplained` is needed: without any one of them TLC finds a counterexample.

### DiskJobFence

The network thread issues writes, other jobs and fence jobs; disk threads take jobs,
perform them, tell the fence, and pass on what it releases. The critical sections of the
code are the steps: `job_complete` under the fence's mutex (`Complete`), the insertion of
released writes under the cache's (`InsertWrites`), queueing the others under the queue's
(`QueueOthers`), and each `flush_hashed` job through the fence again (`AddHashed`). A
write is in the cache from its first step on and completes when some job flushes it:
`flush_storage` takes all, any other job any part, which includes the expiry of the
cache, since that too is only looked at when a thread takes a job. Names of jobs are
used once; `issued` and `finished` are history. Left out: a job that answers `retry_job`
(`disk_io_thread.cpp:1142-1160`; a hash or a clear of a piece another thread is at) and
goes to the end of the queue, and one that answers `defer_handler` (line 1162). Both keep
their `in_progress` flag and stay outstanding, so to the fence they are jobs that take
longer; a retry ends with the other thread's work on the piece.

### PiecePicker and PieceFlow

A picker is a record and its operations are operators, one per method, with early
returns and the trailing `update_piece_state` included. `m_downloads` with its five
queues and `m_block_info` are one function `dl`; a piece with queue `open` has no entry.
Which piece is picked first is left out: any block that may be picked can be requested.

`PieceFlow` gives each handler of the network thread an action. Two handlers contain a
loop that changes the picker once per round: `disconnect` gives up the requests of a
peer one by one (`empty_download_queue`; `leaving` holds the peers that are not through),
and `prioritize_pieces` sets the pieces one by one (`prioritize_next`; `setting` is the
loop's state). The rounds are actions of their own, and every other action waits until
no loop is running (`Idle`), as the single network thread does. The disk threads wait
too: a loop touches the picker and the requests, a disk job touches `jobs`, `disk` and
`faults`, so a disk step between two rounds can be put before or after the loop without
any state of interest being lost. `jobs` holds the disk
jobs whose handlers were not called yet; a job is performed when the fence lets it
(`MayRun`, the order `FenceOrder` shows for `DiskJobFence`), and its handler is called
any time after. That the handlers may be called in another order than the jobs were
performed is what the code does: `add_completed_jobs_impl` tells the fence of a job
(`disk_io_thread.cpp:3437`), which releases the fence job behind it to another thread,
before it appends the job to `m_completed_jobs` (line 3559).

Data are `good` or `bad`. After a failed write the cache keeps the block as clean, so
that a hash may still see it: `ghost`. A hash sees the cache first, then the disk. An
error has one of three outcomes, by its kind: upload mode, a peer disconnected, the
torrent paused.

Where the model is coarser than the code it allows more: any eligible block may be given
up by `snub_peer` (the code takes the last of the queue, spares a peer on parole, and
makes the new request in the same call); the requests that `set_upload_mode` takes back
from peers that stay (`torrent.cpp:1145`) are given up later, one by one, as if rejected;
a seed takes the arriving block off the queue, not the first one
(`peer_connection.cpp:2730-2744`); a hash job that has to be retried simply has not run.
The reset of equal cursors when a piece is unfiltered (`piece_picker.cpp:1823-1827`) cannot
be reached and is not in `Unfilter`.

Two exceptions run through the properties. `late` holds the pieces for which the
clearing of a failed piece and a write of it were reported in the wrong order; `failed`
those that met a disk error. In both cases the code really leaves its invariants:

* `late`: `on_piece_sync` restores the piece, and the report of the older write then
  marks its block as finished in the new entry. Without the exception `EntriesAgree`,
  `HaveIsOnDisk` and `PieceDecided` are violated; `CountsOk` holds without it.
* `failed`: `write_failed` locks the piece, and `on_piece_fail_sync` does not restore it,
  contrary to the comments at `torrent.cpp:1210-1212` and `piece_picker.hpp:190-197`;
  requests of other peers outlive the entry, and a piece may pass twice.

### How they fit together

`DiskJobFence` justifies how `PieceFlow` orders disk jobs; `PieceFlow` justifies the
coarse session of `TorrentDownloader` and `Reopen` (a block is finished when it is
written, a piece is there when it has passed and is written); `DetailList` gives the
states in which a downloader begins, and `Reopen` joins pages, downloaders and sessions
over the files. These links are by reading, not by refinement; the refinement that is
checked and proved is that of `DownloadSlot` by `TorrentDownloader`.

## Runs

| run | instance | states | shows |
|---|---|---|---|
| `downloader_safety` | 2 downloads, 2 files sharing a piece, one hidden, queue 2, one hash failure, symmetric workers | 763,864 | all safety properties and the refinement of `DownloadSlot` |
| `downloader_padding` | 4 files, one padding, one empty, a piece of padding only | 2.2 million | selection and end where nothing is wanted |
| `downloader_liveness` | 2 downloads, 2 one-block pieces | 240,800 | no endless polling; a posted end frees the downloader |
| `downloader_completion` | 1 download | | **violated**: a complete torrent may end without being reported |
| `downloader_shown` | 1 download | | **violated**: a finished file may be shown as incomplete |
| `detail` | 2 page openings, a torrent link, two magnets of one name, a page without link | 14,234 | cache and downloader hold the right torrent; a downloader is never replaced; a fetched torrent is recorded; the spinner ends |
| `rootlist` | pages 1 to 6 | 912 | order of the pages, controls end |
| `reopen` | 2 visits, 2 sessions, 2 files of a piece each (symmetric), 1 damaged piece, 1 kill | 2.9 million | when a full row can be wrong, when good data is overwritten |
| `fence` | 2 disk threads, 1 write, 1 other job, 2 fences | 45,763 | exclusion, barrier, counters, no job lost, fences wait only behind a late write |
| `fence_stall` | the same without the other job | | **violated**: a fence's flush may miss a write, and the fence is not executed |
| `flow` | 2 peers, pieces of 2 and 1 blocks, 3 requests, 1 fault, 1 change of priorities | 566,132 | the picker agrees with peers and disk; pieces are decided |
| `flow_have` | 2 peers, 1 block, 2 requests, 2 faults | | **violated**: a piece may count as there with damaged data on disk |

Bounds. Two workers are enough for one download to follow another while blocks of the
first are queued and its session is being destroyed; a third could only repeat that,
and the theorems hold for any number. `QueueBound` delays a progress post when the
main thread is behind; the finish block is never delayed. Files that share a piece,
and a piece with several blocks, are what makes "downloaded" and "verified" differ.
Two page openings allow a fetch and a second fetch or a reader of the same file; kills
are unbounded, since a killed page is not reopened; the safety properties of the pages
are proved for any number. Two visits and two sessions are enough for overlaps within
a page and across pages, and with a kill for a restart; the theorems hold for any number of
visits, sessions, kills and damaged pieces. The two files of `reopen` are interchangeable
with their pieces (`SwapFiles`), which the symmetry uses. Two fences are needed for one to be raised while the other ends. Three requests
reach end game (one block asked for twice) beside another block, or one block asked for
again after it was lost; one fault is a damaged block or a disk error, and `flow_have`
needs one of each. Deadlock is not checked where a run may really stop: the page is gone
and the workers have ended, the visits are used up, the jobs or the requests are used up
and nothing is under way.

Fairness. Workers are weakly fair, since a dispatched block keeps running and none
of its statements waits for another thread of the program; the blocks of the main
queue are weakly fair, since the run loop drains it; NSURLSession answers each task,
with an error after its timeout. Of libtorrent, the disk threads are weakly fair (each
one in `DiskJobFence`, the pool in `PieceFlow`), since none of their steps waits for
anything but the job queue, and so are the calling of handlers, which is posted to the
network thread's loop, and the rounds of a loop the network thread is in (`Loops`). Nothing is assumed of peers, of metadata or of the
user. `NoEndlessPolling` therefore says only that a worker whose data is there does
not go on, and `SpinnerEnds` excepts a wait for metadata.

### What the four violations mean

* `CompletionReported`. The loop runs `while (!h.is_seed())` and announces the end
  only inside, after a status of 100%. If the last piece of the torrent passes
  between two polls, the loop ends silently, `downloading` stays YES, and no file of
  that page can be downloaded any more. `LeakOnlyBySilentEnd`, which holds, lists all
  ways to this state: that one, a torrent that fails to load, and a page that is gone.
* `FinishShowsFile`. `file_progress` answers zeros until a first piece has passed its
  check, while `status().progress` counts blocks. A small file can be announced as
  finished and be left at 0 on the page.
* `FenceRuns`. A write that the end of one fence releases counts as outstanding before it
  is in the cache. The flush of a fence raised in between finds nothing; the write then
  waits in the cache, its own flush is blocked by the fence, and the fence waits for the
  write. Expired blocks are written only when a thread takes another job, and all jobs of
  the torrent are blocked. `StuckOnlyByLateWrite`, which holds, says that a fence can wait
  for ever only after such a write was in the cache (a moment is enough to discharge it).
* `HaveMeansFlushed`. In end game the write of a block fails after the piece was hashed.
  The copy another peer still sends is not cancelled, since the block is not marked as
  requested while it is written. If that copy is damaged, it completes the piece, and the
  hash result of the first copy is accepted for it. `HaveIsOnDisk`, which holds, says that
  it takes a disk error (or a report out of order).

Things the model reaches that no sentence of the repository contradicts are described
as hazards: page 1 reloaded while `nextPage` stays (a hole below page 1), a spinner
without a request, a stored error page that hides the button for good.

## Proofs

All for any number of workers, pages, files, urls, jobs, threads, peers and blocks, from
the assumptions next to the constants: a torrent layout that is a function of blocks and
files (`LayoutAssumption`), positive bounds, UUIDs different from torrents' names
(`NamesAssumption`), `MaxPage > 1`, for `Reopen` that every piece has a file
(`FileOfAssumption`), for the picker that there is a piece and every piece has a block
(`BlocksAssumption`), for `PieceFlow` that peers are finite and bounds are numbers
(`FlowAssumption`). `DiskJobFence` needs none.

* `TypeCorrect`, `DetailTypeCorrect`: the type invariants; every later proof uses them.
* `SlotSafe`: `SlotExclusive /\ NoStaleCallbacks` is inductive. Exclusion needs the
  queue: a finish block excludes active workers, because it will reset `downloading`;
  that only one can be queued follows from callbacks being of one worker and nothing
  following the finish block.
* `SelectionKept`: `PrioritiesFollowSelection` is strengthened by the progress of the
  loop: a worker at index `idx` has set the files below it, unless its torrent is a seed,
  and `selected` cannot change meanwhile because `downloading` is YES (from `SlotSafe`). A
  call that was ignored means a seed, and a seed stays one: no piece is lost once it has
  passed. Such a worker is at the test of its loop and leaves it there, so everywhere else
  in the loop the session wants exactly the selected files. The exception is needed: with
  all data on disk the check may end before the calls are handled.
* `SlotImplemented`: `Spec => ImplementsSlot`. The mapping is direct (`busy` is
  `downloading`, `sel` is `selected`); what must be shown is that the finish block
  finds `bar = "full"`. `ReportInv` follows the report to its place: a full report
  stands before the finish block in the queue, or has been shown already, from the
  moment the worker has passed the progress post.
* `DownloaderKept`: `PagesInv` says that a request is under way only behind a spinner
  after the detail page arrived, so the two places that make a downloader exclude each
  other.
* `CacheKeepsOwn`, `PageOwnsTorrent`: `FilesInv`. A file belongs to the url of the page
  that asked for it (UUID) or to the magnets of its name; files hold, records and answers name,
  only what belongs. An answer on its way counts like a record, and its file exists:
  without this the opening of a file between answer and record would not be seen.
  `WritingInv` and `MakerInv` give the facts about a TorrentMaker in between.
* `LeaksAreExplained`, `RowsAreCurrent`: inductive with the types. A worker that leaves
  its loop either posts its finish block or records why it did not; what is stored and
  not shown has a worker or a block on its way that will redraw it.
* `FinishesAreSound`: at `status()` and after it the session wants exactly the selected
  files (`SelectionKept`, and the slot keeps the selection), so a status of 100% says that
  every block of a selected file is finished. Blocks are lost again only by a failed
  hash, which the property excepts.
* `PagesInOrder`: `NoPageTwice` and `NoHoleBelowFirst` from one invariant (`PagingSafe`)
  that gives each row's page number by its position; `PagingTypes` from the same.

* `ReopenTypeCorrect`, with `Fresh`: a session that has not checked the files knows nothing
  of any piece, so it has nothing to write.
* `DamageNeedsStaleCheck`: `PieceInv` says for each session and piece what the session
  knows. A piece it counts as missing, or holds damaged, is not good on disk unless it
  became so after the session's check (`crossed`): written by another session, or completed
  by its own first blocks over what was left there. A write of damaged data over good data
  is therefore that of such a session. `WriteKeeps` carries this over a write of any set of
  pieces by any session.
* `RowsAreExplained`: `RowInv` adds that a full row rests on pieces that are good on disk
  or on their way there from a session of the same visit, or is excused. A piece on its way
  stays so until it is written (`ComingStays`), and what a write by another session spoils is
  in `damaged`.

* `DiskJobFence`: `FenceTypeCorrect`, `FencesAreExclusive`, `FenceCounters`, `JobsAreKept`,
  `FencesAreBarriers`, all from one inductive invariant `IInv`. `FenceState` is about the
  fence alone: the jobs it holds back are the last ones issued, in order, and those let
  through the ones before (`Prefix`); the counters are the sizes of these sets (`Counts`);
  a job on one side of a fence job starts only when the other is finished (`Order`); what
  is blocked waits for something on its way (`HeadOfLine`). It is stated for any values of
  the variables, so that a step which brings two jobs to the fence is reasoned about one
  job at a time. `Places`: a job on its way is in exactly one place (queue, cache, hands
  of one thread). `ThreadState`: what a thread holds at each point. `Fresh`: a flush job is
  issued once. None of the five properties is inductive by itself: exclusion needs the
  counters, the counters need the prefix, and that no job is lost needs the places.
* `PiecePickerProofs`: each operation of the picker keeps `PickerOk`: the entry of a piece
  is there exactly while some block is in use; each counter of it is at least the number of
  blocks in that state; totals and cursors agree with the pieces; `num_passed` is at least
  the number of pieces that are there or have passed. The two inequalities are the most
  that holds whatever the callers do: after a disk error a block may be counted as
  requested and finished at the same time (`mark_as_finished` of a block that is neither
  writing nor finished), and a piece may pass twice.
* `FlowTypeCorrect`, `TotalsAgree`: `FlowOk` adds the types of queues, jobs and loops. That
  no counter goes below zero and that totals and cursors agree therefore holds in every
  state of the flow, disk errors and late reports included.
* `PassedCounted`: `CountsOk`. `Frame` says that a step concerns one piece and at most one
  job, so only that piece is looked at. `Checked` is the inductive part: while no disk
  error has met it, a piece has at most one job that hashes or clears it, only while it
  is complete and has not passed; one that has passed is complete; one that is there has
  no entry. A second hash job, or a hash of a piece that has passed, is what would count a
  piece twice.

* `EntriesCounted`, `WritesFollowed`: `EntriesAgree` and `WritingIsWritten`, from
  `AllTracked`. For a piece that no disk error and no late report has met, the counters of
  its entry are exact, a block that is writing has exactly one write job, and every write
  job of the piece stands before its hash or clear job. The order is what makes it
  inductive: `on_piece_sync` frees the blocks of a failed piece, and may do so only when no
  write of it is on the way; `late` records the exception. `Checked` is needed as well: a
  block that arrives finds no hash or clear job of its piece, so its write job goes behind
  none.

* `HavesAreOnDisk`: `HaveIsOnDisk`, from `AllStored`. Of a piece that is there, has passed or
  whose hash job is back with success, every pending write holds good data and every
  block without one is good on disk, or in the cache only (`ghost`); a ghost belongs to a
  failed write whose handler is still to run, so a piece that is there has none. That the
  hash saw these data rests on `AllTracked`: the writes stand before the hash job in the
  queue, so when the fence lets the hash job pass it lets them pass too, and the hash finds
  them in the cache. `Checked` says that no clear job takes the data away afterwards.
* `OwedCounted`: `RequestsCounted`, from `AllOwed`: while a piece is not there, `num_peers`
  of a block that is neither writing nor finished is the number of peers that have it in
  their queue and not flagged as stale. Blocks nobody was asked for are included, which the
  property does not say: without them a peer could hold a block that is free, and its
  `abort_download` would be one too many later. `AllTracked` gives what `abort_download`
  needs, that the entry goes only when no other block of it is requested.

Only model-checked: liveness (`NoEndlessPolling`, `FinishReleases`, `FetchIsKept`,
`SpinnerEnds`, `RefreshEnds`, `StuckOnlyByLateWrite`, `PieceDecided`), which needs
fairness and ENABLED, out of the prover's reach. Every invariant and every action property
of the passing runs is the statement of a theorem.

## Not modelled

The repository has some 2.6 million lines, nearly all of them vendored headers (boost)
and libraries; the models cover the program's own logic and the core of libtorrent's
download path.

* The rest of libtorrent: connections and wire protocol, choking, trackers, DHT, uTP,
  web seeds, bandwidth, alerts, settings, resume data, the order in which pieces are
  picked, the block cache's memory and eviction, file handles and the part file. The
  program reaches them only through `add_torrent`, and no property here depends on them.
* The other vendored libraries (boost, MJRefresh but for its states, Masonry, SDWebImage,
  NudeIn, OCGumbo).
* Reading HTML, layout, fonts, images, printing: no state, or none that matters here. A
  page without the expected table throws and ends the process.
* `storeImage` and `storedImageForName` of the cache: nothing calls them.
* `BTFilePiecesInfo`, `firstPiece` and `lastPiece` of `TorrentInfo`: nothing but `dump`
  reads them.
* Rounding of `progress` to a float, and byte counts in general.

## Plan

1. The safety half of `PieceDecided` as a theorem: a complete or locked piece that is not
   there, and that no disk error or late report has met, has a job that will decide it.
2. Files that share a piece, and the part file, in `Reopen`.
