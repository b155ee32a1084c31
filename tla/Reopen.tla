------------------------------- MODULE Reopen -------------------------------
(***************************************************************************)
(* One torrent, visited again and again.  DetailList.viewDidLoad makes a    *)
(* new TorrentDownloader at every visit and takes the files that exist in   *)
(* the temporary directory for complete; the worker of an earlier visit may *)
(* still be running its own session on the same files, and the app may have *)
(* been killed in the middle of a download.                                 *)
(*                                                                          *)
(* Here a visit is the page and its downloader.  Each download opens a      *)
(* session; the one before may still be in its destructor, writing what it  *)
(* has cached, when the next one starts, in the same visit or a later one.  *)
(* A turn of the worker's loop with the callbacks it posts is one step (the *)
(* finer interleaving is module TorrentDownloader), and a piece is received *)
(* as a whole (blocks are module PieceFlow).  Files begin at the start of a *)
(* piece: a piece is of one file, and libtorrent's part file stays empty.   *)
(***************************************************************************)
EXTENDS Naturals, FiniteSets

CONSTANTS
    Files, Pieces,
    FileOf,         \* FileOf[p]: the file that piece p is part of
    Sessions,       \* bound: sessions that exist at the same time
    MaxVisits,      \* bound: visits of the page
    MaxBad,         \* bound: pieces that arrive damaged
    MaxKills        \* bound: deaths of the process

ASSUME FileOfAssumption == FileOf \in [Pieces -> Files]
ASSUME BoundAssumption == MaxVisits \in Nat /\ MaxBad \in Nat /\ MaxKills \in Nat

Visits == 1..MaxVisits

VARIABLES
    \* visits
    page,           \* "later", then "open", then "left" or "gone" (killed)
    full,           \* files with BTFile.progress = 1.0
    downloading, selected,
    \* sessions
    owner,          \* the visit whose downloader opened the session, or 0
    sess,           \* none, checking, active, closing (in its destructor)
    cell,           \* the session's picker: unknown, missing, written, have
    mem,            \* contents of the pieces it holds in memory
    dirty,          \* those of them that are not on disk yet
    \* the temporary directory
    stored,         \* contents of the pieces in it
    bad, kills,
    \* history
    partial,        \* files that existed, incomplete, when the page opened
    hasty,          \* files that became full on pieces not yet hash-checked
    crossed,        \* pieces that became good on disk after the session's
                    \* check, other than by its writing the whole piece
    damaged         \* pieces that were good on disk and were overwritten

pageVars    == <<page, full, downloading, selected, partial, hasty>>
sessionVars == <<owner, sess, cell, mem, dirty>>
diskVars    == <<stored, crossed, damaged>>
vars == <<pageVars, sessionVars, diskVars, bad, kills>>

PiecesOf(f) == {p \in Pieces : FileOf[p] = f}
Unchecked   == [p \in Pieces |-> "unknown"]
Nothing     == [p \in Pieces |-> "none"]
Running(s)  == sess[s] \in {"checking", "active"}
Alive(v)    == page[v] \in {"open", "left"}

\* A file is created by the first write to it.
Existing    == {FileOf[p] : p \in {q \in Pieces : stored[q] # "none"}}
Complete    == {f \in Files : \A p \in PiecesOf(f) : stored[p] = "good"}
-----------------------------------------------------------------------------
Init ==
    /\ page = [v \in Visits |-> "later"]
    /\ full = [v \in Visits |-> {}]
    /\ downloading = [v \in Visits |-> FALSE]
    /\ selected = [v \in Visits |-> Files]
    /\ owner = [s \in Sessions |-> 0]
    /\ sess = [s \in Sessions |-> "none"]
    /\ cell = [s \in Sessions |-> Unchecked]
    /\ mem = [s \in Sessions |-> Nothing]
    /\ dirty = [s \in Sessions |-> {}]
    /\ stored = Nothing
    /\ bad = 0 /\ kills = 0
    /\ partial = [v \in Visits |-> {}]
    /\ hasty = [v \in Visits |-> {}]
    /\ crossed = [s \in Sessions |-> {}]
    /\ damaged = {}
-----------------------------------------------------------------------------
(***************************************************************************)
(* The page.                                                                *)
(***************************************************************************)
\* Faulty variant: one file in the directory marks them all.
AllIfAny == IF Existing = {} THEN {} ELSE Files

\* fileExistsAtPath, for every file of a torrent that was stored.
StoredFiles == Existing

\* The page is shown; visits come one after another, and the first of them
\* fetches the torrent, which leaves all progress at 0.
viewDidLoad(v) ==
    /\ page[v] = "later"
    /\ \A u \in Visits : u < v => page[u] \in {"left", "gone"}
    /\ page' = [page EXCEPT ![v] = "open"]
    /\ IF v = 1 THEN UNCHANGED <<full, partial>>
       ELSE /\ full' = [full EXCEPT ![v] = StoredFiles]
            /\ partial' = [partial EXCEPT ![v] = Existing \ Complete]
    /\ UNCHANGED <<downloading, selected, hasty, sessionVars, diskVars, bad,
                   kills>>

\* A row below 1.0 is tapped while nothing is downloading: startDownload opens
\* a session s, whether or not the one before has been destroyed.
didSelectRow(v, f, s) ==
    /\ page[v] = "open" /\ ~downloading[v] /\ f \notin full[v]
    /\ sess[s] = "none"
    /\ selected' = [selected EXCEPT ![v] = {f}]
    /\ downloading' = [downloading EXCEPT ![v] = TRUE]
    /\ owner' = [owner EXCEPT ![s] = v]
    /\ sess' = [sess EXCEPT ![s] = "checking"]
    /\ UNCHANGED <<page, full, partial, hasty, cell, mem, dirty, diskVars, bad,
                   kills>>

\* The page is popped: the block of startDownload keeps the downloader and the
\* session alive, the delegate is nil.
Pop(v) ==
    /\ page[v] = "open"
    /\ page' = [page EXCEPT ![v] = "left"]
    /\ UNCHANGED <<full, downloading, selected, partial, hasty, sessionVars,
                   diskVars, bad, kills>>

\* The process dies: pages, downloaders, sessions and what they had not
\* written are gone, the temporary directory stays.
Kill ==
    /\ kills < MaxKills
    /\ \E v \in Visits : Alive(v)
    /\ kills' = kills + 1
    /\ page' = [v \in Visits |-> IF Alive(v) THEN "gone" ELSE page[v]]
    /\ full' = [v \in Visits |-> {}]
    /\ downloading' = [v \in Visits |-> FALSE]
    /\ selected' = [v \in Visits |-> Files]
    /\ owner' = [s \in Sessions |-> 0]
    /\ sess' = [s \in Sessions |-> "none"]
    /\ cell' = [s \in Sessions |-> Unchecked]
    /\ mem' = [s \in Sessions |-> Nothing]
    /\ dirty' = [s \in Sessions |-> {}]
    /\ partial' = [v \in Visits |-> {}]
    /\ hasty' = [v \in Visits |-> {}]
    /\ crossed' = [s \in Sessions |-> {}]
    /\ UNCHANGED <<stored, damaged, bad>>
-----------------------------------------------------------------------------
(***************************************************************************)
(* The worker.                                                              *)
(***************************************************************************)
IsSeed(s)     == \A p \in Pieces : cell[s][p] = "have"
Counted(s, f) == \A p \in PiecesOf(f) : cell[s][p] \in {"written", "have"}
StatusDone(s) ==
    sess[s] = "active" /\ \A f \in selected[owner[s]] : Counted(s, f)

\* file_progress: nothing until a first piece has passed and is written.
FullNow(s) ==
    {f \in selected[owner[s]] :
       Counted(s, f) /\ \E p \in Pieces \ dirty[s] : cell[s][p] = "have"}

\* One turn of the loop of visit v's worker on its session s: the progress of
\* the selected files is stored; at progress >= 1 a page that is still there
\* resets downloading, and the session is destroyed.  A seed leaves the loop
\* without a word.
Poll(v, s) ==
    /\ owner[s] = v /\ Running(s)
    /\ IF IsSeed(s) THEN UNCHANGED <<full, downloading, hasty>>
       ELSE /\ full' = [full EXCEPT ![v] = (@ \ selected[v]) \cup FullNow(s)]
            /\ hasty' = [hasty EXCEPT ![v] = @ \cup
                 {f \in FullNow(s) :
                    \E p \in PiecesOf(f) : cell[s][p] = "written"}]
            /\ downloading' = [downloading EXCEPT ![v] =
                                 ~(StatusDone(s) /\ page[v] = "open")]
    /\ sess' = [sess EXCEPT ![s] =
                  IF IsSeed(s) \/ StatusDone(s) THEN "closing" ELSE @]
    /\ UNCHANGED <<page, selected, partial, owner, cell, mem, dirty, diskVars,
                   bad, kills>>
-----------------------------------------------------------------------------
(***************************************************************************)
(* The session (torrent.cpp, disk_io_thread.cpp).                           *)
(***************************************************************************)
\* Faulty variant: pieces found on disk are not marked.
CheckFindsNothing(p) == "missing"

CheckResult(p) == IF stored[p] = "good" THEN "have" ELSE "missing"

\* The pieces in the save path are hashed; then the download begins.  (What
\* another session writes during the check of a later piece is, for the pieces
\* already read, the same as written after the check.)
CheckFiles(s) ==
    /\ sess[s] = "checking"
    /\ cell' = [cell EXCEPT ![s] = [p \in Pieces |-> CheckResult(p)]]
    /\ sess' = [sess EXCEPT ![s] = "active"]
    /\ UNCHANGED <<pageVars, owner, mem, dirty, diskVars, bad, kills>>

\* A piece arrives from the peers and is put into the write cache.  It may be
\* of any file: all are wanted until file_priority is called, and what was
\* requested before is still answered after it.
Receive(s, p, what) ==
    /\ sess[s] = "active" /\ cell[s][p] = "missing"
    /\ what = "bad" => bad < MaxBad
    /\ bad' = IF what = "bad" THEN bad + 1 ELSE bad
    /\ cell' = [cell EXCEPT ![s][p] = "written"]
    /\ mem' = [mem EXCEPT ![s][p] = what]
    /\ dirty' = [dirty EXCEPT ![s] = @ \cup {p}]
    /\ UNCHANGED <<pageVars, owner, sess, diskVars, kills>>

\* The sessions in which the piece has been checked, and the crossed that
\* results when pieces ps become good on disk behind the back of sessions us.
CheckedBy(p) == {u \in Sessions : cell[u][p] # "unknown"}
CrossedBy(ps, us) ==
    [u \in Sessions |-> crossed[u] \cup {p \in ps : u \in us \cap CheckedBy(p)}]

\* The first blocks of a piece may be written before the others arrive, also
\* over what an earlier or another session has left there.  Intact blocks leave
\* the piece incomplete or complete it; damaged ones spoil it.
FlushPart(s, p, after) ==
    /\ sess[s] = "active" /\ cell[s][p] = "missing"
    /\ after = "part" => stored[p] # "good"
    /\ after = "good" => stored[p] \in {"part", "bad"}
    /\ after = "bad" => bad < MaxBad
    /\ bad' = IF after = "bad" THEN bad + 1 ELSE bad
    /\ stored' = [stored EXCEPT ![p] = after]
    /\ crossed' = IF after = "good" THEN CrossedBy({p}, Sessions) ELSE crossed
    /\ damaged' = IF stored[p] = "good" THEN damaged \cup {p} ELSE damaged
    /\ UNCHANGED <<pageVars, sessionVars, kills>>

\* The cached pieces ps of session s are written over what was on disk.
WriteOut(s, ps) ==
    /\ stored' = [p \in Pieces |-> IF p \in ps THEN mem[s][p] ELSE stored[p]]
    /\ damaged' = damaged \cup
                     {p \in ps : stored[p] = "good" /\ mem[s][p] = "bad"}

\* The other sessions do not hear of the intact pieces among them.
Unseen(s, ps) ==
    CrossedBy({p \in ps : mem[s][p] = "good"}, Sessions \ {s})

\* The disk thread writes a piece when it pleases: before or after the hash.
Flush(s, p) ==
    /\ Running(s) /\ p \in dirty[s]
    /\ WriteOut(s, {p})
    /\ crossed' = Unseen(s, {p})
    /\ dirty' = [dirty EXCEPT ![s] = @ \ {p}]
    /\ mem' = [mem EXCEPT ![s][p] = IF cell[s][p] = "have" THEN "none" ELSE @]
    /\ UNCHANGED <<pageVars, owner, sess, cell, bad, kills>>

\* Faulty variant: a piece that failed stays in the write cache.
KeepAfterFail(s, p, read) == dirty[s]

\* clear_piece: a piece that failed is not written any more.
CacheAfterHash(s, p, read) == IF read = "good" THEN dirty[s] ELSE dirty[s] \ {p}

\* The hash is computed from the cached piece; one that has been written may
\* have left the cache, and is read back.  A piece that fails is requested
\* again; the cache need not keep one that has passed and is written.
Hash(s, p, read) ==
    /\ sess[s] = "active" /\ cell[s][p] = "written"
    /\ read = mem[s][p] \/ (p \notin dirty[s] /\ read = stored[p])
    /\ cell' = [cell EXCEPT ![s][p] = IF read = "good" THEN "have" ELSE "missing"]
    /\ dirty' = [dirty EXCEPT ![s] = CacheAfterHash(s, p, read)]
    /\ mem' = [mem EXCEPT ![s][p] =
                 IF read = "good" /\ p \in dirty[s] THEN @ ELSE "none"]
    /\ UNCHANGED <<pageVars, owner, sess, diskVars, bad, kills>>

\* ~session: stop_torrent flushes the write cache.
Close(s) ==
    /\ sess[s] = "closing"
    /\ WriteOut(s, dirty[s])
    /\ crossed' = [Unseen(s, dirty[s]) EXCEPT ![s] = {}]
    /\ owner' = [owner EXCEPT ![s] = 0]
    /\ sess' = [sess EXCEPT ![s] = "none"]
    /\ cell' = [cell EXCEPT ![s] = Unchecked]
    /\ mem' = [mem EXCEPT ![s] = Nothing]
    /\ dirty' = [dirty EXCEPT ![s] = {}]
    /\ UNCHANGED <<pageVars, bad, kills>>
-----------------------------------------------------------------------------
Visit(v) ==
    \/ viewDidLoad(v) \/ Pop(v)
    \/ \E s \in Sessions : Poll(v, s) \/ \E f \in Files : didSelectRow(v, f, s)

Session(s) ==
    \/ CheckFiles(s) \/ Close(s)
    \/ \E p \in Pieces :
          \/ Flush(s, p)
          \/ \E what \in {"good", "bad"} : Receive(s, p, what)
          \/ \E x \in {"part", "good", "bad"} : Hash(s, p, x) \/ FlushPart(s, p, x)

Next ==
    \/ Kill
    \/ \E v \in Visits : Visit(v)
    \/ \E s \in Sessions : Session(s)

Spec == Init /\ [][Next]_vars
-----------------------------------------------------------------------------
(***************************************************************************)
(* Properties.                                                              *)
(***************************************************************************)
\* Every variable stays in its type, only an open or left page has a session,
\* and what a session has yet to write are pieces it counts as downloaded.
TypeOK ==
    /\ page \in [Visits -> {"later", "open", "left", "gone"}]
    /\ full \in [Visits -> SUBSET Files]
    /\ downloading \in [Visits -> BOOLEAN]
    /\ selected \in [Visits -> SUBSET Files]
    /\ owner \in [Sessions -> Visits \cup {0}]
    /\ sess \in [Sessions -> {"none", "checking", "active", "closing"}]
    /\ cell \in [Sessions -> [Pieces -> {"unknown", "missing", "written", "have"}]]
    /\ mem \in [Sessions -> [Pieces -> {"none", "good", "bad"}]]
    /\ dirty \in [Sessions -> SUBSET Pieces]
    /\ stored \in [Pieces -> {"none", "part", "good", "bad"}]
    /\ bad \in 0..MaxBad /\ kills \in 0..MaxKills
    /\ partial \in [Visits -> SUBSET Files]
    /\ hasty \in [Visits -> SUBSET Files]
    /\ crossed \in [Sessions -> SUBSET Pieces]
    /\ damaged \in SUBSET Pieces
    /\ \A s \in Sessions : sess[s] # "none" => owner[s] \in Visits /\ Alive(owner[s])
    /\ \A s \in Sessions : \A p \in dirty[s] : cell[s][p] \in {"written", "have"}

\* A row at 1.0 cannot be tapped again, so it had better be right.  It is,
\* its data being on disk or on its way there, but for three causes: the file
\* was only partly there when the page opened, a piece was counted before its
\* hash check, or a session whose check was out of date has overwritten it.
FullRowExplained ==
    \A v \in Visits : page[v] = "open" => \A f \in full[v] :
        \/ \A p \in PiecesOf(f) :
              \/ stored[p] = "good"
              \/ \E s \in Sessions :
                    owner[s] = v /\ p \in dirty[s] /\ mem[s][p] = "good"
        \/ f \in partial[v] \cup hasty[v]
        \/ PiecesOf(f) \cap damaged # {}

\* A session downloads what its check did not find: good data on disk is
\* overwritten by damaged data only when some session still counts as missing
\* or unverified a piece that became good after its check, written by a session
\* that overlaps it or completed by its own first blocks.
DamageOnlyByStaleCheck ==
    [][\A p \in Pieces : stored[p] = "good" /\ stored'[p] # "good" =>
           \E s \in Sessions :
               p \in crossed[s] /\ cell[s][p] \in {"missing", "written"}]_vars
=============================================================================
