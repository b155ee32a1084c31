----------------------------- MODULE DetailList -----------------------------
(***************************************************************************)
(* How a detail page comes to have a downloader: DetailList with its files  *)
(* cell (DetailList.m, DetailListCell.m), the requests of Cosxcos (detail   *)
(* page, torrent file), TorrentMaker (torrent from a magnet link) and       *)
(* DetailListCache, over restarts of the process.                           *)
(*                                                                          *)
(* A page that was left is kept alive by the blocks that still refer to it, *)
(* and its requests go on; a killed process loses pages and requests, and   *)
(* keeps the defaults and, unless they are purged, the files.               *)
(***************************************************************************)
EXTENDS DetailListCache

CONSTANTS
    Pages,          \* the detail pages a run may open
    LinkOf,         \* LinkOf[u]: the kind of link on the page at u
    MagnetName      \* MagnetName[u]: name of the torrent behind a magnet link

\* downloadTorrent names the file by a new UUID, TorrentMaker after the torrent.
ASSUME NamesAssumption ==
    /\ Pages \subseteq Names
    /\ LinkOf \in [Urls -> {"torrent", "magnet", "none"}]
    /\ MagnetName \in [Urls -> Names \ Pages]
    /\ "nil" \notin Names
    /\ Urls \cap {"none", "broken", "absent", "damaged"} = {}

VARIABLES
    view,           \* "unused", "open", "left" or "gone"
    url,            \* the url the page shows
    detail,         \* the request for the detail page: "asked", "loaded", "failed"
    cell,           \* what the files cell shows: "button", "spinner", "list"
    downloader,     \* "none", or the torrent it read; "broken" without torrentInfo
    fetch,          \* the request for the torrent file, by its next step
    path,           \* the answer of that request
    torn            \* files made a second time, cut short, or garbled (history)

pageVars == <<view, url, detail, cell, downloader>>
vars == <<cacheVars, pageVars, fetch, path, torn>>

Making == {"start", "waiting", "write", "writing"}

Init ==
    /\ CacheInit
    /\ view = [p \in Pages |-> "unused"]
    /\ url \in [Pages -> Urls]      \* chosen when the page is opened
    /\ detail = [p \in Pages |-> "asked"]
    /\ cell = [p \in Pages |-> "button"]
    /\ downloader = [p \in Pages |-> "none"]
    /\ fetch = [p \in Pages |-> "none"]
    /\ path = [p \in Pages |-> "nil"]
    /\ torn = {}
-----------------------------------------------------------------------------
(***************************************************************************)
(* Main thread: navigation.                                                 *)
(***************************************************************************)
\* A row of the root list is tapped; viewDidLoad asks for the detail page.
Open(p) ==
    /\ view[p] = "unused"
    /\ \A q \in Pages : view[q] # "open"
    /\ view' = [view EXCEPT ![p] = "open"]
    /\ UNCHANGED <<cacheVars, url, detail, cell, downloader, fetch, path, torn>>

Pop(p) ==
    /\ view[p] = "open"
    /\ view' = [view EXCEPT ![p] = "left"]
    /\ UNCHANGED <<cacheVars, url, detail, cell, downloader, fetch, path, torn>>

Alive(p) == view[p] \in {"open", "left"}

\* Faulty variant: what was read is used whether or not it could be decoded.
ParseAnything(content) == content

\* TorrentInfo infoWithfile: a file that cannot be read or decoded gives nil.
Parse(content) == IF content \in {"absent", "damaged"} THEN "broken" ELSE content

\* Faulty variant: the cell is not told of the new downloader.
NoFilelist(p, name) ==
    /\ downloader' = [downloader EXCEPT ![p] = Parse(tmp[name])]
    /\ UNCHANGED cell

\* A downloader is made for the file and displayAndUpdateFilelist replaces
\* button and spinner by the list.
ShowFilelist(p, name) ==
    /\ downloader' = [downloader EXCEPT ![p] = Parse(tmp[name])]
    /\ cell' = [cell EXCEPT ![p] = "list"]

\* What loadDetail answers: nil on an error of the network, else the detail.
\* The site's pages are taken to have the form its parser expects.
loadDetail == {"failed", "loaded"}

\* complete(detail) of viewDidLoad.
DetailReply(p) ==
    /\ Alive(p) /\ detail[p] = "asked"
    /\ \E answer \in loadDetail :
          /\ detail' = [detail EXCEPT ![p] = answer]
          /\ IF answer = "loaded" /\ storedTorrent(url[p]) # "nil"
             THEN ShowFilelist(p, storedTorrent(url[p]))
             ELSE UNCHANGED <<downloader, cell>>
    /\ UNCHANGED <<cacheVars, view, url, fetch, path, torn>>

\* The button is tapped.  Nothing is requested when the detail page has not
\* arrived, or has no link.
downloadTorrent(p) ==
    /\ view[p] = "open" /\ cell[p] = "button"
    /\ cell' = [cell EXCEPT ![p] = "spinner"]
    /\ IF detail[p] = "loaded" /\ LinkOf[url[p]] # "none"
       THEN fetch' = [fetch EXCEPT ![p] = IF LinkOf[url[p]] = "torrent"
                                          THEN "asked" ELSE "start"]
       ELSE UNCHANGED fetch
    /\ UNCHANGED <<cacheVars, view, url, detail, downloader, path, torn>>

\* complete(torrentPath): the torrent is stored and its files are listed.  A
\* failure leaves the page as it is.
parseTorrent(p) ==
    /\ fetch[p] = "answered"
    /\ fetch' = [fetch EXCEPT ![p] = "done"]
    /\ IF path[p] # "nil"
       THEN storeTorrent(url[p], path[p]) /\ ShowFilelist(p, path[p])
       ELSE UNCHANGED <<defaults, downloader, cell>>
    /\ UNCHANGED <<tmp, view, url, detail, path, torn>>
-----------------------------------------------------------------------------
(***************************************************************************)
(* Cosxcos downloadTorrent, on the queue of NSURLSession, and TorrentMaker, *)
(* on a global queue.  Both answer by a block on the main queue.            *)
(***************************************************************************)
Answer(p, name) ==
    /\ fetch' = [fetch EXCEPT ![p] = "answered"]
    /\ path' = [path EXCEPT ![p] = name]

Goto(p, next) == fetch' = [fetch EXCEPT ![p] = next] /\ UNCHANGED path

\* A page makes one request, so the page stands for the UUID.
UUIDName(p) == p

\* The request or the move failed, or the file that arrived is moved into
\* place.  The response is not looked at: what the site sent with an error
\* status, for example, is taken for the torrent.
TorrentReply(p) ==
    /\ fetch[p] = "asked"
    /\ LET name == UUIDName(p)
       IN  \/ Answer(p, "nil") /\ UNCHANGED <<tmp, torn>>
           \/ /\ Answer(p, name)
              /\ tmp' = [tmp EXCEPT ![name] = url[p]] /\ UNCHANGED torn
           \/ /\ Answer(p, name)
              /\ tmp' = [tmp EXCEPT ![name] = "damaged"]
              /\ torn' = torn \cup {name}
    /\ UNCHANGED <<defaults, pageVars>>

\* listen_on and add_torrent.
StartMaker(p) ==
    /\ fetch[p] = "start"
    /\ Answer(p, "nil") \/ Goto(p, "waiting")
    /\ UNCHANGED <<cacheVars, pageVars, torn>>

\* has_metadata: may never happen.
MetadataArrives(p) ==
    /\ fetch[p] = "waiting"
    /\ Goto(p, "write")
    /\ UNCHANGED <<cacheVars, pageVars, torn>>

\* Faulty variant: the answer is given as soon as the file is open.
AnswerBeforeWrite(p) ==
    /\ fetch[p] = "write"
    /\ tmp' = [tmp EXCEPT ![MagnetName[url[p]]] = "damaged"]
    /\ Answer(p, MagnetName[url[p]])
    /\ UNCHANGED <<defaults, pageVars, torn>>

\* The file exists, or the cache expects it to.
Known(name) == tmp[name] # "absent" \/ \E u \in Urls : defaults[u] = name

\* The file is opened with ios::trunc.
OpenFile(p) ==
    /\ fetch[p] = "write"
    /\ LET name == MagnetName[url[p]]
       IN  \/ Answer(p, "nil") /\ UNCHANGED <<tmp, torn>>
           \/ /\ Goto(p, "writing")
              /\ tmp' = [tmp EXCEPT ![name] = "damaged"]
              /\ torn' = IF Known(name) THEN torn \cup {name} ELSE torn
    /\ UNCHANGED <<defaults, pageVars>>

\* The torrent is written and the file closed; whether that worked, on a full
\* disk for example, is not tested.
WriteTorrent(p) ==
    /\ fetch[p] = "writing"
    /\ LET name == MagnetName[url[p]]
       IN  /\ Answer(p, name)
           /\ \/ tmp' = [tmp EXCEPT ![name] = url[p]] /\ UNCHANGED torn
              \/ torn' = torn \cup {name} /\ UNCHANGED tmp
    /\ UNCHANGED <<defaults, pageVars>>

Maker(p) == StartMaker(p) \/ OpenFile(p) \/ WriteTorrent(p)
-----------------------------------------------------------------------------
\* The process is killed and started again.
Kill ==
    /\ view' = [p \in Pages |-> IF view[p] = "unused" THEN "unused" ELSE "gone"]
    /\ detail' = [p \in Pages |-> "asked"]
    /\ cell' = [p \in Pages |-> "button"]
    /\ downloader' = [p \in Pages |-> "none"]
    /\ fetch' = [p \in Pages |-> "none"]
    /\ path' = [p \in Pages |-> "nil"]
    /\ Purge
    /\ UNCHANGED <<defaults, url, torn>>

Next ==
    \/ Kill
    \/ \E p \in Pages :
          \/ Open(p) \/ Pop(p) \/ DetailReply(p) \/ downloadTorrent(p)
          \/ parseTorrent(p) \/ TorrentReply(p) \/ MetadataArrives(p) \/ Maker(p)

Spec == Init /\ [][Next]_vars

\* The main run loop runs what is posted to it, NSURLSession answers every
\* request, and a dispatched block goes on; the metadata may never come.
Fairness == \A p \in Pages :
    /\ WF_vars(DetailReply(p)) /\ WF_vars(parseTorrent(p))
    /\ WF_vars(TorrentReply(p)) /\ WF_vars(Maker(p))

FairSpec == Spec /\ Fairness
-----------------------------------------------------------------------------
(***************************************************************************)
(* Properties.                                                              *)
(***************************************************************************)
\* Every variable stays in its type.
TypeOK ==
    /\ CacheTypeOK
    /\ view \in [Pages -> {"unused", "open", "left", "gone"}]
    /\ url \in [Pages -> Urls]
    /\ detail \in [Pages -> {"asked", "loaded", "failed"}]
    /\ cell \in [Pages -> {"button", "spinner", "list"}]
    /\ downloader \in [Pages -> Urls \cup {"none", "broken"}]
    /\ fetch \in [Pages -> Making \cup {"none", "asked", "answered", "done"}]
    /\ path \in [Pages -> Names \cup {"nil"}]
    /\ torn \in SUBSET Names

KeepsDownloader ==
    \A p \in Pages : downloader[p] # "none" =>
        downloader'[p] = downloader[p] \/ view'[p] = "gone"

\* A page never replaces its downloader, whose worker could be running, by
\* another: not when the detail page arrives after the button was tapped, nor
\* when the torrent arrives after a stored one was found.
DownloaderSetOnce == [][KeepsDownloader]_vars

\* The urls whose torrents TorrentMaker writes to the same file.
Namesakes(u) ==
    {v \in Urls : \/ v = u
                  \/ /\ LinkOf[u] = "magnet" /\ LinkOf[v] = "magnet"
                     /\ MagnetName[u] = MagnetName[v]}

\* The file that the cache knows for a url holds the torrent of that url, or of
\* a magnet link whose torrent has the same name, also after requests of
\* several pages, restarts and purges.  It can be something else only if
\* TorrentMaker made it while it existed or was recorded already, or could not
\* write all of it, or if the site did not send a torrent.
RecordedIsOwn ==
    \A u \in Urls : storedTorrent(u) # "nil" =>
        \/ tmp[storedTorrent(u)] \in Namesakes(u)
        \/ tmp[storedTorrent(u)] = "damaged" /\ storedTorrent(u) \in torn

\* The downloader of a page works on the torrent of that page, or on one of the
\* same name.
OwnTorrent ==
    \A p \in Pages : downloader[p] \in {"none", "broken"} \cup Namesakes(url[p])

\* A torrent that was fetched is recorded, also when its page was left
\* meanwhile, unless the process is killed before.
FetchIsKept ==
    \A p \in Pages : fetch[p] = "answered" /\ path[p] # "nil"
        ~> defaults[url[p]] = path[p] \/ view[p] = "gone"

\* A spinning cell comes to its list, unless nothing was requested, the
\* request failed, or the metadata does not come.
SpinnerEnds ==
    \A p \in Pages : cell[p] = "spinner"
        ~> \/ cell[p] = "list" \/ view[p] = "gone"
           \/ fetch[p] \in {"none", "waiting"}
           \/ fetch[p] = "done" /\ path[p] = "nil"
=============================================================================
