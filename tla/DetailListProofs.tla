-------------------------- MODULE DetailListProofs --------------------------
(***************************************************************************)
(* Proofs about DetailList for any number of pages, urls and files.         *)
(***************************************************************************)
EXTENDS DetailList, TLAPS

\* Every step keeps every variable in its type.
THEOREM DetailTypeCorrect == Spec => []TypeOK
<1>1. Init => TypeOK
  BY DEF Init, CacheInit, TypeOK, CacheTypeOK, Content
<1>2. TypeOK /\ [Next]_vars => TypeOK'
  <2> SUFFICES ASSUME TypeOK, [Next]_vars PROVE TypeOK'
    OBVIOUS
  <2> USE NamesAssumption DEF TypeOK, CacheTypeOK, Content, Making, cacheVars,
                              pageVars
  <2>1. CASE Kill
    BY <2>1 DEF Kill, Purge
  <2>2. ASSUME NEW p \in Pages, Open(p) \/ Pop(p)
        PROVE  TypeOK'
    BY <2>2 DEF Open, Pop
  <2>3. ASSUME NEW p \in Pages, DetailReply(p)
        PROVE  TypeOK'
    <3>1. /\ downloader' \in [Pages -> Urls \cup {"none", "broken"}]
          /\ cell' \in [Pages -> {"button", "spinner", "list"}]
      BY <2>3 DEF DetailReply, loadDetail, ShowFilelist, Parse, storedTorrent
    <3>2. detail' \in [Pages -> {"asked", "loaded", "failed"}]
      BY <2>3 DEF DetailReply, loadDetail
    <3> QED
      BY <2>3, <3>1, <3>2 DEF DetailReply
  <2>4. ASSUME NEW p \in Pages, downloadTorrent(p)
        PROVE  TypeOK'
    BY <2>4 DEF downloadTorrent
  <2>5. ASSUME NEW p \in Pages, parseTorrent(p)
        PROVE  TypeOK'
    <3>1. /\ downloader' \in [Pages -> Urls \cup {"none", "broken"}]
          /\ cell' \in [Pages -> {"button", "spinner", "list"}]
      BY <2>5 DEF parseTorrent, ShowFilelist, Parse
    <3>2. defaults' \in [Urls -> Names \cup {"nil"}]
      BY <2>5 DEF parseTorrent, storeTorrent
    <3> QED
      BY <2>5, <3>1, <3>2 DEF parseTorrent
  <2>6. ASSUME NEW p \in Pages, TorrentReply(p)
        PROVE  TypeOK'
    BY <2>6 DEF TorrentReply, Answer, UUIDName
  <2>7. ASSUME NEW p \in Pages, StartMaker(p) \/ MetadataArrives(p)
        PROVE  TypeOK'
    BY <2>7 DEF StartMaker, MetadataArrives, Answer, Goto
  <2>8. ASSUME NEW p \in Pages, OpenFile(p)
        PROVE  TypeOK'
    BY <2>8 DEF OpenFile, Answer, Goto
  <2>9. ASSUME NEW p \in Pages, WriteTorrent(p)
        PROVE  TypeOK'
    BY <2>9 DEF WriteTorrent, Answer
  <2>10. CASE UNCHANGED vars
    BY <2>10 DEF vars
  <2> QED
    BY <2>1, <2>2, <2>3, <2>4, <2>5, <2>6, <2>7, <2>8, <2>9, <2>10
    DEF Next, Maker
<1> QED
  BY <1>1, <1>2, PTL DEF Spec
-----------------------------------------------------------------------------
(***************************************************************************)
(* The downloader of a page.  A request for the torrent is under way only   *)
(* behind a spinner, after the detail page arrived; a downloader is there   *)
(* only behind a list, when no answer is to come any more.                  *)
(***************************************************************************)
PageInv(p) ==
    /\ fetch[p] \notin {"none", "done"} => cell[p] = "spinner"
    /\ fetch[p] # "none" => detail[p] = "loaded" /\ cell[p] # "button"
    /\ downloader[p] # "none" => cell[p] = "list" /\ detail[p] = "loaded"
    /\ view[p] = "unused" => downloader[p] = "none" /\ fetch[p] = "none"

PagesInv == \A p \in Pages : PageInv(p)

\* A step of one page leaves the others alone.
LEMMA PageFrame ==
    ASSUME PagesInv, NEW p \in Pages, PageInv(p)',
           \A q \in Pages : q # p =>
               /\ fetch'[q] = fetch[q] /\ cell'[q] = cell[q]
               /\ detail'[q] = detail[q] /\ downloader'[q] = downloader[q]
               /\ view'[q] = view[q]
    PROVE  PagesInv'
  BY DEF PagesInv, PageInv

\* The requests for the torrent, until they are answered.
Request(p) == TorrentReply(p) \/ MetadataArrives(p) \/ Maker(p)

\* A request changes nothing of the page, and has been made before.
LEMMA RequestFrame ==
    ASSUME TypeOK, NEW p \in Pages, Request(p)
    PROVE  /\ UNCHANGED <<pageVars, defaults>>
           /\ fetch[p] \notin {"none", "done"}
           /\ \E next \in Making \cup {"answered"} :
                  fetch' = [fetch EXCEPT ![p] = next]
  BY DEF Request, Maker, TorrentReply, StartMaker, MetadataArrives, OpenFile,
         WriteTorrent, Answer, Goto, Making, cacheVars

\* PagesInv is inductive, and each step keeps the downloaders that exist.
LEMMA PageStep ==
    ASSUME TypeOK, PagesInv, [Next]_vars
    PROVE  PagesInv' /\ (KeepsDownloader \/ UNCHANGED vars)
<1>1. /\ view \in [Pages -> {"unused", "open", "left", "gone"}]
      /\ detail \in [Pages -> {"asked", "loaded", "failed"}]
      /\ cell \in [Pages -> {"button", "spinner", "list"}]
      /\ DOMAIN downloader = Pages /\ DOMAIN fetch = Pages
      /\ downloader = [p \in Pages |-> downloader[p]]
      /\ fetch = [p \in Pages |-> fetch[p]]
  BY DEF TypeOK
<1>2. CASE Kill
  BY <1>2 DEF Kill, PagesInv, PageInv, KeepsDownloader
<1>3. ASSUME NEW p \in Pages, Open(p) \/ Pop(p)
      PROVE  PagesInv' /\ KeepsDownloader
  <2>1. /\ UNCHANGED <<detail, cell, downloader, fetch>>
        /\ view'[p] # "unused" /\ \A q \in Pages : q # p => view'[q] = view[q]
    BY <1>1, <1>3 DEF Open, Pop
  <2> QED
    BY <2>1 DEF PagesInv, PageInv, KeepsDownloader
<1>4. ASSUME NEW p \in Pages, DetailReply(p)
      PROVE  PagesInv' /\ KeepsDownloader
  <2>1. /\ view[p] # "unused" /\ detail[p] = "asked"
        /\ UNCHANGED <<view, fetch>>
        /\ \E d \in {"loaded", "failed"} : detail' = [detail EXCEPT ![p] = d]
        /\ \/ UNCHANGED <<downloader, cell>>
           \/ /\ detail' = [detail EXCEPT ![p] = "loaded"]
              /\ \E x : downloader' = [downloader EXCEPT ![p] = x]
              /\ cell' = [cell EXCEPT ![p] = "list"]
    BY <1>4 DEF DetailReply, loadDetail, ShowFilelist, Alive
  <2>2. downloader[p] = "none" /\ fetch[p] = "none"
    BY <2>1 DEF PagesInv, PageInv
  <2>3. PageInv(p)'
    BY <1>1, <2>1, <2>2 DEF PageInv
  <2>4. \A q \in Pages : q # p =>
               /\ fetch'[q] = fetch[q] /\ cell'[q] = cell[q]
               /\ detail'[q] = detail[q] /\ downloader'[q] = downloader[q]
               /\ view'[q] = view[q]
    BY <1>1, <2>1
  <2> QED
    BY <2>2, <2>3, <2>4, PageFrame DEF KeepsDownloader
<1>5. ASSUME NEW p \in Pages, downloadTorrent(p)
      PROVE  PagesInv' /\ KeepsDownloader
  <2>1. /\ cell[p] = "button" /\ cell' = [cell EXCEPT ![p] = "spinner"]
        /\ UNCHANGED <<view, detail, downloader>> /\ view[p] = "open"
        /\ \/ fetch' = fetch
           \/ /\ detail[p] = "loaded"
              /\ \E x \in {"asked", "start"} : fetch' = [fetch EXCEPT ![p] = x]
    BY <1>5 DEF downloadTorrent
  <2>2. downloader[p] = "none" /\ fetch[p] = "none"
    BY <2>1 DEF PagesInv, PageInv
  <2>3. PageInv(p)'
    BY <1>1, <2>1, <2>2 DEF PageInv
  <2>4. \A q \in Pages : q # p => fetch'[q] = fetch[q] /\ cell'[q] = cell[q]
    BY <1>1, <2>1
  <2> QED
    BY <2>1, <2>3, <2>4, PageFrame DEF KeepsDownloader
<1>6. ASSUME NEW p \in Pages, parseTorrent(p)
      PROVE  PagesInv' /\ KeepsDownloader
  <2>1. /\ fetch[p] = "answered" /\ fetch' = [fetch EXCEPT ![p] = "done"]
        /\ UNCHANGED <<view, detail>>
        /\ \/ UNCHANGED <<downloader, cell>>
           \/ /\ \E x : downloader' = [downloader EXCEPT ![p] = x]
              /\ cell' = [cell EXCEPT ![p] = "list"]
    BY <1>6 DEF parseTorrent, ShowFilelist
  <2>2. /\ downloader[p] = "none" /\ detail[p] = "loaded"
        /\ cell[p] = "spinner" /\ view[p] # "unused"
    BY <2>1 DEF PagesInv, PageInv
  <2>3. \A q \in Pages : q # p =>
               /\ fetch'[q] = fetch[q] /\ cell'[q] = cell[q]
               /\ downloader'[q] = downloader[q]
    BY <1>1, <2>1
  <2>4. PageInv(p)'
    BY <1>1, <2>1, <2>2 DEF PageInv
  <2> QED
    BY <2>1, <2>2, <2>3, <2>4, PageFrame DEF KeepsDownloader
<1>7. ASSUME NEW p \in Pages, Request(p)
      PROVE  PagesInv' /\ KeepsDownloader
  <2>1. /\ UNCHANGED <<view, detail, cell, downloader>>
        /\ fetch[p] \notin {"none", "done"}
        /\ \E next \in Making \cup {"answered"} :
               fetch' = [fetch EXCEPT ![p] = next]
    BY <1>7, RequestFrame DEF pageVars
  <2>2. \A q \in Pages : q # p => fetch'[q] = fetch[q]
    BY <1>1, <2>1
  <2>3. fetch'[p] \notin {"none", "done"}
    BY <1>1, <2>1 DEF Making
  <2>4. PageInv(p)'
    BY <2>1, <2>3 DEF PagesInv, PageInv
  <2> QED
    BY <2>1, <2>2, <2>4, PageFrame DEF KeepsDownloader
<1>8. CASE UNCHANGED vars
  BY <1>8 DEF vars, pageVars, PagesInv, PageInv
<1> QED
  BY <1>2, <1>3, <1>4, <1>5, <1>6, <1>7, <1>8 DEF Next, Request

\* A page that has a downloader keeps it: whatever answers are still on their
\* way, they cannot replace it while its worker may be running.
THEOREM DownloaderKept == Spec => DownloaderSetOnce
<1>1. Init => PagesInv
  BY DEF Init, PagesInv, PageInv
<1>2. TypeOK /\ PagesInv /\ [Next]_vars => PagesInv'
  BY PageStep
<1>3. TypeOK /\ PagesInv /\ [Next]_vars => [KeepsDownloader]_vars
  BY PageStep
<1> QED
  BY <1>1, <1>2, <1>3, DetailTypeCorrect, PTL DEF Spec, DownloaderSetOnce
-----------------------------------------------------------------------------
(***************************************************************************)
(* The torrent files.  A UUID belongs to the url of the page that asked,    *)
(* the name of a torrent to the urls with a magnet link to one of that      *)
(* name.  A file holds nothing but the torrent of a url it belongs to, and  *)
(* is recorded, or about to be, for such a url only.  A file that is not in *)
(* torn is recorded only when it is complete; what makes this inductive is  *)
(* that the answer on its way already counts, and that its file exists.     *)
(***************************************************************************)
Belongs(n, u) ==
    IF n \in Pages THEN url[n] = u
    ELSE LinkOf[u] = "magnet" /\ n = MagnetName[u]

Expected(n) == \/ \E u \in Urls : defaults[u] = n
               \/ \E p \in Pages : path[p] = n

HoldsOwn(n) == tmp[n] \in Urls /\ Belongs(n, tmp[n])

FilesInv ==
    /\ \A u \in Urls : defaults[u] # "nil" => Belongs(defaults[u], u)
    /\ \A p \in Pages : path[p] # "nil" =>
           Belongs(path[p], url[p]) /\ tmp[path[p]] # "absent"
    /\ \A n \in Names : tmp[n] \in {"absent", "damaged"} \/ HoldsOwn(n)
    /\ \A n \in Names : tmp[n] = "damaged" /\ Expected(n) => n \in torn

\* The urls a name belongs to are namesakes.
LEMMA BelongsToNamesakes ==
    ASSUME NEW n, NEW u \in Urls, NEW v \in Urls, Belongs(n, u), Belongs(n, v)
    PROVE  v \in Namesakes(u)
  BY DEF Belongs, Namesakes

\* What a request does to its file: nothing, or one change of a name that
\* belongs to its url.
FileStep(p, n, c) ==
    /\ n \in Names /\ Belongs(n, url[p])
    /\ tmp' = [tmp EXCEPT ![n] = c]
    /\ UNCHANGED <<defaults, url>>

\* A complete file is written and answered.
LEMMA FilesWritten ==
    ASSUME TypeOK, FilesInv, NEW p \in Pages, NEW n, FileStep(p, n, url[p]),
           path' = [path EXCEPT ![p] = n], torn' = torn
    PROVE  FilesInv'
<1>1. /\ tmp \in [Names -> Content] /\ path \in [Pages -> Names \cup {"nil"}]
      /\ url \in [Pages -> Urls] /\ defaults \in [Urls -> Names \cup {"nil"}]
  BY DEF TypeOK, CacheTypeOK
<1>2. /\ n \in Names /\ Belongs(n, url[p]) /\ tmp' = [tmp EXCEPT ![n] = url[p]]
      /\ defaults' = defaults /\ url' = url
  BY DEF FileStep
<1>3. \A m \in Names, u \in Urls : Belongs(m, u)' <=> Belongs(m, u)
  BY <1>2 DEF Belongs
<1>4. url[p] \in Urls /\ url[p] # "absent" /\ url[p] # "damaged"
  BY <1>1, NamesAssumption
<1>5. \A u \in Urls : defaults'[u] # "nil" => Belongs(defaults[u], u)'
  BY <1>1, <1>2, <1>3 DEF FilesInv
<1>6. \A q \in Pages : path'[q] # "nil" =>
          Belongs(path[q], url[q])' /\ tmp'[path'[q]] # "absent"
  <2> SUFFICES ASSUME NEW q \in Pages, path'[q] # "nil"
               PROVE  Belongs(path[q], url[q])' /\ tmp'[path'[q]] # "absent"
    OBVIOUS
  <2>1. CASE q = p
    <3>1. path'[q] = n
      BY <1>1, <2>1
    <3>2. tmp'[n] = url[p]
      BY <1>1, <1>2
    <3> QED
      BY <1>2, <1>4, <2>1, <3>1, <3>2 DEF Belongs
  <2>2. CASE q # p
    <3>1. path'[q] = path[q] /\ path[q] \in Names
      BY <1>1, <2>2
    <3>2. Belongs(path[q], url[q]) /\ tmp[path[q]] # "absent"
      BY <3>1 DEF FilesInv
    <3>3. tmp'[path[q]] # "absent"
      BY <1>1, <1>2, <1>4, <3>1, <3>2
    <3> QED
      BY <1>2, <3>1, <3>2, <3>3 DEF Belongs
  <2> QED
    BY <2>1, <2>2
<1>7. \A m \in Names : tmp'[m] \in {"absent", "damaged"} \/ HoldsOwn(m)'
  <2> SUFFICES ASSUME NEW m \in Names, tmp'[m] \notin {"absent", "damaged"}
               PROVE  tmp'[m] \in Urls /\ Belongs(m, tmp'[m])
    BY <1>2 DEF HoldsOwn, Belongs
  <2>1. CASE m = n
    BY <1>1, <1>2, <1>4, <2>1
  <2>2. CASE m # n
    BY <1>1, <1>2, <2>2 DEF FilesInv, HoldsOwn
  <2> QED
    BY <2>1, <2>2
<1>8. \A m \in Names : tmp'[m] = "damaged" /\ Expected(m)' => m \in torn'
  <2> SUFFICES ASSUME NEW m \in Names, tmp'[m] = "damaged", Expected(m)'
               PROVE  m \in torn
    OBVIOUS
  <2>1. m # n /\ tmp[m] = "damaged"
    BY <1>1, <1>2, <1>4
  <2>2. Expected(m)
    BY <1>1, <1>2, <2>1 DEF Expected
  <2> QED
    BY <2>1, <2>2 DEF FilesInv
<1> QED
  BY <1>5, <1>6, <1>7, <1>8 DEF FilesInv

\* A file is opened: it is in torn if anything expects it to be complete.
LEMMA FilesOpened ==
    ASSUME TypeOK, FilesInv, NEW p \in Pages, NEW n, FileStep(p, n, "damaged"),
           path' = path, torn' = IF Known(n) THEN torn \cup {n} ELSE torn
    PROVE  FilesInv'
<1>1. /\ tmp \in [Names -> Content] /\ path \in [Pages -> Names \cup {"nil"}]
      /\ url \in [Pages -> Urls] /\ defaults \in [Urls -> Names \cup {"nil"}]
  BY DEF TypeOK, CacheTypeOK
<1>2. /\ n \in Names /\ Belongs(n, url[p]) /\ tmp' = [tmp EXCEPT ![n] = "damaged"]
      /\ defaults' = defaults /\ url' = url
  BY DEF FileStep
<1>3. \A m, u : Belongs(m, u)' <=> Belongs(m, u)
  BY <1>2 DEF Belongs
<1>4. \A m : Expected(m)' <=> Expected(m)
  BY <1>2 DEF Expected
<1>5. Expected(n) => Known(n)
  BY <1>2, NamesAssumption DEF Expected, Known, FilesInv
<1>6. \A u \in Urls : defaults'[u] # "nil" => Belongs(defaults[u], u)'
  BY <1>2 DEF FilesInv, Belongs
<1>7. \A q \in Pages : path'[q] # "nil" =>
          Belongs(path[q], url[q])' /\ tmp'[path'[q]] # "absent"
  <2> SUFFICES ASSUME NEW q \in Pages, path[q] # "nil"
               PROVE  Belongs(path[q], url[q])' /\ tmp'[path[q]] # "absent"
    OBVIOUS
  <2>1. Belongs(path[q], url[q]) /\ tmp[path[q]] # "absent" /\ path[q] \in Names
    BY <1>1 DEF FilesInv
  <2>2. tmp'[path[q]] # "absent"
    BY <1>1, <1>2, <2>1
  <2> QED
    BY <1>2, <2>1, <2>2 DEF Belongs
<1>8. \A m \in Names : tmp'[m] \in {"absent", "damaged"} \/ HoldsOwn(m)'
  BY <1>1, <1>2, <1>3 DEF FilesInv, HoldsOwn, Belongs
<1>9. \A m \in Names : tmp'[m] = "damaged" /\ Expected(m)' => m \in torn'
  BY <1>1, <1>2, <1>4, <1>5 DEF FilesInv
<1> QED
  BY <1>6, <1>7, <1>8, <1>9 DEF FilesInv

\* A file that is being written exists.
WritingInv ==
    \A p \in Pages :
        fetch[p] = "writing" => tmp[MagnetName[url[p]]] # "absent"

\* A file is answered although it was cut short.
LEMMA FilesCutShort ==
    ASSUME TypeOK, FilesInv, NEW p \in Pages, NEW n \in Names,
           Belongs(n, url[p]), tmp[n] # "absent",
           path' = [path EXCEPT ![p] = n], torn' = torn \cup {n},
           UNCHANGED <<tmp, defaults, url>>
    PROVE  FilesInv'
<1>1. path \in [Pages -> Names \cup {"nil"}]
  BY DEF TypeOK
<1>2. \A m, u : Belongs(m, u)' <=> Belongs(m, u)
  BY DEF Belongs
<1>3. \A q \in Pages : path'[q] = IF q = p THEN n ELSE path[q]
  BY <1>1
<1>4. \A m : Expected(m)' => Expected(m) \/ m = n
  BY <1>3 DEF Expected
<1>5. \A u \in Urls : defaults'[u] # "nil" => Belongs(defaults[u], u)'
  BY DEF FilesInv, Belongs
<1>6. \A q \in Pages : path'[q] # "nil" =>
          Belongs(path[q], url[q])' /\ tmp'[path'[q]] # "absent"
  BY <1>3 DEF FilesInv, Belongs
<1>7. \A m \in Names : tmp'[m] \in {"absent", "damaged"} \/ HoldsOwn(m)'
  BY <1>2 DEF FilesInv, HoldsOwn, Belongs
<1>8. \A m \in Names : tmp'[m] = "damaged" /\ Expected(m)' => m \in torn'
  BY <1>4 DEF FilesInv
<1> QED
  BY <1>5, <1>6, <1>7, <1>8 DEF FilesInv

\* A fetched torrent is recorded.
LEMMA FilesRecorded ==
    ASSUME TypeOK, FilesInv, NEW p \in Pages, path[p] # "nil",
           defaults' = [defaults EXCEPT ![url[p]] = path[p]],
           UNCHANGED <<tmp, url, path, torn>>
    PROVE  FilesInv'
<1>1. defaults \in [Urls -> Names \cup {"nil"}] /\ url \in [Pages -> Urls]
  BY DEF TypeOK, CacheTypeOK
<1>2. \A u \in Urls : defaults'[u] = IF u = url[p] THEN path[p] ELSE defaults[u]
  BY <1>1
<1>3. \A m : Expected(m)' => Expected(m)
  BY <1>2 DEF Expected
<1>4. \A u \in Urls : defaults'[u] # "nil" => Belongs(defaults[u], u)'
  BY <1>2 DEF FilesInv, Belongs
<1> QED
  BY <1>3, <1>4 DEF FilesInv, HoldsOwn, Belongs

\* The process is killed: answers are forgotten, files may be purged.
LEMMA FilesKilled ==
    ASSUME TypeOK, FilesInv, Kill
    PROVE  FilesInv'
<1>1. /\ \A p \in Pages : path'[p] = "nil"
      /\ UNCHANGED <<defaults, url, torn>>
      /\ \A n \in Names : tmp'[n] \in {tmp[n], "absent"}
  BY DEF Kill, Purge
<1>2. \A m \in Names : Expected(m)' => Expected(m)
  BY <1>1, NamesAssumption DEF Expected
<1>3. \A u \in Urls : defaults'[u] # "nil" => Belongs(defaults[u], u)'
  BY <1>1 DEF FilesInv, Belongs
<1>4. \A m \in Names : tmp'[m] \in {"absent", "damaged"} \/ HoldsOwn(m)'
  BY <1>1 DEF FilesInv, HoldsOwn, Belongs
<1>5. \A m \in Names : tmp'[m] = "damaged" /\ Expected(m)' => m \in torn'
  BY <1>1, <1>2 DEF FilesInv
<1> QED
  BY <1>1, <1>3, <1>4, <1>5 DEF FilesInv

\* TorrentMaker works for magnet links.
MakerInv == \A p \in Pages : fetch[p] \in Making => LinkOf[url[p]] = "magnet"

\* Only a magnet link starts TorrentMaker, and the page keeps its url.
LEMMA MakerAlways == Spec => []MakerInv
<1>1. Init => MakerInv
  BY DEF Init, MakerInv, Making
<1>2. TypeOK /\ MakerInv /\ [Next]_vars => MakerInv'
  <2> SUFFICES ASSUME TypeOK, MakerInv, [Next]_vars PROVE MakerInv'
    OBVIOUS
  <2>1. /\ fetch \in [Pages -> Making \cup {"none", "asked", "answered", "done"}]
        /\ url \in [Pages -> Urls]
    BY DEF TypeOK
  <2>2. CASE Kill
    BY <2>2 DEF Kill, MakerInv, Making
  <2>3. ASSUME NEW p \in Pages, Open(p) \/ Pop(p) \/ DetailReply(p)
        PROVE  MakerInv'
    BY <2>3 DEF Open, Pop, DetailReply, MakerInv
  <2>4. ASSUME NEW p \in Pages, downloadTorrent(p)
        PROVE  MakerInv'
    <3>1. /\ url' = url
          /\ \/ fetch' = fetch
             \/ fetch' = [fetch EXCEPT ![p] = "asked"]
             \/ /\ LinkOf[url[p]] \notin {"none", "torrent"}
                /\ fetch' = [fetch EXCEPT ![p] = "start"]
      BY <2>4 DEF downloadTorrent
    <3>2. LinkOf[url[p]] \in {"torrent", "magnet", "none"}
      BY <2>1, NamesAssumption
    <3> QED
      BY <2>1, <3>1, <3>2 DEF MakerInv, Making
  <2>5. ASSUME NEW p \in Pages, parseTorrent(p)
        PROVE  MakerInv'
    BY <2>1, <2>5 DEF parseTorrent, MakerInv, Making
  <2>6. ASSUME NEW p \in Pages, TorrentReply(p)
        PROVE  MakerInv'
    BY <2>1, <2>6 DEF TorrentReply, Answer, pageVars, MakerInv, Making
  <2>7. ASSUME NEW p \in Pages, MetadataArrives(p) \/ Maker(p)
        PROVE  MakerInv'
    <3>1. /\ fetch[p] \in Making /\ url' = url
          /\ \A q \in Pages : q # p => fetch'[q] = fetch[q]
      BY <2>1, <2>7 DEF MetadataArrives, Maker, StartMaker, OpenFile, WriteTorrent,
                        Answer, Goto, pageVars, Making
    <3> QED
      BY <3>1 DEF MakerInv
  <2>8. CASE UNCHANGED vars
    BY <2>8 DEF vars, pageVars, MakerInv
  <2> QED
    BY <2>2, <2>3, <2>4, <2>5, <2>6, <2>7, <2>8 DEF Next
<1> QED
  BY <1>1, <1>2, DetailTypeCorrect, PTL DEF Spec

\* Something that is no torrent is stored and answered.
LEMMA FilesGarbled ==
    ASSUME TypeOK, FilesInv, NEW p \in Pages, NEW n, FileStep(p, n, "damaged"),
           path' = [path EXCEPT ![p] = n], torn' = torn \cup {n}
    PROVE  FilesInv'
<1>1. /\ tmp \in [Names -> Content] /\ path \in [Pages -> Names \cup {"nil"}]
      /\ n \in Names /\ Belongs(n, url[p]) /\ UNCHANGED <<defaults, url>>
      /\ tmp' = [tmp EXCEPT ![n] = "damaged"]
  BY DEF TypeOK, CacheTypeOK, FileStep
<1>2. /\ \A q \in Pages : path'[q] = IF q = p THEN n ELSE path[q]
      /\ \A m \in Names : tmp'[m] = IF m = n THEN "damaged" ELSE tmp[m]
  BY <1>1
<1>3. \A m : Expected(m)' => Expected(m) \/ m = n
  BY <1>1, <1>2 DEF Expected
<1>4. \A u \in Urls : defaults'[u] # "nil" => Belongs(defaults[u], u)'
  BY <1>1 DEF FilesInv, Belongs
<1>5. \A q \in Pages : path'[q] # "nil" =>
          Belongs(path[q], url[q])' /\ tmp'[path'[q]] # "absent"
  <2> SUFFICES ASSUME NEW q \in Pages, path'[q] # "nil"
               PROVE  Belongs(path'[q], url[q]) /\ tmp'[path'[q]] # "absent"
    BY <1>1 DEF Belongs
  <2>1. CASE q = p
    BY <1>1, <1>2, <2>1
  <2>2. CASE q # p
    <3>1. path'[q] = path[q] /\ path[q] \in Names
      BY <1>1, <1>2, <2>2
    <3> QED
      BY <1>2, <3>1 DEF FilesInv
  <2> QED
    BY <2>1, <2>2
<1>6. \A m \in Names : tmp'[m] \in {"absent", "damaged"} \/ HoldsOwn(m)'
  BY <1>1, <1>2 DEF FilesInv, HoldsOwn, Belongs
<1>7. \A m \in Names : tmp'[m] = "damaged" /\ Expected(m)' => m \in torn'
  BY <1>2, <1>3 DEF FilesInv
<1> QED
  BY <1>4, <1>5, <1>6, <1>7 DEF FilesInv

\* Every step keeps the files in order.
LEMMA FilesStep ==
    ASSUME TypeOK, MakerInv, FilesInv, WritingInv, [Next]_vars
    PROVE  FilesInv' /\ WritingInv'
<1>1. /\ tmp \in [Names -> Content] /\ url \in [Pages -> Urls]
      /\ fetch \in [Pages -> Making \cup {"none", "asked", "answered", "done"}]
      /\ path \in [Pages -> Names \cup {"nil"}]
  BY DEF TypeOK, CacheTypeOK
<1>2. \A p \in Pages : /\ p \in Names /\ Belongs(p, url[p])
                       /\ MagnetName[url[p]] \in Names
                       /\ fetch[p] \in Making
                            => Belongs(MagnetName[url[p]], url[p])
  BY <1>1, NamesAssumption DEF Belongs, MakerInv
<1>3. \A p \in Pages : url[p] # "absent"
  BY <1>1, NamesAssumption
<1>4. CASE Kill
  <2>1. WritingInv'
    BY <1>4 DEF Kill, WritingInv
  <2> QED
    BY <1>4, <2>1, FilesKilled
<1>5. ASSUME NEW p \in Pages,
             Open(p) \/ Pop(p) \/ DetailReply(p) \/ downloadTorrent(p)
      PROVE  FilesInv' /\ WritingInv'
  <2>1. UNCHANGED <<defaults, tmp, url, path, torn>>
    BY <1>5 DEF Open, Pop, DetailReply, downloadTorrent, cacheVars
  <2>2. \A q \in Pages : fetch'[q] = "writing" => fetch[q] = "writing"
    BY <1>1, <1>5 DEF Open, Pop, DetailReply, downloadTorrent
  <2>3. WritingInv'
    BY <2>1, <2>2 DEF WritingInv
  <2> QED
    BY <2>1, <2>3 DEF FilesInv, HoldsOwn, Belongs, Expected
<1>6. ASSUME NEW p \in Pages, parseTorrent(p)
      PROVE  FilesInv' /\ WritingInv'
  <2>1. /\ UNCHANGED <<tmp, url, path, torn>>
        /\ fetch' = [fetch EXCEPT ![p] = "done"]
        /\ IF path[p] # "nil"
           THEN defaults' = [defaults EXCEPT ![url[p]] = path[p]]
           ELSE defaults' = defaults
    BY <1>6 DEF parseTorrent, storeTorrent
  <2>2. WritingInv'
    BY <1>1, <2>1 DEF WritingInv
  <2>3. CASE path[p] # "nil"
    BY <2>1, <2>2, <2>3, FilesRecorded
  <2>4. CASE path[p] = "nil"
    BY <2>1, <2>2, <2>4 DEF FilesInv, HoldsOwn, Belongs, Expected
  <2> QED
    BY <2>3, <2>4
<1>7. ASSUME NEW p \in Pages, UNCHANGED <<defaults, tmp, url, torn>>,
             fetch'[p] # "writing",
             \A q \in Pages : q # p => fetch'[q] = fetch[q],
             path' \in {path, [path EXCEPT ![p] = "nil"]}
      PROVE  FilesInv' /\ WritingInv'
  <2>1. WritingInv'
    BY <1>7 DEF WritingInv
  <2>2. \A q \in Pages : path'[q] # "nil" => path'[q] = path[q]
    BY <1>1, <1>7
  <2>3. \A n \in Names : Expected(n)' => Expected(n)
    BY <1>7, <2>2, NamesAssumption DEF Expected
  <2> QED
    BY <1>7, <2>1, <2>2, <2>3 DEF FilesInv, HoldsOwn, Belongs
<1>8. ASSUME NEW p \in Pages, TorrentReply(p)
      PROVE  FilesInv' /\ WritingInv'
  <2>1. /\ UNCHANGED <<defaults, url>>
        /\ fetch' = [fetch EXCEPT ![p] = "answered"]
        /\ \/ path' = [path EXCEPT ![p] = "nil"] /\ UNCHANGED <<tmp, torn>>
           \/ /\ path' = [path EXCEPT ![p] = p]
              /\ \/ tmp' = [tmp EXCEPT ![p] = url[p]] /\ torn' = torn
                 \/ tmp' = [tmp EXCEPT ![p] = "damaged"] /\ torn' = torn \cup {p}
    BY <1>8 DEF TorrentReply, Answer, UUIDName, pageVars
  <2>2. CASE UNCHANGED <<tmp, torn>> /\ path' = [path EXCEPT ![p] = "nil"]
    BY <1>1, <1>7, <2>1, <2>2
  <2>3. ASSUME path' = [path EXCEPT ![p] = p],
               \/ tmp' = [tmp EXCEPT ![p] = url[p]] /\ torn' = torn
               \/ tmp' = [tmp EXCEPT ![p] = "damaged"] /\ torn' = torn \cup {p}
        PROVE  FilesInv' /\ WritingInv'
    <3>1. ASSUME tmp' = [tmp EXCEPT ![p] = url[p]], torn' = torn PROVE FilesInv'
      <4>1. FileStep(p, p, url[p])
        BY <1>2, <2>1, <3>1 DEF FileStep
      <4> QED
        BY <2>3, <3>1, <4>1, FilesWritten
    <3>2. ASSUME tmp' = [tmp EXCEPT ![p] = "damaged"], torn' = torn \cup {p}
          PROVE  FilesInv'
      <4>1. FileStep(p, p, "damaged")
        BY <1>2, <2>1, <3>2 DEF FileStep
      <4> QED
        BY <2>3, <3>2, <4>1, FilesGarbled
    <3>3. \A q \in Pages : fetch'[q] = "writing" => fetch[q] = "writing"
      BY <1>1, <2>1
    <3>4. WritingInv'
      <4>1. \A m \in Names : tmp[m] # "absent" => tmp'[m] # "absent"
        BY <1>1, <1>3, <2>3
      <4> QED
        BY <1>2, <2>1, <3>3, <4>1 DEF WritingInv
    <3> QED
      BY <2>3, <3>1, <3>2, <3>4
  <2> QED
    BY <2>1, <2>2, <2>3
<1>9. ASSUME NEW p \in Pages, StartMaker(p) \/ MetadataArrives(p)
      PROVE  FilesInv' /\ WritingInv'
  <2>1. /\ UNCHANGED <<defaults, tmp, url, torn>>
        /\ path' \in {path, [path EXCEPT ![p] = "nil"]}
        /\ \E x \in {"answered", "waiting", "write"} :
               fetch' = [fetch EXCEPT ![p] = x]
    BY <1>9 DEF StartMaker, MetadataArrives, Answer, Goto, cacheVars, pageVars
  <2>2. fetch'[p] # "writing" /\ \A q \in Pages : q # p => fetch'[q] = fetch[q]
    BY <1>1, <2>1
  <2> QED
    BY <1>7, <2>1, <2>2
<1>10. ASSUME NEW p \in Pages, OpenFile(p)
       PROVE  FilesInv' /\ WritingInv'
  <2> DEFINE n == MagnetName[url[p]]
  <2>1. /\ UNCHANGED <<defaults, url>>
        /\ \/ /\ path' = [path EXCEPT ![p] = "nil"] /\ UNCHANGED <<tmp, torn>>
              /\ fetch' = [fetch EXCEPT ![p] = "answered"]
           \/ /\ path' = path /\ fetch' = [fetch EXCEPT ![p] = "writing"]
              /\ tmp' = [tmp EXCEPT ![n] = "damaged"]
              /\ torn' = IF Known(n) THEN torn \cup {n} ELSE torn
    BY <1>10 DEF OpenFile, Answer, Goto, pageVars
  <2>2. CASE /\ path' = [path EXCEPT ![p] = "nil"] /\ UNCHANGED <<tmp, torn>>
             /\ fetch' = [fetch EXCEPT ![p] = "answered"]
    BY <1>1, <1>7, <2>1, <2>2
  <2>3. CASE /\ path' = path /\ fetch' = [fetch EXCEPT ![p] = "writing"]
             /\ tmp' = [tmp EXCEPT ![n] = "damaged"]
             /\ torn' = IF Known(n) THEN torn \cup {n} ELSE torn
    <3>1. FilesInv'
      BY <1>2, <1>10, <2>1, <2>3, FilesOpened DEF FileStep, OpenFile, Making
    <3>2. \A q \in Pages : q # p => fetch'[q] = fetch[q]
      BY <1>1, <2>3
    <3>3. WritingInv'
      BY <1>1, <1>2, <2>1, <2>3, <3>2 DEF WritingInv
    <3> QED
      BY <3>1, <3>3
  <2> QED
    BY <2>1, <2>2, <2>3
<1>11. ASSUME NEW p \in Pages, WriteTorrent(p)
       PROVE  FilesInv' /\ WritingInv'
  <2> DEFINE n == MagnetName[url[p]]
  <2>1. /\ UNCHANGED <<defaults, url>> /\ fetch[p] = "writing"
        /\ path' = [path EXCEPT ![p] = n]
        /\ fetch' = [fetch EXCEPT ![p] = "answered"]
        /\ \/ tmp' = [tmp EXCEPT ![n] = url[p]] /\ torn' = torn
           \/ torn' = torn \cup {n} /\ tmp' = tmp
    BY <1>11 DEF WriteTorrent, Answer, pageVars
  <2>2. \A q \in Pages : fetch'[q] = "writing" => fetch[q] = "writing"
    BY <1>1, <2>1
  <2>3. WritingInv'
    BY <1>1, <1>2, <1>3, <2>1, <2>2 DEF WritingInv
  <2>4. CASE tmp' = [tmp EXCEPT ![n] = url[p]] /\ torn' = torn
    BY <1>2, <2>1, <2>3, <2>4, FilesWritten DEF FileStep, Making
  <2>5. CASE torn' = torn \cup {n} /\ tmp' = tmp
    <3>1. tmp[n] # "absent"
      BY <2>1 DEF WritingInv
    <3> QED
      BY <1>2, <2>1, <2>3, <2>5, <3>1, FilesCutShort DEF Making
  <2> QED
    BY <2>1, <2>4, <2>5
<1>12. CASE UNCHANGED vars
  BY <1>12 DEF vars, cacheVars, pageVars, FilesInv, WritingInv, HoldsOwn, Belongs,
               Expected
<1> QED
  BY <1>4, <1>5, <1>6, <1>8, <1>9, <1>10, <1>11, <1>12 DEF Next, Maker

\* The files are in order in every reachable state.
LEMMA FilesAlways == Spec => [](FilesInv /\ WritingInv)
<1>1. Init => FilesInv /\ WritingInv
  BY NamesAssumption DEF Init, CacheInit, FilesInv, WritingInv, Expected
<1>2. TypeOK /\ MakerInv /\ (FilesInv /\ WritingInv) /\ [Next]_vars
        => (FilesInv /\ WritingInv)'
  BY FilesStep
<1> QED
  BY <1>1, <1>2, DetailTypeCorrect, MakerAlways, PTL DEF Spec

\* What a file that belongs to a url can be read as.
LEMMA ReadsOwn ==
    ASSUME FilesInv, NEW n \in Names, NEW u \in Urls, Belongs(n, u)
    PROVE  Parse(tmp[n]) \in {"broken"} \cup Namesakes(u)
  BY BelongsToNamesakes DEF FilesInv, HoldsOwn, Parse

\* Whatever pages were opened, answered, left and killed, and whatever was
\* purged: the file the cache finds for a url is that url's torrent or, for a
\* magnet link, one of the same name, and complete unless it is one of those
\* that were made twice or cut short.
THEOREM CacheKeepsOwn == Spec => []RecordedIsOwn
<1>1. TypeOK /\ FilesInv => RecordedIsOwn
  <2> SUFFICES ASSUME TypeOK, FilesInv, NEW u \in Urls,
                      storedTorrent(u) # "nil"
               PROVE  \/ tmp[storedTorrent(u)] \in Namesakes(u)
                      \/ tmp[storedTorrent(u)] = "damaged" /\ storedTorrent(u) \in torn
    BY DEF RecordedIsOwn
  <2>1. /\ storedTorrent(u) = defaults[u] /\ defaults[u] # "nil"
        /\ tmp[defaults[u]] # "absent"
    BY DEF storedTorrent
  <2>2. defaults[u] \in Names /\ Belongs(defaults[u], u) /\ Expected(defaults[u])
    BY <2>1 DEF TypeOK, CacheTypeOK, FilesInv, Expected
  <2> QED
    BY <2>1, <2>2, BelongsToNamesakes DEF FilesInv, HoldsOwn
<1> QED
  BY <1>1, DetailTypeCorrect, FilesAlways, PTL

\* The downloader of a page works on the torrent of that page's url, or one of
\* the same name, however the file came to it: just fetched, or found in the
\* cache.
THEOREM PageOwnsTorrent == Spec => []OwnTorrent
<1>1. Init => OwnTorrent
  BY DEF Init, OwnTorrent
<1>2. TypeOK /\ FilesInv /\ OwnTorrent /\ [Next]_vars => OwnTorrent'
  <2> SUFFICES ASSUME TypeOK, FilesInv, OwnTorrent, [Next]_vars
               PROVE  OwnTorrent'
    OBVIOUS
  <2>1. /\ url \in [Pages -> Urls] /\ defaults \in [Urls -> Names \cup {"nil"}]
        /\ path \in [Pages -> Names \cup {"nil"}]
        /\ downloader \in [Pages -> Urls \cup {"none", "broken"}]
    BY DEF TypeOK, CacheTypeOK
  <2>2. CASE Kill
    BY <2>2 DEF Kill, OwnTorrent
  <2>3. ASSUME NEW p \in Pages, DetailReply(p)
        PROVE  OwnTorrent'
    <3>1. CASE downloader' = downloader
      BY <2>3, <3>1 DEF DetailReply, OwnTorrent
    <3>2. CASE downloader' # downloader
      <4> DEFINE n == defaults[url[p]]
      <4>1. /\ storedTorrent(url[p]) # "nil" /\ url' = url
            /\ downloader' = [downloader EXCEPT ![p] =
                                Parse(tmp[storedTorrent(url[p])])]
        BY <2>3, <3>2 DEF DetailReply, ShowFilelist
      <4>2. storedTorrent(url[p]) = n /\ n # "nil"
        BY <4>1 DEF storedTorrent
      <4>3. n \in Names /\ Belongs(n, url[p])
        BY <2>1, <4>2 DEF FilesInv
      <4>4. Parse(tmp[n]) \in {"broken"} \cup Namesakes(url[p])
        BY <2>1, <4>3, ReadsOwn
      <4> QED
        BY <2>1, <4>1, <4>2, <4>4 DEF OwnTorrent
    <3> QED
      BY <3>1, <3>2
  <2>4. ASSUME NEW p \in Pages, parseTorrent(p)
        PROVE  OwnTorrent'
    <3>1. CASE path[p] = "nil"
      BY <2>4, <3>1 DEF parseTorrent, OwnTorrent
    <3>2. CASE path[p] # "nil"
      <4>1. /\ url' = url
            /\ downloader' = [downloader EXCEPT ![p] = Parse(tmp[path[p]])]
        BY <2>4, <3>2 DEF parseTorrent, ShowFilelist
      <4>2. Parse(tmp[path[p]]) \in {"broken"} \cup Namesakes(url[p])
        BY <2>1, <3>2, ReadsOwn DEF FilesInv
      <4> QED
        BY <2>1, <4>1, <4>2 DEF OwnTorrent
    <3> QED
      BY <3>1, <3>2
  <2>5. ASSUME NEW p \in Pages, Open(p) \/ Pop(p) \/ downloadTorrent(p) \/ Request(p)
        PROVE  OwnTorrent'
    <3>1. downloader' = downloader /\ url' = url
      BY <2>5, RequestFrame DEF Open, Pop, downloadTorrent, pageVars
    <3> QED
      BY <3>1 DEF OwnTorrent
  <2>6. CASE UNCHANGED vars
    BY <2>6 DEF vars, pageVars, OwnTorrent
  <2> QED
    BY <2>2, <2>3, <2>4, <2>5, <2>6 DEF Next, Request
<1> QED
  BY <1>1, <1>2, DetailTypeCorrect, FilesAlways, PTL DEF Spec
=============================================================================
