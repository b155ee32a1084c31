--------------------------- MODULE DetailListCache ---------------------------
(***************************************************************************)
(* DetailListCache (TestBB/DetailList/DetailListCache.m): for each url the  *)
(* name of the torrent file fetched for it, kept in NSUserDefaults; the     *)
(* files themselves are in the temporary directory.                         *)
(*                                                                          *)
(* singletons is never allocated, so every cache: makes an object with a    *)
(* fresh copy of the stored dictionary.  Both callers use it within one     *)
(* turn of the main thread, so that the copy is never stale and the         *)
(* semaphore never contended: the defaults are all there is to model.       *)
(***************************************************************************)
CONSTANTS
    Urls,           \* detail pages of the site; also stands for its torrent
    Names           \* names of torrent files

VARIABLES
    defaults,       \* NSUserDefaults: k_torrent of each url, or "nil"
    tmp             \* temporary directory: what each torrent file holds

cacheVars == <<defaults, tmp>>

\* A file is not there, holds no complete torrent, or the torrent of a url.
Content == Urls \cup {"absent", "damaged"}

CacheInit ==
    /\ defaults = [u \in Urls |-> "nil"]
    /\ tmp = [n \in Names |-> "absent"]

\* storedTorrent: the recorded file, if it still exists.
storedTorrent(u) ==
    IF defaults[u] # "nil" /\ tmp[defaults[u]] # "absent"
    THEN defaults[u] ELSE "nil"

\* Faulty variant: the dictionary is changed but not written back.
StoreWithoutSynchronize(u, name) == UNCHANGED defaults

\* Faulty variant: the entry is not kept apart by url.
StoreForAll(u, name) == defaults' = [v \in Urls |-> name]

\* storeTorrent: the file already is in the temporary directory under this
\* name, so moving it there changes nothing; the name is recorded and
\* synchronized.
storeTorrent(u, name) == defaults' = [defaults EXCEPT ![u] = name]

\* What the system may do to the temporary directory while the application
\* does not run.
Purge == \E kept \in SUBSET Names :
             tmp' = [n \in Names |-> IF n \in kept THEN tmp[n] ELSE "absent"]

CacheTypeOK ==
    /\ defaults \in [Urls -> Names \cup {"nil"}]
    /\ tmp \in [Names -> Content]
=============================================================================
