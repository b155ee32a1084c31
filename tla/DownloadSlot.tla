---------------------------- MODULE DownloadSlot ----------------------------
(***************************************************************************)
(* What a TorrentDownloader promises the page that owns it, without         *)
(* threads, queues or sessions: one download at a time, for a selection     *)
(* that does not change while it runs; progress reports only while it runs; *)
(* and an end that a page still on screen learns of only after a report of  *)
(* full progress.                                                           *)
(***************************************************************************)
EXTENDS Naturals

CONSTANT NumFiles      \* files are numbered 1..NumFiles

VARIABLES
    busy,              \* a download occupies the downloader
    sel,               \* the files it downloads
    bar,               \* the last progress reported to the page
    page               \* the page is still there

slotVars == <<busy, sel, bar, page>>

SlotInit ==
    /\ busy = FALSE
    /\ sel \in SUBSET (1..NumFiles)
    /\ bar = "less"
    /\ page = TRUE

\* The page asks for a file and the downloader is free.
Begin(f) ==
    /\ page /\ ~busy
    /\ busy' = TRUE
    /\ sel' = {f}
    /\ UNCHANGED <<bar, page>>

\* A progress report reaches the page.
Report(v) ==
    /\ page /\ busy
    /\ bar' = v
    /\ UNCHANGED <<busy, sel, page>>

\* The download ends and the downloader is free again.
Finish ==
    /\ busy
    /\ page => bar = "full"
    /\ busy' = FALSE
    /\ UNCHANGED <<sel, bar, page>>

\* The user leaves the page.
Leave ==
    /\ page
    /\ page' = FALSE
    /\ UNCHANGED <<busy, sel, bar>>

SlotNext ==
    \/ \E f \in 1..NumFiles : Begin(f)
    \/ \E v \in {"less", "full"} : Report(v)
    \/ Finish
    \/ Leave

SlotSpec == SlotInit /\ [][SlotNext]_slotVars
=============================================================================
