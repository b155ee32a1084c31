---------------------------- MODULE DiskJobFence ----------------------------
(***************************************************************************)
(* The fence that libtorrent puts around the disk jobs of one torrent       *)
(* (disk_job_fence in storage.cpp) and the paths of disk_io_thread.cpp that *)
(* bring jobs to it.  The jobs of setting a file's priority, of clearing a  *)
(* piece that failed its hash check and of releasing the files are fence    *)
(* jobs: each must have the storage for itself.                             *)
(*                                                                          *)
(* The network thread issues jobs; a pool of disk threads takes them from   *)
(* m_queued_jobs.  A write is put into the block cache at once and lingers  *)
(* there until something flushes it, which is why a fence that has to wait  *)
(* sends a flush job ahead.                                                 *)
(*                                                                          *)
(* Left out: the separate queue of the hasher thread, and a cache that      *)
(* cannot take a block for want of memory.                                  *)
(***************************************************************************)
EXTENDS Naturals, Sequences, FiniteSets

CONSTANTS
    Threads,    \* the disk threads
    Writes,     \* names of the write jobs a run may issue
    Others,     \* names of other jobs (read, hash, ...)
    Fences      \* names of the fence jobs

\* A write may bring a flush_hashed job with it, a fence a flush_storage job.
WriteJob(w)  == [kind |-> "write", id |-> w]
HashedJob(w) == [kind |-> "hashed", id |-> w]
OtherJob(o)  == [kind |-> "other", id |-> o]
FenceJob(f)  == [kind |-> "fence", id |-> f]
FlushJob(f)  == [kind |-> "flush", id |-> f]

WriteJobs == {WriteJob(w) : w \in Writes}
FenceJobs == {FenceJob(f) : f \in Fences}
Jobs == WriteJobs \cup FenceJobs \cup {HashedJob(w) : w \in Writes}
        \cup {OtherJob(o) : o \in Others} \cup {FlushJob(f) : f \in Fences}

VARIABLES
    \* disk_job_fence, under its mutex
    m_has_fence, m_outstanding_jobs, m_blocked_jobs,
    in_progress,    \* jobs with the in_progress flag
    \* disk_io_thread
    m_queued_jobs,  \* jobs for the next free disk thread, first one first
    cache,          \* write jobs hanging in the block cache
    pc,             \* what each disk thread does next
    work,           \* the job it executes, then the jobs it has completed
    new,            \* jobs the fence released to it (new_jobs)
    hashed,         \* flush_hashed jobs it still has to add (flush_jobs)
    \* history
    issued,         \* jobs in the order they came to the fence
    finished        \* jobs the fence was told of as complete

fenceVars  == <<m_has_fence, m_outstanding_jobs, m_blocked_jobs, in_progress>>
threadVars == <<pc, work, new, hashed>>
vars == <<fenceVars, m_queued_jobs, cache, threadVars, issued, finished>>

Init ==
    /\ m_has_fence = 0
    /\ m_outstanding_jobs = 0
    /\ m_blocked_jobs = <<>>
    /\ in_progress = {}
    /\ m_queued_jobs = <<>>
    /\ cache = {}
    /\ pc = [t \in Threads |-> "wait"]
    /\ work = [t \in Threads |-> {}]
    /\ new = [t \in Threads |-> <<>>]
    /\ hashed = [t \in Threads |-> {}]
    /\ issued = <<>>
    /\ finished = {}

Issued(j) == \E i \in 1..Len(issued) : issued[i] = j
-----------------------------------------------------------------------------
(***************************************************************************)
(* disk_job_fence.                                                          *)
(***************************************************************************)
\* Faulty variant: a job passes although a fence is up.
PassAnyFence(s) ==
    /\ in_progress' = in_progress \cup {s[i] : i \in 1..Len(s)}
    /\ m_outstanding_jobs' = m_outstanding_jobs + Len(s)
    /\ issued' = issued \o s
    /\ UNCHANGED <<m_has_fence, m_blocked_jobs, finished>>

\* is_blocked for the jobs in s, one after the other: without a fence they
\* pass, with one a job has to wait.
Pass(s) ==
    /\ m_has_fence = 0
    /\ in_progress' = in_progress \cup {s[i] : i \in 1..Len(s)}
    /\ m_outstanding_jobs' = m_outstanding_jobs + Len(s)
    /\ issued' = issued \o s
    /\ UNCHANGED <<m_has_fence, m_blocked_jobs, finished>>

Block(j) ==
    /\ m_has_fence # 0
    /\ m_blocked_jobs' = Append(m_blocked_jobs, j)
    /\ issued' = Append(issued, j)
    /\ UNCHANGED <<m_has_fence, m_outstanding_jobs, in_progress, finished>>

\* Faulty variant: the jobs behind the next fence are released as well.
AllBlocked == Len(m_blocked_jobs)

\* The number of blocked jobs in front of the first fence job.
Leading == CHOOSE n \in 0..Len(m_blocked_jobs) :
             /\ \A i \in 1..n : m_blocked_jobs[i] \notin FenceJobs
             /\ n < Len(m_blocked_jobs) => m_blocked_jobs[n + 1] \in FenceJobs

\* How many blocked jobs are released by a fence that completes: those up to
\* the next fence, or that fence if nothing else is on its way ...
ReleasedByFence(t, left) ==
    IF Leading = 0 /\ m_blocked_jobs # <<>> /\ left = 0 /\ new[t] = <<>>
    THEN 1 ELSE Leading

\* ... and by another job: the last one in front of a fence releases it.
ReleasedByOther(left) == IF left > 0 \/ m_has_fence = 0 THEN 0 ELSE 1

\* Faulty variants: every job lowers the fence; the fence job that is not
\* released is not put back.
LowerAlways(j) == m_has_fence - 1
ForgetNext(n)  == SubSeq(m_blocked_jobs, n + 2, Len(m_blocked_jobs))

Lower(j)     == IF j \in FenceJobs THEN m_has_fence - 1 ELSE m_has_fence
Remaining(n) == SubSeq(m_blocked_jobs, n + 1, Len(m_blocked_jobs))

\* job_complete(j), called by thread t.
job_complete(t, j) ==
    LET left == m_outstanding_jobs - 1
        n == IF j \in FenceJobs THEN ReleasedByFence(t, left)
             ELSE ReleasedByOther(left)
        out == SubSeq(m_blocked_jobs, 1, n)
    IN  /\ m_has_fence' = Lower(j)
        /\ m_outstanding_jobs' = left + n
        /\ in_progress' = (in_progress \ {j}) \cup {out[i] : i \in 1..n}
        /\ m_blocked_jobs' = Remaining(n)
        /\ new' = [new EXCEPT ![t] = IF j \in FenceJobs THEN @ \o out ELSE out \o @]
        /\ finished' = finished \cup {j}
        /\ UNCHANGED issued
-----------------------------------------------------------------------------
(***************************************************************************)
(* Network thread.                                                          *)
(***************************************************************************)
\* async_write: the block goes into the cache; a piece without an outstanding
\* flush gets one.
async_write(w) ==
    /\ ~Issued(WriteJob(w))
    /\ \/ /\ Block(WriteJob(w))
          /\ UNCHANGED <<cache, m_queued_jobs>>
       \/ /\ Pass(<<WriteJob(w)>>)
          /\ cache' = cache \cup {WriteJob(w)}
          /\ UNCHANGED m_queued_jobs
       \/ /\ Pass(<<WriteJob(w), HashedJob(w)>>)
          /\ cache' = cache \cup {WriteJob(w)}
          /\ m_queued_jobs' = Append(m_queued_jobs, HashedJob(w))
    /\ UNCHANGED threadVars

add_job(o) ==
    /\ ~Issued(OtherJob(o))
    /\ \/ /\ Block(OtherJob(o))
          /\ UNCHANGED m_queued_jobs
       \/ /\ Pass(<<OtherJob(o)>>)
          /\ m_queued_jobs' = Append(m_queued_jobs, OtherJob(o))
    /\ UNCHANGED <<cache, threadVars>>

\* add_fence_job with raise_fence: run the fence job now, or send a flush
\* ahead of it, or queue both behind the fences that are already up.
FenceNow(f) ==
    /\ m_has_fence = 0 /\ m_outstanding_jobs = 0
    /\ m_outstanding_jobs' = 1
    /\ in_progress' = in_progress \cup {FenceJob(f)}
    /\ m_queued_jobs' = Append(m_queued_jobs, FenceJob(f))
    /\ issued' = Append(issued, FenceJob(f))
    /\ UNCHANGED m_blocked_jobs

\* Faulty variants: the flush job is forgotten, or not counted.
FlushNotCounted(f) ==
    /\ m_has_fence = 0 /\ m_outstanding_jobs # 0
    /\ in_progress' = in_progress \cup {FlushJob(f)}
    /\ m_queued_jobs' = <<FlushJob(f)>> \o m_queued_jobs
    /\ m_blocked_jobs' = Append(m_blocked_jobs, FenceJob(f))
    /\ issued' = issued \o <<FlushJob(f), FenceJob(f)>>
    /\ UNCHANGED m_outstanding_jobs

FenceWithoutFlush(f) ==
    /\ m_has_fence = 0 /\ m_outstanding_jobs # 0
    /\ m_blocked_jobs' = Append(m_blocked_jobs, FenceJob(f))
    /\ issued' = Append(issued, FenceJob(f))
    /\ UNCHANGED <<m_outstanding_jobs, in_progress, m_queued_jobs>>

FenceAfterFlush(f) ==
    /\ m_has_fence = 0 /\ m_outstanding_jobs # 0
    /\ m_outstanding_jobs' = m_outstanding_jobs + 1
    /\ in_progress' = in_progress \cup {FlushJob(f)}
    /\ m_queued_jobs' = <<FlushJob(f)>> \o m_queued_jobs
    /\ m_blocked_jobs' = Append(m_blocked_jobs, FenceJob(f))
    /\ issued' = issued \o <<FlushJob(f), FenceJob(f)>>

FenceBlocked(f) ==
    /\ m_has_fence # 0
    /\ m_blocked_jobs' = m_blocked_jobs \o <<FlushJob(f), FenceJob(f)>>
    /\ issued' = issued \o <<FlushJob(f), FenceJob(f)>>
    /\ UNCHANGED <<m_outstanding_jobs, in_progress, m_queued_jobs>>

add_fence_job(f) ==
    /\ ~Issued(FenceJob(f))
    /\ m_has_fence' = m_has_fence + 1
    /\ FenceNow(f) \/ FenceAfterFlush(f) \/ FenceBlocked(f)
    /\ UNCHANGED <<cache, threadVars, finished>>
-----------------------------------------------------------------------------
(***************************************************************************)
(* Disk thread t: thread_fun, perform_job and add_completed_jobs.           *)
(***************************************************************************)
Goto(t, next) == pc' = [pc EXCEPT ![t] = next]

TakeJob(t) ==
    /\ pc[t] = "wait" /\ m_queued_jobs # <<>>
    /\ m_queued_jobs' = Tail(m_queued_jobs)
    /\ work' = [work EXCEPT ![t] = {Head(m_queued_jobs)}]
    /\ Goto(t, "run")
    /\ UNCHANGED <<fenceVars, cache, new, hashed, issued, finished>>

\* flush_storage writes out every block of the storage that is in the cache;
\* with any other job a thread may make room in the cache, or write what has
\* been there too long (maybe_flush_write_blocks, only when a job is taken).
\* Left out: a job that answers retry_job, because another thread is at the same
\* piece, and goes to the end of the queue, and one that answers defer_handler,
\* which others complete.  Both stay in progress and outstanding meanwhile: the
\* fence sees a job that takes longer.
Perform(t) ==
    /\ pc[t] = "run"
    /\ \E flushed \in SUBSET cache :
         /\ (\E f \in Fences : FlushJob(f) \in work[t]) => flushed = cache
         /\ cache' = cache \ flushed
         /\ work' = [work EXCEPT ![t] = @ \cup flushed]
    /\ Goto(t, "complete")
    /\ UNCHANGED <<fenceVars, m_queued_jobs, new, hashed, issued, finished>>

Complete(t, j) ==
    /\ pc[t] = "complete" /\ j \in work[t]
    /\ job_complete(t, j)
    /\ work' = [work EXCEPT ![t] = @ \ {j}]
    /\ IF work[t] = {j} THEN Goto(t, "insert") ELSE UNCHANGED pc
    /\ UNCHANGED <<m_queued_jobs, cache, hashed>>

\* Released writes go into the cache, under the lock of the cache ...
InsertWrites(t) ==
    /\ pc[t] = "insert"
    /\ LET ws == {w \in Writes : \E i \in 1..Len(new[t]) : new[t][i] = WriteJob(w)}
       IN  /\ cache' = cache \cup {WriteJob(w) : w \in ws}
           /\ \E fs \in SUBSET ws :
                hashed' = [hashed EXCEPT ![t] = {HashedJob(w) : w \in fs}]
    /\ Goto(t, "queue")
    /\ UNCHANGED <<fenceVars, m_queued_jobs, work, new, issued, finished>>

\* ... the others to the threads, in their order (pos counts through them),
\* under the lock of the queue ...
QueueOthers(t) ==
    /\ pc[t] = "queue"
    /\ LET others == {i \in 1..Len(new[t]) : new[t][i] \notin WriteJobs}
           n == Cardinality(others)
       IN  \E pos \in [1..n -> others] :
             /\ \A i, k \in 1..n : i < k => pos[i] < pos[k]
             /\ m_queued_jobs' = m_queued_jobs \o [i \in 1..n |-> new[t][pos[i]]]
    /\ new' = [new EXCEPT ![t] = <<>>]
    /\ Goto(t, "flush")
    /\ UNCHANGED <<fenceVars, cache, work, hashed, issued, finished>>

\* ... and the flush_hashed jobs pass the fence like any new job.
AddHashed(t, j) ==
    /\ pc[t] = "flush" /\ j \in hashed[t]
    /\ \/ Block(j) /\ UNCHANGED m_queued_jobs
       \/ Pass(<<j>>) /\ m_queued_jobs' = Append(m_queued_jobs, j)
    /\ hashed' = [hashed EXCEPT ![t] = @ \ {j}]
    /\ UNCHANGED <<cache, pc, work, new>>

NextJob(t) ==
    /\ pc[t] = "flush" /\ hashed[t] = {}
    /\ Goto(t, "wait")
    /\ UNCHANGED <<fenceVars, m_queued_jobs, cache, work, new, hashed, issued,
                   finished>>

DiskThread(t) ==
    \/ TakeJob(t) \/ Perform(t) \/ InsertWrites(t) \/ QueueOthers(t) \/ NextJob(t)
    \/ \E j \in Jobs : Complete(t, j) \/ AddHashed(t, j)

NetworkThread ==
    \/ \E w \in Writes : async_write(w)
    \/ \E o \in Others : add_job(o)
    \/ \E f \in Fences : add_fence_job(f)

Next == NetworkThread \/ \E t \in Threads : DiskThread(t)

Spec == Init /\ [][Next]_vars

\* The threads of the pool keep running; nothing is assumed of the network.
FairSpec == Spec /\ \A t \in Threads : WF_vars(DiskThread(t))
-----------------------------------------------------------------------------
(***************************************************************************)
(* Properties.                                                              *)
(***************************************************************************)
InSeq(s) == {s[i] : i \in 1..Len(s)}

\* Every variable stays in its type: no counter of the fence goes below zero,
\* and the cache holds writes only.
TypeOK ==
    /\ m_has_fence \in Nat
    /\ m_outstanding_jobs \in Nat
    /\ m_blocked_jobs \in Seq(Jobs)
    /\ in_progress \in SUBSET Jobs
    /\ m_queued_jobs \in Seq(Jobs)
    /\ cache \in SUBSET WriteJobs
    /\ pc \in [Threads -> {"wait", "run", "complete", "insert", "queue", "flush"}]
    /\ work \in [Threads -> SUBSET Jobs]
    /\ new \in [Threads -> Seq(Jobs)]
    /\ hashed \in [Threads -> SUBSET Jobs]
    /\ issued \in Seq(Jobs)
    /\ finished \in SUBSET Jobs

\* A fence job has the storage for itself: while it is on its way, from the
\* moment the fence lets it go until it completes, no other job is.
FenceExclusive ==
    \A j \in in_progress \cap FenceJobs : in_progress = {j}

\* The counters that decide when a fence goes up and down agree with the jobs:
\* every job on its way is counted once, every fence that was raised and has
\* not completed is counted once.
CountersAgree ==
    /\ m_outstanding_jobs = Cardinality(in_progress)
    /\ m_has_fence = Cardinality({j \in FenceJobs : Issued(j) /\ j \notin finished})

\* No job is lost or run twice: a job on its way is in exactly one place (the
\* queue, the cache or one thread's hands), and a job that is not complete is
\* on its way or blocked, never both.
Hands(t) == work[t] \cup (IF pc[t] = "queue" THEN InSeq(new[t]) \ WriteJobs
                          ELSE InSeq(new[t]))
NoJobLost ==
    /\ in_progress = InSeq(m_queued_jobs) \cup cache \cup UNION {Hands(t) : t \in Threads}
    /\ InSeq(m_queued_jobs) \cap cache = {}
    /\ \A t \in Threads :
          /\ Hands(t) \cap (InSeq(m_queued_jobs) \cup cache) = {}
          /\ \A u \in Threads \ {t} : Hands(t) \cap Hands(u) = {}
    /\ InSeq(issued) \ finished = in_progress \cup InSeq(m_blocked_jobs)
    /\ in_progress \cap InSeq(m_blocked_jobs) = {}

\* A fence is a barrier: when it runs, all jobs issued before it are complete,
\* and no job issued after it starts before it is complete.
Started(j) == j \in in_progress \cup finished
FenceOrder ==
    \A i, k \in 1..Len(issued) :
        /\ i < k
        /\ issued[i] \in FenceJobs \/ issued[k] \in FenceJobs
        /\ Started(issued[k])
        => issued[i] \in finished

\* A fence is executed, or at some time after it was issued a write was in the
\* cache behind the back of a fence: that fence's flush was complete, the fence
\* was not.  So a fence waits for ever only where there was such a write (one
\* that was then flushed discharges the property as well).
LateWrite ==
    /\ cache # {}
    /\ \E f \in Fences : FlushJob(f) \in finished /\ FenceJob(f) \notin finished
StuckOnlyByLateWrite ==
    \A f \in Fences :
        Issued(FenceJob(f)) ~> FenceJob(f) \in finished \/ LateWrite

\* add_fence_job: the flush makes "sure that all outstanding jobs on this
\* storage actually get flushed, in order for the fence job to be executed".
FenceRuns == \A f \in Fences : Issued(FenceJob(f)) ~> FenceJob(f) \in finished
=============================================================================
