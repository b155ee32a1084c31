------------------------- MODULE DiskJobFenceProofs -------------------------
(***************************************************************************)
(* What DiskJobFence promises for any number of threads and jobs: no job    *)
(* is lost or run twice, the fence's counters agree with the jobs, and a    *)
(* fence job has the storage for itself, in the order of issue.             *)
(***************************************************************************)
EXTENDS DiskJobFence, FiniteSetTheorems, SequenceTheorems, WellFoundedInduction,
        TLAPS

Distinct(s) == \A i, k \in 1..Len(s) : s[i] = s[k] => i = k

(***************************************************************************)
(* The inductive invariant.  Its first part is about the fence alone and is *)
(* stated for any values of its variables, so that a handler that brings    *)
(* two jobs to the fence is reasoned about one job at a time: the jobs it   *)
(* has let through are a prefix of the jobs issued, those it holds back are *)
(* the rest, in order.                                                      *)
(***************************************************************************)
Open(iss, fin) == {j \in FenceJobs : j \in InSeq(iss) /\ j \notin fin}

\* Blocked jobs are the last ones that were issued; the others have started.
Prefix(iss, blk, inp, fin) ==
    /\ Len(blk) <= Len(iss)
    /\ \A i \in 1..Len(blk) : blk[i] = iss[Len(iss) - Len(blk) + i]
    /\ inp \cup fin = {iss[i] : i \in 1..(Len(iss) - Len(blk))}
    /\ inp \cap fin = {}

Counts(iss, inp, fin, hf, oj) ==
    /\ IsFiniteSet(inp) /\ oj = Cardinality(inp)
    /\ IsFiniteSet(Open(iss, fin)) /\ hf = Cardinality(Open(iss, fin))

Order(iss, inp, fin) ==
    \A i, k \in 1..Len(iss) :
        /\ i < k
        /\ iss[i] \in FenceJobs \/ iss[k] \in FenceJobs
        /\ iss[k] \in inp \cup fin
        => iss[i] \in fin

\* What is blocked waits for a job that is on its way; unless that is a fence,
\* the first blocked job is one.
HeadOfLine(blk, inp) ==
    blk # <<>> => /\ inp # {}
                  /\ blk[1] \in FenceJobs \/ inp \cap FenceJobs # {}

FenceInv(iss, blk, inp, fin, hf, oj) ==
    /\ iss \in Seq(Jobs)
    /\ blk \in Seq(Jobs)
    /\ Distinct(iss)
    /\ Prefix(iss, blk, inp, fin)
    /\ Counts(iss, inp, fin, hf, oj)
    /\ Order(iss, inp, fin)
    /\ HeadOfLine(blk, inp)

FenceState == FenceInv(issued, m_blocked_jobs, in_progress, finished,
                       m_has_fence, m_outstanding_jobs)

\* Where the jobs on their way are, and what a thread holds at each point.
Places ==
    /\ in_progress = InSeq(m_queued_jobs) \cup cache \cup UNION {Hands(t) : t \in Threads}
    /\ InSeq(m_queued_jobs) \cap cache = {}
    /\ \A t \in Threads : Hands(t) \cap (InSeq(m_queued_jobs) \cup cache) = {}
    /\ \A t, u \in Threads : t # u => Hands(t) \cap Hands(u) = {}
    /\ \A t \in Threads : work[t] \cap InSeq(new[t]) = {}
    /\ Distinct(m_queued_jobs)
    /\ \A t \in Threads : Distinct(new[t])

ThreadState ==
    \A t \in Threads :
        /\ pc[t] \in {"wait", "insert", "queue", "flush"} => work[t] = {}
        /\ pc[t] \in {"wait", "run", "flush"} => new[t] = <<>>
        /\ pc[t] \in {"wait", "run", "complete", "insert"} => hashed[t] = {}

\* A flush job is issued once: the one of a fence with it, the one of a write
\* no earlier than the write leaves the fence.
Waiting(w) ==
    \/ WriteJob(w) \in InSeq(m_blocked_jobs)
    \/ \E t \in Threads : pc[t] \in {"complete", "insert"} /\ WriteJob(w) \in InSeq(new[t])

Fresh ==
    /\ \A f \in Fences : Issued(FlushJob(f)) => Issued(FenceJob(f))
    /\ \A w \in Writes : Issued(HashedJob(w)) => Issued(WriteJob(w))
    /\ \A t \in Threads : \A j \in hashed[t] :
          \E w \in Writes : j = HashedJob(w) /\ Issued(WriteJob(w))
    /\ \A t \in Threads : \A j \in hashed[t] : ~Issued(j)
    /\ \A t, u \in Threads : t # u => hashed[t] \cap hashed[u] = {}
    /\ \A w \in Writes : Waiting(w) =>
          /\ ~Issued(HashedJob(w))
          /\ \A u \in Threads : HashedJob(w) \notin hashed[u]

IInv == TypeOK /\ FenceState /\ Places /\ ThreadState /\ Fresh
-----------------------------------------------------------------------------
(***************************************************************************)
(* Sequences and the sets of their elements.                                *)
(***************************************************************************)
\* Appending a job adds it as the last one.
LEMMA AppendFacts ==
    ASSUME NEW S, NEW s \in Seq(S), NEW x \in S
    PROVE  /\ Append(s, x) \in Seq(S)
           /\ Len(Append(s, x)) = Len(s) + 1
           /\ \A i \in 1..Len(s) : Append(s, x)[i] = s[i]
           /\ Append(s, x)[Len(s) + 1] = x
           /\ InSeq(Append(s, x)) = InSeq(s) \cup {x}
<1>1. /\ Append(s, x) \in Seq(S)
      /\ Len(Append(s, x)) = Len(s) + 1
      /\ \A i \in 1..Len(s) : Append(s, x)[i] = s[i]
      /\ Append(s, x)[Len(s) + 1] = x
  BY AppendProperties
<1>2. Len(s) \in Nat
  BY LenProperties
<1>3. InSeq(Append(s, x)) = InSeq(s) \cup {x}
  <2>1. ASSUME NEW y \in InSeq(Append(s, x)) PROVE y \in InSeq(s) \cup {x}
    <3>1. PICK i \in 1..(Len(s) + 1) : y = Append(s, x)[i]
      BY <1>1, <2>1 DEF InSeq
    <3>2. i \in 1..Len(s) \/ i = Len(s) + 1
      BY <1>2
    <3> QED BY <3>1, <3>2, <1>1 DEF InSeq
  <2>2. ASSUME NEW y \in InSeq(s) PROVE y \in InSeq(Append(s, x))
    <3>1. PICK i \in 1..Len(s) : y = s[i]
      BY <2>2 DEF InSeq
    <3>2. i \in 1..(Len(s) + 1) /\ Append(s, x)[i] = y
      BY <1>1, <1>2, <3>1
    <3> QED BY <3>2, <1>1 DEF InSeq
  <2>3. x \in InSeq(Append(s, x))
    <3>1. Len(s) + 1 \in 1..(Len(s) + 1)
      BY <1>2
    <3> QED BY <3>1, <1>1 DEF InSeq
  <2> QED BY <2>1, <2>2, <2>3
<1> QED BY <1>1, <1>3

\* Two jobs appended are two more elements.
LEMMA AppendTwo ==
    ASSUME NEW S, NEW s \in Seq(S), NEW x \in S, NEW y \in S
    PROVE  InSeq(Append(Append(s, x), y)) = InSeq(s) \cup {x, y}
<1> DEFINE r == Append(s, x)
<1>1. r \in Seq(S) /\ InSeq(r) = InSeq(s) \cup {x}
  BY AppendFacts
<1> HIDE DEF r
<1>2. InSeq(Append(r, y)) = InSeq(r) \cup {y}
  BY <1>1, AppendFacts
<1>3. InSeq(Append(r, y)) = InSeq(s) \cup {x, y}
  BY <1>1, <1>2
<1> QED BY <1>3 DEF r

\* Two jobs brought to the fence together come one after the other.
LEMMA ConcatIsAppend ==
    ASSUME NEW S, NEW s \in Seq(S), NEW x \in S, NEW y \in S
    PROVE  /\ s \o <<x>> = Append(s, x)
           /\ s \o <<x, y>> = Append(Append(s, x), y)
<1>0. <<x>> \in Seq(S) /\ <<x, y>> \in Seq(S)
  OBVIOUS
<1>1. s \o <<x>> = Append(s, x)
  BY <1>0
<1>2. s \o <<x, y>> = Append(Append(s, x), y)
  BY <1>0
<1> QED BY <1>1, <1>2

\* The elements of a concatenation are those of both parts.
LEMMA ConcatFacts ==
    ASSUME NEW S, NEW s \in Seq(S), NEW r \in Seq(S)
    PROVE  /\ s \o r \in Seq(S)
           /\ InSeq(s \o r) = InSeq(s) \cup InSeq(r)
           /\ Distinct(s) /\ Distinct(r) /\ InSeq(s) \cap InSeq(r) = {}
                 => Distinct(s \o r)
<1>0. Len(s) \in Nat /\ Len(r) \in Nat
  BY LenProperties
<1>1. /\ s \o r \in Seq(S)
      /\ Len(s \o r) = Len(s) + Len(r)
      /\ \A i \in 1..(Len(s) + Len(r)) :
            (s \o r)[i] = IF i <= Len(s) THEN s[i] ELSE r[i - Len(s)]
  BY ConcatProperties
<1>2. InSeq(s \o r) = InSeq(s) \cup InSeq(r)
  <2>1. ASSUME NEW y \in InSeq(s \o r) PROVE y \in InSeq(s) \cup InSeq(r)
    <3>1. PICK i \in 1..(Len(s) + Len(r)) : y = (s \o r)[i]
      BY <1>1, <2>1 DEF InSeq
    <3>2. CASE i <= Len(s)
      BY <3>1, <3>2, <1>0, <1>1 DEF InSeq
    <3>3. CASE ~(i <= Len(s))
      <4>1. i - Len(s) \in 1..Len(r) /\ y = r[i - Len(s)]
        BY <3>1, <3>3, <1>0, <1>1
      <4> QED BY <4>1 DEF InSeq
    <3> QED BY <3>2, <3>3
  <2>2. ASSUME NEW y \in InSeq(s) PROVE y \in InSeq(s \o r)
    <3>1. PICK i \in 1..Len(s) : y = s[i]
      BY <2>2 DEF InSeq
    <3>2. i \in 1..(Len(s) + Len(r)) /\ (s \o r)[i] = y
      BY <1>0, <1>1, <3>1
    <3> QED BY <3>2, <1>1 DEF InSeq
  <2>3. ASSUME NEW y \in InSeq(r) PROVE y \in InSeq(s \o r)
    <3>1. PICK i \in 1..Len(r) : y = r[i]
      BY <2>3 DEF InSeq
    <3>2. i + Len(s) \in 1..(Len(s) + Len(r)) /\ (s \o r)[i + Len(s)] = y
      BY <1>0, <1>1, <3>1
    <3> QED BY <3>2, <1>1 DEF InSeq
  <2> QED BY <2>1, <2>2, <2>3
<1>3. ASSUME Distinct(s), Distinct(r), InSeq(s) \cap InSeq(r) = {}
      PROVE  Distinct(s \o r)
  <2>1. SUFFICES ASSUME NEW i \in 1..(Len(s) + Len(r)), NEW k \in 1..(Len(s) + Len(r)),
                        (s \o r)[i] = (s \o r)[k], i < k
                 PROVE  FALSE
    BY <1>0, <1>1 DEF Distinct
  <2>2. CASE k <= Len(s)
    BY <2>1, <2>2, <1>0, <1>1, <1>3 DEF Distinct
  <2>3. CASE i <= Len(s) /\ ~(k <= Len(s))
    <3>1. i \in 1..Len(s) /\ k - Len(s) \in 1..Len(r) /\ s[i] = r[k - Len(s)]
      BY <2>1, <2>3, <1>0, <1>1
    <3>2. s[i] \in InSeq(s) \cap InSeq(r)
      BY <3>1 DEF InSeq
    <3> QED BY <3>2, <1>3
  <2>4. CASE ~(i <= Len(s)) /\ ~(k <= Len(s))
    <3>1. i - Len(s) \in 1..Len(r) /\ k - Len(s) \in 1..Len(r)
          /\ r[i - Len(s)] = r[k - Len(s)]
      BY <2>1, <2>4, <1>0, <1>1
    <3>2. i - Len(s) = k - Len(s)
      BY <3>1, <1>3 DEF Distinct
    <3> QED BY <3>2, <2>1, <1>0
  <2> QED BY <2>1, <2>2, <2>3, <2>4, <1>0
<1> QED BY <1>1, <1>2, <1>3

\* A new job keeps a sequence without repetitions.
LEMMA AppendDistinct ==
    ASSUME NEW S, NEW s \in Seq(S), NEW x \in S, Distinct(s), x \notin InSeq(s)
    PROVE  Distinct(Append(s, x))
<1>0. Len(s) \in Nat
  BY LenProperties
<1>1. ASSUME NEW i \in 1..Len(s) PROVE s[i] # x
  BY <1>1 DEF InSeq
<1>2. SUFFICES ASSUME NEW i \in 1..(Len(s) + 1), NEW k \in 1..(Len(s) + 1),
                      Append(s, x)[i] = Append(s, x)[k]
               PROVE  i = k
  BY AppendFacts DEF Distinct
<1>3. CASE i = Len(s) + 1 \/ k = Len(s) + 1
  BY <1>0, <1>1, <1>2, <1>3, AppendFacts
<1>4. CASE i # Len(s) + 1 /\ k # Len(s) + 1
  <2>1. i \in 1..Len(s) /\ k \in 1..Len(s) /\ s[i] = s[k]
    BY <1>0, <1>2, <1>4, AppendFacts
  <2> QED BY <2>1 DEF Distinct
<1> QED BY <1>3, <1>4

\* Taking the first job of a queue without repetitions removes just that job.
LEMMA TailFacts ==
    ASSUME NEW S, NEW s \in Seq(S), s # <<>>, Distinct(s)
    PROVE  /\ Head(s) \in S /\ Head(s) \in InSeq(s)
           /\ Tail(s) \in Seq(S)
           /\ InSeq(Tail(s)) = InSeq(s) \ {Head(s)}
           /\ Distinct(Tail(s))
<1>0. Len(s) \in Nat /\ Len(s) # 0
  BY LenProperties, EmptySeq
<1>1. /\ Head(s) = s[1] /\ Head(s) \in S
      /\ Tail(s) \in Seq(S)
      /\ Len(Tail(s)) = Len(s) - 1
      /\ \A i \in 1..(Len(s) - 1) : Tail(s)[i] = s[i + 1]
  BY <1>0, HeadTailProperties
<1>2. Head(s) \in InSeq(s)
  BY <1>0, <1>1 DEF InSeq
<1>3. ASSUME NEW y \in InSeq(Tail(s)) PROVE y \in InSeq(s) \ {Head(s)}
  <2>1. PICK i \in 1..(Len(s) - 1) : y = Tail(s)[i]
    BY <1>1, <1>3 DEF InSeq
  <2>2. i + 1 \in 1..Len(s) /\ y = s[i + 1]
    BY <2>1, <1>0, <1>1
  <2>3. y # s[1]
    BY <2>2, <1>0 DEF Distinct
  <2> QED BY <2>2, <2>3, <1>1 DEF InSeq
<1>4. ASSUME NEW y \in InSeq(s), y # Head(s) PROVE y \in InSeq(Tail(s))
  <2>1. PICK i \in 1..Len(s) : y = s[i]
    BY <1>4 DEF InSeq
  <2>2. i - 1 \in 1..(Len(s) - 1) /\ (i - 1) + 1 = i
    BY <2>1, <1>4, <1>0, <1>1
  <2>3. y = Tail(s)[i - 1]
    BY <2>1, <2>2, <1>1
  <2> QED BY <2>2, <2>3, <1>1 DEF InSeq
<1>5. Distinct(Tail(s))
  <2>1. SUFFICES ASSUME NEW i \in 1..(Len(s) - 1), NEW k \in 1..(Len(s) - 1),
                        Tail(s)[i] = Tail(s)[k]
                 PROVE  i = k
    BY <1>1 DEF Distinct
  <2>2. i + 1 \in 1..Len(s) /\ k + 1 \in 1..Len(s) /\ s[i + 1] = s[k + 1]
    BY <2>1, <1>0, <1>1
  <2>3. i + 1 = k + 1
    BY <2>2 DEF Distinct
  <2> QED BY <2>3, <1>0
<1> QED BY <1>1, <1>2, <1>3, <1>4, <1>5

\* Without repetitions the elements are as many as the sequence is long.
LEMMA CountElements ==
    ASSUME NEW S, NEW s \in Seq(S), Distinct(s)
    PROVE  IsFiniteSet(InSeq(s)) /\ Cardinality(InSeq(s)) = Len(s)
<1>0. Len(s) \in Nat /\ s \in [1..Len(s) -> S]
  BY LenProperties
<1>1. s \in Bijection(1..Len(s), InSeq(s))
  BY <1>0 DEF Bijection, Injection, Surjection, IsInjective, Distinct, InSeq
<1>2. ExistsBijection(1..Len(s), InSeq(s))
  BY <1>1 DEF ExistsBijection
<1> QED BY <1>0, <1>2, FS_CountingElements, FS_NatBijection

\* Cutting a sequence at n.
LEMMA SplitFacts ==
    ASSUME NEW S, NEW s \in Seq(S), NEW n \in 0..Len(s)
    PROVE  /\ SubSeq(s, 1, n) \in Seq(S)
           /\ Len(SubSeq(s, 1, n)) = n
           /\ \A i \in 1..n : SubSeq(s, 1, n)[i] = s[i]
           /\ SubSeq(s, n + 1, Len(s)) \in Seq(S)
           /\ Len(SubSeq(s, n + 1, Len(s))) = Len(s) - n
           /\ \A i \in 1..(Len(s) - n) : SubSeq(s, n + 1, Len(s))[i] = s[n + i]
           /\ Distinct(s) => Distinct(SubSeq(s, 1, n))
<1>0. Len(s) \in Nat /\ n \in Int /\ n + 1 \in Int /\ Len(s) \in Int
      /\ \A i \in 1..Len(s) : s[i] \in S
  BY LenProperties, ElementOfSeq
<1>1. \A i \in 1..n : s[i] \in S
  BY <1>0
<1>2. /\ SubSeq(s, 1, n) \in Seq(S)
      /\ Len(SubSeq(s, 1, n)) = IF 1 <= n THEN n - 1 + 1 ELSE 0
      /\ \A i \in 1..(n - 1 + 1) : SubSeq(s, 1, n)[i] = s[1 + i - 1]
  BY <1>0, <1>1, SubSeqProperties
<1>3. /\ Len(SubSeq(s, 1, n)) = n
      /\ \A i \in 1..n : SubSeq(s, 1, n)[i] = s[i]
  BY <1>0, <1>2
<1>4. \A i \in (n + 1)..Len(s) : s[i] \in S
  BY <1>0
<1>5. /\ SubSeq(s, n + 1, Len(s)) \in Seq(S)
      /\ Len(SubSeq(s, n + 1, Len(s)))
           = IF n + 1 <= Len(s) THEN Len(s) - (n + 1) + 1 ELSE 0
      /\ \A i \in 1..(Len(s) - (n + 1) + 1) :
            SubSeq(s, n + 1, Len(s))[i] = s[(n + 1) + i - 1]
  BY <1>0, <1>4, SubSeqProperties
<1>6. /\ Len(SubSeq(s, n + 1, Len(s))) = Len(s) - n
      /\ \A i \in 1..(Len(s) - n) : SubSeq(s, n + 1, Len(s))[i] = s[n + i]
  BY <1>0, <1>5
<1>7. Distinct(s) => Distinct(SubSeq(s, 1, n))
  BY <1>0, <1>3 DEF Distinct
<1> QED BY <1>2, <1>3, <1>5, <1>6, <1>7
-----------------------------------------------------------------------------
(***************************************************************************)
(* What the fence is told, one job at a time.                               *)
(***************************************************************************)
\* Only fence jobs are fences, and the kinds of jobs do not overlap.
LEMMA JobKinds ==
    /\ \A w \in Writes : WriteJob(w) \in Jobs /\ HashedJob(w) \in Jobs
    /\ \A w \in Writes : WriteJob(w) \notin FenceJobs /\ HashedJob(w) \notin FenceJobs
    /\ \A o \in Others : OtherJob(o) \in Jobs /\ OtherJob(o) \notin FenceJobs
    /\ \A f \in Fences : FlushJob(f) \in Jobs /\ FlushJob(f) \notin FenceJobs
    /\ \A f \in Fences : FenceJob(f) \in Jobs /\ FenceJob(f) \in FenceJobs
    /\ \A w, v \in Writes : WriteJob(w) # HashedJob(v)
    /\ \A w, v \in Writes : HashedJob(w) = HashedJob(v) => w = v
    /\ \A w, v \in Writes : WriteJob(w) = WriteJob(v) => w = v
    /\ \A w \in Writes, o \in Others : HashedJob(w) # OtherJob(o) /\ WriteJob(w) # OtherJob(o)
    /\ \A w \in Writes, f \in Fences :
          /\ HashedJob(w) # FlushJob(f) /\ HashedJob(w) # FenceJob(f)
          /\ WriteJob(w) # FlushJob(f) /\ WriteJob(w) # FenceJob(f)
    /\ \A f \in Fences, o \in Others : FlushJob(f) # OtherJob(o)
    /\ \A f, g \in Fences : FlushJob(f) = FlushJob(g) => f = g
    /\ \A f, g \in Fences : FlushJob(f) # FenceJob(g)
  BY DEF Jobs, WriteJobs, FenceJobs, WriteJob, HashedJob, OtherJob, FlushJob, FenceJob

\* A fence that is issued and not complete is on its way or blocked; without
\* such a fence nothing is blocked.
LEMMA OpenFences ==
    ASSUME NEW iss, NEW blk, NEW inp, NEW fin, NEW hf, NEW oj,
           FenceInv(iss, blk, inp, fin, hf, oj)
    PROVE  /\ hf \in Nat /\ oj \in Nat
           /\ inp \cup InSeq(blk) = InSeq(iss) \ fin
           /\ inp \cap InSeq(blk) = {}
           /\ fin \subseteq InSeq(iss)
           /\ hf = 0 => blk = <<>> /\ \A j \in InSeq(iss) \cap FenceJobs : j \in fin
           /\ hf # 0 => \E j \in FenceJobs : j \in inp \cup InSeq(blk)
           /\ oj = 0 => inp = {} /\ blk = <<>>
           /\ oj # 0 => inp # {}
<1> USE DEF FenceInv
<1>0. Len(iss) \in Nat /\ Len(blk) \in Nat
  BY LenProperties
<1>1. hf \in Nat /\ oj \in Nat
  BY FS_CardinalityType DEF Counts
<1>2. fin \subseteq InSeq(iss)
  BY <1>0 DEF Prefix, InSeq
<1>3. ASSUME NEW j \in InSeq(blk) PROVE j \in InSeq(iss) /\ j \notin inp \cup fin
  <2>1. PICK i \in 1..Len(blk) : j = blk[i]
    BY <1>3 DEF InSeq
  <2>2. j = iss[Len(iss) - Len(blk) + i] /\ Len(iss) - Len(blk) + i \in 1..Len(iss)
    BY <2>1, <1>0 DEF Prefix
  <2>3. ASSUME j \in inp \cup fin PROVE FALSE
    <3>1. PICK k \in 1..(Len(iss) - Len(blk)) : j = iss[k]
      BY <2>3 DEF Prefix
    <3>2. k \in 1..Len(iss) /\ k # Len(iss) - Len(blk) + i
      BY <3>1, <1>0
    <3> QED BY <2>2, <3>1, <3>2 DEF Distinct
  <2> QED BY <2>2, <2>3 DEF InSeq
<1>4. ASSUME NEW j \in InSeq(iss), j \notin inp \cup fin PROVE j \in InSeq(blk)
  <2>1. PICK k \in 1..Len(iss) : j = iss[k]
    BY <1>4 DEF InSeq
  <2>2. ~(k \in 1..(Len(iss) - Len(blk)))
    BY <2>1, <1>4 DEF Prefix
  <2> DEFINE i == k - (Len(iss) - Len(blk))
  <2>3. i \in 1..Len(blk) /\ Len(iss) - Len(blk) + i = k
    BY <2>1, <2>2, <1>0 DEF Prefix
  <2>4. blk[i] = j
    BY <2>1, <2>3 DEF Prefix
  <2> QED BY <2>3, <2>4 DEF InSeq
<1>5. inp \subseteq InSeq(iss) /\ inp \cap fin = {}
  BY <1>0 DEF Prefix, InSeq
<1>6. inp \cup InSeq(blk) = InSeq(iss) \ fin /\ inp \cap InSeq(blk) = {}
  BY <1>3, <1>4, <1>5
<1>7. blk # <<>> => blk[1] \in InSeq(blk)
  <2>1. blk # <<>> => 1 \in 1..Len(blk)
    BY <1>0, EmptySeq
  <2> QED BY <2>1 DEF InSeq
<1>8. ASSUME hf = 0
      PROVE  blk = <<>> /\ \A j \in InSeq(iss) \cap FenceJobs : j \in fin
  <2>1. Open(iss, fin) = {}
    BY <1>8, FS_EmptySet DEF Counts
  <2>2. \A j \in InSeq(iss) \cap FenceJobs : j \in fin
    BY <2>1 DEF Open
  <2> QED BY <2>2, <1>6, <1>7 DEF HeadOfLine
<1>9. ASSUME hf # 0 PROVE \E j \in FenceJobs : j \in inp \cup InSeq(blk)
  <2>1. Open(iss, fin) # {}
    BY <1>9, FS_EmptySet DEF Counts
  <2> QED BY <2>1, <1>6 DEF Open
<1>10. (oj = 0 => inp = {} /\ blk = <<>>) /\ (oj # 0 => inp # {})
  BY FS_EmptySet DEF Counts, HeadOfLine
<1> QED BY <1>1, <1>2, <1>6, <1>8, <1>9, <1>10

\* A fence on its way is alone.
LEMMA AloneInFence ==
    ASSUME NEW iss, NEW blk, NEW inp, NEW fin, NEW hf, NEW oj,
           FenceInv(iss, blk, inp, fin, hf, oj),
           NEW j \in inp, NEW x \in inp, j \in FenceJobs
    PROVE  x = j
<1> USE DEF FenceInv
<1>0. Len(iss) \in Nat /\ Len(blk) \in Nat
  BY LenProperties
<1>1. PICK a \in 1..(Len(iss) - Len(blk)) : j = iss[a]
  BY DEF Prefix
<1>2. PICK b \in 1..(Len(iss) - Len(blk)) : x = iss[b]
  BY DEF Prefix
<1>3. a \in 1..Len(iss) /\ b \in 1..Len(iss)
  BY <1>0
<1>4. CASE a < b
  BY <1>1, <1>2, <1>3, <1>4 DEF Order, Prefix
<1>5. CASE b < a
  BY <1>1, <1>2, <1>3, <1>5 DEF Order, Prefix
<1> QED BY <1>0, <1>1, <1>2, <1>4, <1>5

Raised(j, hf) == IF j \in FenceJobs THEN hf + 1 ELSE hf

\* A fence that is issued is one more open fence; other jobs are none.
LEMMA CountIssued ==
    ASSUME NEW iss \in Seq(Jobs), NEW fin, NEW hf \in Nat, NEW j \in Jobs,
           j \notin InSeq(iss), j \notin fin,
           IsFiniteSet(Open(iss, fin)), hf = Cardinality(Open(iss, fin))
    PROVE  /\ IsFiniteSet(Open(Append(iss, j), fin))
           /\ Raised(j, hf) = Cardinality(Open(Append(iss, j), fin))
<1>1. InSeq(Append(iss, j)) = InSeq(iss) \cup {j}
  BY AppendFacts
<1>2. CASE j \in FenceJobs
  <2>1. Open(Append(iss, j), fin) = Open(iss, fin) \cup {j} /\ j \notin Open(iss, fin)
    BY <1>1, <1>2 DEF Open
  <2> QED BY <2>1, <1>2, FS_AddElement DEF Raised
<1>3. CASE j \notin FenceJobs
  <2>1. Open(Append(iss, j), fin) = Open(iss, fin)
    BY <1>1, <1>3 DEF Open
  <2> QED BY <2>1, <1>3 DEF Raised
<1> QED BY <1>2, <1>3

\* A new job that passes: there is no open fence, and if the job is a fence
\* itself, nothing is on its way.
LEMMA ArriveStarted ==
    ASSUME NEW iss, NEW blk, NEW inp, NEW fin, NEW hf, NEW oj,
           FenceInv(iss, blk, inp, fin, hf, oj),
           NEW j \in Jobs, j \notin InSeq(iss),
           hf = 0, j \in FenceJobs => oj = 0
    PROVE  FenceInv(Append(iss, j), blk, inp \cup {j}, fin, Raised(j, hf), oj + 1)
<1>0. iss \in Seq(Jobs) /\ blk \in Seq(Jobs) /\ Len(iss) \in Nat /\ Distinct(iss)
  BY LenProperties DEF FenceInv
<1>1. /\ hf \in Nat /\ oj \in Nat
      /\ j \notin fin /\ j \notin inp
      /\ blk = <<>> /\ Len(blk) = 0
      /\ \A x \in InSeq(iss) \cap FenceJobs : x \in fin
      /\ oj = 0 => inp = {}
  BY OpenFences
<1>2. /\ Append(iss, j) \in Seq(Jobs)
      /\ Len(Append(iss, j)) = Len(iss) + 1
      /\ \A i \in 1..Len(iss) : Append(iss, j)[i] = iss[i]
      /\ Append(iss, j)[Len(iss) + 1] = j
  BY <1>0, AppendFacts
<1>3. Distinct(Append(iss, j))
  BY <1>0, AppendDistinct
<1>4. inp \cup fin = {iss[i] : i \in 1..Len(iss)} /\ inp \cap fin = {}
  BY <1>0, <1>1 DEF FenceInv, Prefix
<1>5. Prefix(Append(iss, j), blk, inp \cup {j}, fin)
  <2>1. (inp \cup {j}) \cup fin = InSeq(iss) \cup {j}
    BY <1>4 DEF InSeq
  <2>2. (inp \cup {j}) \cup fin = InSeq(Append(iss, j))
    BY <2>1, <1>0, AppendFacts
  <2>3. (inp \cup {j}) \cup fin = {Append(iss, j)[i] : i \in 1..(Len(iss) + 1)}
    BY <2>2, <1>2 DEF InSeq
  <2> QED BY <2>3, <1>0, <1>1, <1>2, <1>4 DEF Prefix
<1>6. Counts(Append(iss, j), inp \cup {j}, fin, Raised(j, hf), oj + 1)
  <2>1. IsFiniteSet(inp \cup {j}) /\ oj + 1 = Cardinality(inp \cup {j})
    BY <1>1, FS_AddElement DEF FenceInv, Counts
  <2> QED BY <2>1, <1>0, <1>1, CountIssued DEF FenceInv, Counts
<1>7. Order(Append(iss, j), inp \cup {j}, fin)
  <2>1. SUFFICES ASSUME NEW i \in 1..(Len(iss) + 1), NEW k \in 1..(Len(iss) + 1), i < k,
                        \/ Append(iss, j)[i] \in FenceJobs
                        \/ Append(iss, j)[k] \in FenceJobs
                 PROVE  Append(iss, j)[i] \in fin
    BY <1>2 DEF Order
  <2>2. i \in 1..Len(iss) /\ Append(iss, j)[i] = iss[i] /\ iss[i] \in InSeq(iss)
    BY <2>1, <1>0, <1>2 DEF InSeq
  <2>3. CASE k \in 1..Len(iss)
    <3>1. iss[k] \in inp \cup fin
      BY <2>3, <1>4
    <3> QED BY <2>1, <2>2, <2>3, <3>1, <1>2 DEF FenceInv, Order
  <2>4. CASE k = Len(iss) + 1
    BY <2>1, <2>2, <2>4, <1>1, <1>2, <1>4
  <2> QED BY <2>3, <2>4, <1>0
<1>8. HeadOfLine(blk, inp \cup {j})
  BY <1>1 DEF HeadOfLine
<1> QED BY <1>0, <1>2, <1>3, <1>5, <1>6, <1>7, <1>8 DEF FenceInv

\* A new job that has to wait: a fence is open, or it is the first fence and
\* something is on its way.
LEMMA ArriveBlocked ==
    ASSUME NEW iss, NEW blk, NEW inp, NEW fin, NEW hf, NEW oj,
           FenceInv(iss, blk, inp, fin, hf, oj),
           NEW j \in Jobs, j \notin InSeq(iss),
           hf # 0 \/ (j \in FenceJobs /\ oj # 0)
    PROVE  FenceInv(Append(iss, j), Append(blk, j), inp, fin, Raised(j, hf), oj)
<1>0. /\ iss \in Seq(Jobs) /\ blk \in Seq(Jobs) /\ Distinct(iss)
      /\ Len(iss) \in Nat /\ Len(blk) \in Nat
  BY LenProperties DEF FenceInv
<1>1. /\ hf \in Nat /\ oj \in Nat
      /\ j \notin fin /\ j \notin inp
      /\ hf # 0 => \E x \in FenceJobs : x \in inp \cup InSeq(blk)
      /\ oj # 0 => inp # {}
  BY OpenFences
<1>2. /\ Append(iss, j) \in Seq(Jobs)
      /\ Len(Append(iss, j)) = Len(iss) + 1
      /\ \A i \in 1..Len(iss) : Append(iss, j)[i] = iss[i]
      /\ Append(iss, j)[Len(iss) + 1] = j
  BY <1>0, AppendFacts
<1>3. /\ Append(blk, j) \in Seq(Jobs)
      /\ Len(Append(blk, j)) = Len(blk) + 1
      /\ \A i \in 1..Len(blk) : Append(blk, j)[i] = blk[i]
      /\ Append(blk, j)[Len(blk) + 1] = j
  BY <1>0, AppendFacts
<1>4. Distinct(Append(iss, j))
  BY <1>0, AppendDistinct
<1>5. Prefix(Append(iss, j), Append(blk, j), inp, fin)
  <2> DEFINE K == Len(iss) - Len(blk)
  <2>1. /\ Len(blk) <= Len(iss) /\ K \in Nat /\ K <= Len(iss)
        /\ inp \cup fin = {iss[i] : i \in 1..K} /\ inp \cap fin = {}
        /\ \A i \in 1..Len(blk) : blk[i] = iss[K + i]
    BY <1>0 DEF FenceInv, Prefix
  <2>2. Len(Append(iss, j)) - Len(Append(blk, j)) = K
    BY <1>0, <1>2, <1>3
  <2>3. {iss[i] : i \in 1..K} = {Append(iss, j)[i] : i \in 1..K}
    <3>1. \A i \in 1..K : Append(iss, j)[i] = iss[i]
      BY <1>0, <1>2, <2>1
    <3> QED BY <3>1
  <2>4. ASSUME NEW i \in 1..(Len(blk) + 1)
        PROVE  Append(blk, j)[i] = Append(iss, j)[K + i]
    <3>1. CASE i = Len(blk) + 1
      <4>1. K + i = Len(iss) + 1
        BY <3>1, <1>0
      <4> QED BY <3>1, <4>1, <1>2, <1>3
    <3>2. CASE i # Len(blk) + 1
      <4>1. i \in 1..Len(blk) /\ K + i \in 1..Len(iss)
        BY <3>2, <1>0, <2>1
      <4> QED BY <4>1, <1>2, <1>3, <2>1
    <3> QED BY <3>1, <3>2
  <2> HIDE DEF K
  <2>5. inp \cup fin = {Append(iss, j)[i] : i \in 1..K}
    BY <2>1, <2>3
  <2> QED BY <1>0, <1>2, <1>3, <2>1, <2>2, <2>4, <2>5 DEF Prefix
<1>6. Counts(Append(iss, j), inp, fin, Raised(j, hf), oj)
  BY <1>0, <1>1, CountIssued DEF FenceInv, Counts
<1>7. Order(Append(iss, j), inp, fin)
  <2>0. inp \cup fin \subseteq InSeq(iss)
    BY <1>0, OpenFences
  <2>1. SUFFICES ASSUME NEW i \in 1..(Len(iss) + 1), NEW k \in 1..(Len(iss) + 1), i < k,
                        \/ Append(iss, j)[i] \in FenceJobs
                        \/ Append(iss, j)[k] \in FenceJobs,
                        Append(iss, j)[k] \in inp \cup fin
                 PROVE  Append(iss, j)[i] \in fin
    BY <1>2 DEF Order
  <2>2. k # Len(iss) + 1
    BY <2>1, <1>1, <1>2
  <2>3. i \in 1..Len(iss) /\ k \in 1..Len(iss)
    BY <2>1, <2>2, <1>0
  <2> QED BY <2>1, <2>3, <1>2 DEF FenceInv, Order
<1>8. HeadOfLine(Append(blk, j), inp)
  <2>1. CASE blk = <<>>
    <3>1. Append(blk, j)[1] = j
      BY <2>1, <1>3
    <3>2. InSeq(blk) = {}
      BY <2>1 DEF InSeq
    <3> QED BY <3>1, <3>2, <1>1 DEF HeadOfLine
  <2>2. CASE blk # <<>>
    <3>1. 1 \in 1..Len(blk)
      BY <2>2, <1>0, EmptySeq
    <3> QED BY <3>1, <2>2, <1>3 DEF FenceInv, HeadOfLine
  <2> QED BY <2>1, <2>2
<1> QED BY <1>2, <1>3, <1>4, <1>5, <1>6, <1>7, <1>8 DEF FenceInv

\* A completion that lets n blocked jobs go: nothing else is on its way when it
\* lets any go, and a fence goes alone.
LEMMA CompleteJob ==
    ASSUME NEW iss, NEW blk, NEW inp, NEW fin, NEW hf, NEW oj,
           FenceInv(iss, blk, inp, fin, hf, oj),
           NEW j \in inp, NEW n \in 0..Len(blk),
           n = 0 \/ inp = {j},
           n = 1 \/ \A i \in 1..n : blk[i] \notin FenceJobs,
           HeadOfLine(SubSeq(blk, n + 1, Len(blk)),
                      (inp \ {j}) \cup InSeq(SubSeq(blk, 1, n)))
    PROVE  FenceInv(iss, SubSeq(blk, n + 1, Len(blk)),
                    (inp \ {j}) \cup InSeq(SubSeq(blk, 1, n)), fin \cup {j},
                    IF j \in FenceJobs THEN hf - 1 ELSE hf, (oj - 1) + n)
<1> DEFINE rest == SubSeq(blk, n + 1, Len(blk))
           out == InSeq(SubSeq(blk, 1, n))
           inp2 == (inp \ {j}) \cup out
           fin2 == fin \cup {j}
           K == Len(iss) - Len(blk)
<1>0. /\ iss \in Seq(Jobs) /\ blk \in Seq(Jobs) /\ Distinct(iss)
      /\ Len(iss) \in Nat /\ Len(blk) \in Nat /\ n \in Nat /\ n <= Len(blk)
  BY LenProperties DEF FenceInv
<1>1. /\ Len(blk) <= Len(iss) /\ K \in Nat /\ K + Len(blk) = Len(iss)
      /\ inp \cup fin = {iss[i] : i \in 1..K} /\ inp \cap fin = {}
      /\ \A i \in 1..Len(blk) : blk[i] = iss[K + i]
  BY <1>0 DEF FenceInv, Prefix
<1>2. /\ rest \in Seq(Jobs) /\ Len(rest) = Len(blk) - n
      /\ \A i \in 1..(Len(blk) - n) : rest[i] = blk[n + i]
      /\ SubSeq(blk, 1, n) \in Seq(Jobs) /\ Len(SubSeq(blk, 1, n)) = n
      /\ \A i \in 1..n : SubSeq(blk, 1, n)[i] = blk[i]
  BY <1>0, SplitFacts
<1>3. out = {iss[i] : i \in (K + 1)..(K + n)}
  <2>1. out = {blk[i] : i \in 1..n}
    BY <1>2 DEF InSeq
  <2>2. ASSUME NEW x \in out PROVE x \in {iss[i] : i \in (K + 1)..(K + n)}
    <3>1. PICK i \in 1..n : x = blk[i]
      BY <2>1, <2>2
    <3>2. x = iss[K + i] /\ K + i \in (K + 1)..(K + n)
      BY <3>1, <1>0, <1>1
    <3> QED BY <3>2
  <2>3. ASSUME NEW x \in {iss[i] : i \in (K + 1)..(K + n)} PROVE x \in out
    <3>1. PICK i \in (K + 1)..(K + n) : x = iss[i]
      BY <2>3
    <3>2. i - K \in 1..n /\ K + (i - K) = i /\ i - K \in 1..Len(blk)
      BY <3>1, <1>0, <1>1
    <3>3. x = blk[i - K]
      BY <3>1, <3>2, <1>1
    <3> QED BY <3>2, <3>3, <2>1
  <2> QED BY <2>2, <2>3
<1>4. out \cap (inp \cup fin) = {}
  <2>1. SUFFICES ASSUME NEW x \in out, x \in inp \cup fin PROVE FALSE
    OBVIOUS
  <2>2. PICK a \in (K + 1)..(K + n) : x = iss[a]
    BY <2>1, <1>3
  <2>3. PICK b \in 1..K : x = iss[b]
    BY <2>1, <1>1
  <2>4. a \in 1..Len(iss) /\ b \in 1..Len(iss) /\ a # b
    BY <2>2, <2>3, <1>0, <1>1
  <2> QED BY <2>2, <2>3, <2>4, <1>0 DEF Distinct
<1>5. inp2 \cup fin2 = {iss[i] : i \in 1..(K + n)} /\ inp2 \cap fin2 = {}
  <2>1. inp2 \cup fin2 = (inp \cup fin) \cup out
    OBVIOUS
  <2>2. 1..(K + n) = (1..K) \cup ((K + 1)..(K + n))
    BY <1>0, <1>1
  <2>3. {iss[i] : i \in 1..(K + n)}
          = {iss[i] : i \in 1..K} \cup {iss[i] : i \in (K + 1)..(K + n)}
    BY <2>2
  <2>4. inp2 \cap fin2 = {}
    BY <1>1, <1>4
  <2> QED BY <2>1, <2>3, <2>4, <1>1, <1>3
<1>6. Prefix(iss, rest, inp2, fin2)
  <2> HIDE DEF rest, inp2, fin2, K
  <2>0. Len(rest) = Len(blk) - n /\ K \in Nat /\ K + Len(blk) = Len(iss)
    BY <1>1, <1>2
  <2>1. Len(rest) <= Len(iss) /\ Len(iss) - Len(rest) = K + n
    BY <2>0, <1>0
  <2>2. ASSUME NEW i \in 1..Len(rest) PROVE rest[i] = iss[(K + n) + i]
    <3>1. i \in 1..(Len(blk) - n) /\ n + i \in 1..Len(blk) /\ K + (n + i) = (K + n) + i
      BY <2>2, <1>0, <1>1, <1>2
    <3> QED BY <3>1, <1>1, <1>2
  <2> QED BY <1>5, <2>1, <2>2 DEF Prefix
<1>7. Counts(iss, inp2, fin2, IF j \in FenceJobs THEN hf - 1 ELSE hf, (oj - 1) + n)
  <2>1. IsFiniteSet(inp \ {j}) /\ Cardinality(inp \ {j}) = oj - 1 /\ oj \in Nat
    BY FS_RemoveElement, FS_CardinalityType DEF FenceInv, Counts
  <2>2. Distinct(SubSeq(blk, 1, n))
    <3>1. \A i, k \in 1..n : blk[i] = blk[k] => i = k
      <4>1. SUFFICES ASSUME NEW i \in 1..n, NEW k \in 1..n, blk[i] = blk[k] PROVE i = k
        OBVIOUS
      <4>2. /\ K + i \in 1..Len(iss) /\ K + k \in 1..Len(iss)
            /\ iss[K + i] = iss[K + k]
        BY <4>1, <1>0, <1>1
      <4>3. K + i = K + k
        BY <4>2, <1>0 DEF Distinct
      <4> QED BY <4>3, <1>0, <1>1
    <3> QED BY <3>1, <1>2 DEF Distinct
  <2>3. IsFiniteSet(out) /\ Cardinality(out) = n
    BY <2>2, <1>2, CountElements
  <2>4. IsFiniteSet(inp2) /\ Cardinality(inp2) = (oj - 1) + n
    <3>1. (inp \ {j}) \cap out = {}
      BY <1>4
    <3>2. /\ IsFiniteSet(inp2)
          /\ Cardinality(inp2) = Cardinality(inp \ {j}) + Cardinality(out)
                                  - Cardinality((inp \ {j}) \cap out)
      BY <2>1, <2>3, FS_Union
    <3>3. Cardinality((inp \ {j}) \cap out) = 0
      BY <3>1, FS_EmptySet
    <3> HIDE DEF out, inp2
    <3> QED BY <3>2, <3>3, <2>1, <2>3, <1>0
  <2>5. j \in InSeq(iss) /\ j \notin fin
    BY OpenFences
  <2>6. CASE j \in FenceJobs
    <3>1. Open(iss, fin2) = Open(iss, fin) \ {j} /\ j \in Open(iss, fin)
      BY <2>5, <2>6 DEF Open
    <3>2. IsFiniteSet(Open(iss, fin2)) /\ hf - 1 = Cardinality(Open(iss, fin2))
      BY <3>1, FS_RemoveElement DEF FenceInv, Counts
    <3> HIDE DEF inp2, fin2
    <3> QED BY <3>2, <2>4, <2>6 DEF Counts
  <2>7. CASE j \notin FenceJobs
    <3>1. Open(iss, fin2) = Open(iss, fin)
      BY <2>5, <2>7 DEF Open
    <3> HIDE DEF inp2, fin2
    <3> QED BY <3>1, <2>4, <2>7 DEF FenceInv, Counts
  <2> QED BY <2>6, <2>7
<1>8. Order(iss, inp2, fin2)
  <2>1. SUFFICES ASSUME NEW i \in 1..Len(iss), NEW k \in 1..Len(iss), i < k,
                        iss[i] \in FenceJobs \/ iss[k] \in FenceJobs,
                        iss[k] \in inp2 \cup fin2
                 PROVE  iss[i] \in fin2
    BY DEF Order
  <2>2. PICK b \in 1..(K + n) : iss[k] = iss[b]
    BY <2>1, <1>5
  <2>3. k \in 1..(K + n)
    <3>1. b \in 1..Len(iss)
      BY <2>2, <1>0, <1>1
    <3> QED BY <2>2, <3>1, <1>0 DEF Distinct
  <2>4. CASE k <= K
    <3>1. k \in 1..K
      BY <2>4, <1>0, <1>1
    <3>2. iss[k] \in inp \cup fin
      BY <3>1, <1>1
    <3> QED BY <2>1, <3>2 DEF FenceInv, Order
  <2>5. CASE ~(k <= K)
    <3>1. n # 0 /\ inp = {j}
      BY <2>3, <2>5, <1>0, <1>1
    <3>2. CASE i <= K
      <4>1. i \in 1..K
        BY <3>2, <1>0, <1>1
      <4> QED BY <3>1, <4>1, <1>1
    <3>3. CASE ~(i <= K)
      <4>1. /\ i - K \in 1..n /\ k - K \in 1..n /\ n # 1
            /\ i - K \in 1..Len(blk) /\ k - K \in 1..Len(blk)
            /\ K + (i - K) = i /\ K + (k - K) = k
        BY <2>1, <2>3, <3>3, <1>0, <1>1
      <4>2. iss[i] = blk[i - K] /\ iss[k] = blk[k - K]
        BY <4>1, <1>1
      <4> QED BY <2>1, <4>1, <4>2
    <3> QED BY <3>2, <3>3
  <2> QED BY <2>4, <2>5
<1> QED BY <1>0, <1>2, <1>6, <1>7, <1>8 DEF FenceInv

\* The first fence among the blocked jobs is found.
LEMMA LeadingFacts ==
    ASSUME m_blocked_jobs \in Seq(Jobs)
    PROVE  /\ Leading \in 0..Len(m_blocked_jobs)
           /\ \A i \in 1..Leading : m_blocked_jobs[i] \notin FenceJobs
           /\ Leading < Len(m_blocked_jobs) => m_blocked_jobs[Leading + 1] \in FenceJobs
<1> DEFINE T == {n \in 0..Len(m_blocked_jobs) :
                   n < Len(m_blocked_jobs) => m_blocked_jobs[n + 1] \in FenceJobs}
           P(n) == /\ \A i \in 1..n : m_blocked_jobs[i] \notin FenceJobs
                   /\ n < Len(m_blocked_jobs) => m_blocked_jobs[n + 1] \in FenceJobs
<1>0. Len(m_blocked_jobs) \in Nat
  BY LenProperties
<1>1. T \subseteq Nat /\ T # {}
  BY <1>0
<1>2. PICK n \in T : \A m \in T : <<m, n>> \notin OpToRel(<, Nat)
  <2> HIDE DEF T
  <2> QED BY <1>1, WFMin, NatLessThanWellFounded
<1>3. ASSUME NEW m \in T PROVE ~(m < n)
  BY <1>1, <1>2, <1>3 DEF OpToRel
<1>4. ASSUME NEW i \in 1..n, m_blocked_jobs[i] \in FenceJobs PROVE FALSE
  <2>1. i - 1 \in 0..Len(m_blocked_jobs) /\ (i - 1) + 1 = i /\ i - 1 < n
    BY <1>0, <1>4
  <2>2. i - 1 \in T
    BY <2>1, <1>4
  <2> QED BY <2>1, <2>2, <1>3
<1>5. n \in 0..Len(m_blocked_jobs) /\ P(n)
  BY <1>4
<1>6. Leading = CHOOSE m \in 0..Len(m_blocked_jobs) : P(m)
  BY DEF Leading
<1>7. Leading \in 0..Len(m_blocked_jobs) /\ P(Leading)
  <2> HIDE DEF P
  <2> QED BY <1>5, <1>6
<1> QED BY <1>7
-----------------------------------------------------------------------------
(***************************************************************************)
(* The handlers of the fence keep its part of the invariant.                *)
(***************************************************************************)
\* Issued jobs are the elements of the history issued.
LEMMA IssuedIsIn == \A j : Issued(j) <=> j \in InSeq(issued)
  BY DEF Issued, InSeq

\* is_blocked lets one job pass ...
LEMMA PassOne ==
    ASSUME FenceState, NEW j \in Jobs, ~Issued(j), j \notin FenceJobs, Pass(<<j>>)
    PROVE  /\ FenceState'
           /\ issued' = Append(issued, j)
           /\ in_progress' = in_progress \cup {j}
<1>0. issued \in Seq(Jobs) /\ j \notin InSeq(issued)
  BY IssuedIsIn DEF FenceState, FenceInv
<1>1. Len(<<j>>) = 1 /\ {<<j>>[i] : i \in 1..1} = {j}
  OBVIOUS
<1>2. issued' = Append(issued, j)
  BY <1>0, ConcatIsAppend DEF Pass
<1>3. /\ in_progress' = in_progress \cup {j}
      /\ m_outstanding_jobs' = m_outstanding_jobs + 1
  BY <1>1 DEF Pass
<1>4. FenceInv(Append(issued, j), m_blocked_jobs, in_progress \cup {j}, finished,
               Raised(j, m_has_fence), m_outstanding_jobs + 1)
  BY <1>0, ArriveStarted DEF Pass, FenceState
<1> QED BY <1>2, <1>3, <1>4 DEF Pass, FenceState, Raised

\* ... or a write and its flush ...
LEMMA PassTwo ==
    ASSUME FenceState, NEW j \in Jobs, NEW k \in Jobs, ~Issued(j), ~Issued(k), j # k,
           j \notin FenceJobs, k \notin FenceJobs, Pass(<<j, k>>)
    PROVE  /\ FenceState'
           /\ issued' = Append(Append(issued, j), k)
           /\ in_progress' = in_progress \cup {j, k}
<1>0. issued \in Seq(Jobs) /\ j \notin InSeq(issued) /\ k \notin InSeq(issued)
  BY IssuedIsIn DEF FenceState, FenceInv
<1>1. Len(<<j, k>>) = 2 /\ {<<j, k>>[i] : i \in 1..2} = {j, k}
  <2>1. 1..2 = {1, 2}
    OBVIOUS
  <2> QED BY <2>1
<1>2. issued' = Append(Append(issued, j), k)
  BY <1>0, ConcatIsAppend DEF Pass
<1>3. /\ in_progress' = in_progress \cup {j, k}
      /\ m_outstanding_jobs' = m_outstanding_jobs + 2
  BY <1>1 DEF Pass
<1>4. FenceInv(Append(issued, j), m_blocked_jobs, in_progress \cup {j}, finished,
               m_has_fence, m_outstanding_jobs + 1)
  <2>1. FenceInv(Append(issued, j), m_blocked_jobs, in_progress \cup {j}, finished,
                 Raised(j, m_has_fence), m_outstanding_jobs + 1)
    BY <1>0, ArriveStarted DEF Pass, FenceState
  <2> QED BY <2>1 DEF Raised
<1>5. k \notin InSeq(Append(issued, j))
  BY <1>0, AppendFacts
<1>6. FenceInv(Append(Append(issued, j), k), m_blocked_jobs, in_progress \cup {j} \cup {k},
               finished, m_has_fence, m_outstanding_jobs + 1 + 1)
  <2>1. FenceInv(Append(Append(issued, j), k), m_blocked_jobs,
                 in_progress \cup {j} \cup {k},
                 finished, Raised(k, m_has_fence), m_outstanding_jobs + 1 + 1)
    BY <1>4, <1>5, ArriveStarted DEF Pass
  <2> QED BY <2>1 DEF Raised
<1>7. /\ in_progress \cup {j} \cup {k} = in_progress \cup {j, k}
      /\ m_outstanding_jobs + 1 + 1 = m_outstanding_jobs + 2
  BY OpenFences DEF FenceState
<1> QED BY <1>2, <1>3, <1>6, <1>7 DEF Pass, FenceState

\* ... or puts the job behind the open fences.
LEMMA BlockOne ==
    ASSUME FenceState, NEW j \in Jobs, ~Issued(j), j \notin FenceJobs, Block(j)
    PROVE  /\ FenceState'
           /\ issued' = Append(issued, j)
           /\ m_blocked_jobs' = Append(m_blocked_jobs, j)
<1>0. j \notin InSeq(issued)
  BY IssuedIsIn
<1>1. FenceInv(Append(issued, j), Append(m_blocked_jobs, j), in_progress, finished,
               Raised(j, m_has_fence), m_outstanding_jobs)
  BY <1>0, ArriveBlocked DEF Block, FenceState
<1> QED BY <1>1 DEF Block, FenceState, Raised

\* raise_fence: the fence goes alone, or waits, with a flush sent ahead or in
\* front of it.
LEMMA FenceRaised ==
    ASSUME FenceState, NEW f \in Fences, ~Issued(FenceJob(f)), ~Issued(FlushJob(f)),
           add_fence_job(f)
    PROVE  FenceState'
<1> DEFINE j == FenceJob(f)
           k == FlushJob(f)
<1>0. /\ issued \in Seq(Jobs) /\ m_blocked_jobs \in Seq(Jobs)
      /\ j \notin InSeq(issued) /\ k \notin InSeq(issued)
      /\ j \in Jobs /\ k \in Jobs /\ j \in FenceJobs /\ k \notin FenceJobs /\ k # j
      /\ m_has_fence \in Nat /\ m_outstanding_jobs \in Nat
      /\ m_has_fence' = m_has_fence + 1 /\ finished' = finished
  BY IssuedIsIn, JobKinds, OpenFences DEF FenceState, FenceInv, add_fence_job
<1> HIDE DEF j, k
<1>1. Raised(j, m_has_fence) = m_has_fence + 1 /\ Raised(k, m_has_fence) = m_has_fence
  BY <1>0 DEF Raised
<1>2. j \notin InSeq(Append(issued, k)) /\ Append(issued, k) \in Seq(Jobs)
  BY <1>0, AppendFacts
<1>3. CASE FenceNow(f)
  <2>1. FenceInv(Append(issued, j), m_blocked_jobs, in_progress \cup {j}, finished,
                 m_has_fence + 1, m_outstanding_jobs + 1)
    <3>1. m_has_fence = 0 /\ m_outstanding_jobs = 0
      BY <1>3 DEF FenceNow
    <3>2. FenceInv(Append(issued, j), m_blocked_jobs, in_progress \cup {j}, finished,
                   Raised(j, m_has_fence), m_outstanding_jobs + 1)
      BY <3>1, <1>0, ArriveStarted DEF FenceState
    <3> QED BY <3>2, <1>1
  <2>2. m_outstanding_jobs' = m_outstanding_jobs + 1
    BY <1>3 DEF FenceNow
  <2> QED BY <2>1, <2>2, <1>0, <1>3 DEF FenceNow, FenceState, j
<1>4. CASE FenceAfterFlush(f)
  <2>1. FenceInv(Append(issued, k), m_blocked_jobs, in_progress \cup {k}, finished,
                 m_has_fence, m_outstanding_jobs + 1)
    <3>1. m_has_fence = 0
      BY <1>4 DEF FenceAfterFlush
    <3>2. FenceInv(Append(issued, k), m_blocked_jobs, in_progress \cup {k}, finished,
                   Raised(k, m_has_fence), m_outstanding_jobs + 1)
      BY <3>1, <1>0, ArriveStarted DEF FenceState
    <3> QED BY <3>2, <1>1
  <2>2. FenceInv(Append(Append(issued, k), j), Append(m_blocked_jobs, j),
                 in_progress \cup {k}, finished, m_has_fence + 1, m_outstanding_jobs + 1)
    BY <2>1, <1>0, <1>1, <1>2, ArriveBlocked
  <2>3. issued' = Append(Append(issued, k), j)
    BY <1>0, <1>4, ConcatIsAppend DEF FenceAfterFlush, j, k
  <2> QED BY <2>2, <2>3, <1>0, <1>4 DEF FenceAfterFlush, FenceState, j, k
<1>5. CASE FenceBlocked(f)
  <2>1. FenceInv(Append(issued, k), Append(m_blocked_jobs, k), in_progress, finished,
                 m_has_fence, m_outstanding_jobs)
    BY <1>0, <1>1, <1>5, ArriveBlocked DEF FenceBlocked, FenceState
  <2>2. FenceInv(Append(Append(issued, k), j), Append(Append(m_blocked_jobs, k), j),
                 in_progress, finished, m_has_fence + 1, m_outstanding_jobs)
    BY <2>1, <1>0, <1>1, <1>2, <1>5, ArriveBlocked DEF FenceBlocked
  <2>3. /\ issued' = Append(Append(issued, k), j)
        /\ m_blocked_jobs' = Append(Append(m_blocked_jobs, k), j)
    BY <1>0, <1>5, ConcatIsAppend DEF FenceBlocked, j, k
  <2> QED BY <2>2, <2>3, <1>0, <1>5 DEF FenceBlocked, FenceState
<1> QED BY <1>3, <1>4, <1>5 DEF add_fence_job

Released(t, j) ==
    IF j \in FenceJobs THEN ReleasedByFence(t, m_outstanding_jobs - 1)
    ELSE ReleasedByOther(m_outstanding_jobs - 1)

\* job_complete lets blocked jobs go only when nothing else is on its way, and
\* a fence only alone.
LEMMA ReleaseFacts ==
    ASSUME FenceState, NEW t \in Threads, NEW j \in in_progress,
           InSeq(new[t]) \subseteq in_progress \ {j}, new[t] \in Seq(Jobs)
    PROVE  /\ Released(t, j) \in 0..Len(m_blocked_jobs)
           /\ Released(t, j) = 0 \/ in_progress = {j}
           /\ \/ Released(t, j) = 1
              \/ \A i \in 1..Released(t, j) : m_blocked_jobs[i] \notin FenceJobs
           /\ HeadOfLine(Remaining(Released(t, j)),
                         (in_progress \ {j}) \cup InSeq(SubSeq(m_blocked_jobs, 1, Released(t, j))))
<1> DEFINE blk == m_blocked_jobs
           left == m_outstanding_jobs - 1
<1>0. /\ FenceInv(issued, blk, in_progress, finished, m_has_fence, m_outstanding_jobs)
      /\ blk \in Seq(Jobs) /\ Len(blk) \in Nat /\ HeadOfLine(blk, in_progress)
      /\ blk # <<>> => Len(blk) # 0
  BY LenProperties, EmptySeq DEF FenceState, FenceInv
<1>1. /\ m_outstanding_jobs \in Nat
      /\ IsFiniteSet(in_progress \ {j}) /\ Cardinality(in_progress \ {j}) = left
      /\ left \in Nat
  BY <1>0, FS_RemoveElement, FS_CardinalityType, OpenFences DEF FenceInv, Counts
<1>2. left = 0 <=> in_progress = {j}
  BY <1>1, FS_EmptySet
<1>3. ASSUME NEW n \in 0..Len(blk), n # 0
      PROVE  blk[1] \in InSeq(SubSeq(blk, 1, n))
  <2>1. Len(SubSeq(blk, 1, n)) = n /\ SubSeq(blk, 1, n)[1] = blk[1] /\ 1 \in 1..n
    BY <1>0, <1>3, SplitFacts
  <2> QED BY <2>1 DEF InSeq
<1>4. ASSUME NEW n \in 0..Len(blk)
      PROVE  /\ Len(Remaining(n)) = Len(blk) - n
             /\ n < Len(blk) => Remaining(n)[1] = blk[n + 1]
             /\ n = Len(blk) => Remaining(n) = <<>>
             /\ n = 0 => Remaining(n)[1] = blk[1] \/ blk = <<>>
  <2>1. /\ Remaining(n) \in Seq(Jobs)
        /\ Len(Remaining(n)) = Len(blk) - n
        /\ \A i \in 1..(Len(blk) - n) : Remaining(n)[i] = blk[n + i]
    BY <1>0, SplitFacts DEF Remaining
  <2>2. n = Len(blk) => Remaining(n) = <<>>
    BY <2>1, <1>0, EmptySeq
  <2>3. n < Len(blk) => Remaining(n)[1] = blk[n + 1]
    BY <2>1, <1>0
  <2> QED BY <2>1, <2>2, <2>3, <1>0
<1>5. CASE j \in FenceJobs
  <2>1. in_progress = {j}
    BY <1>0, <1>5, AloneInFence
  <2>2. left = 0 /\ new[t] = <<>>
    <3>1. InSeq(new[t]) = {}
      BY <2>1
    <3>2. new[t] # <<>> => 1 \in 1..Len(new[t])
      BY EmptySeq, LenProperties
    <3> QED BY <3>1, <3>2, <2>1, <1>2 DEF InSeq
  <2>3. /\ Leading \in 0..Len(blk)
        /\ \A i \in 1..Leading : blk[i] \notin FenceJobs
        /\ Leading < Len(blk) => blk[Leading + 1] \in FenceJobs
    BY <1>0, LeadingFacts
  <2>4. Released(t, j) = IF Leading = 0 /\ blk # <<>> THEN 1 ELSE Leading
    BY <1>5, <2>2 DEF Released, ReleasedByFence
  <2>5. CASE Leading = 0 /\ blk # <<>>
    <3>1. Released(t, j) = 1 /\ 1 \in 0..Len(blk) /\ blk[1] \in FenceJobs
      BY <2>3, <2>4, <2>5, <1>0
    <3>2. blk[1] \in InSeq(SubSeq(blk, 1, 1))
      BY <3>1, <1>3
    <3> QED BY <3>1, <3>2, <2>1 DEF HeadOfLine
  <2>6. CASE ~(Leading = 0 /\ blk # <<>>)
    <3>1. Released(t, j) = Leading
      BY <2>4, <2>6
    <3>2. HeadOfLine(Remaining(Leading), (in_progress \ {j}) \cup InSeq(SubSeq(blk, 1, Leading)))
      <4>1. CASE Leading = Len(blk)
        BY <4>1, <2>3, <1>4 DEF HeadOfLine
      <4>2. CASE Leading # Len(blk)
        <5>1. Leading # 0 /\ Leading < Len(blk)
          BY <4>2, <2>3, <2>6, <1>0, EmptySeq
        <5> QED BY <5>1, <2>3, <1>3, <1>4 DEF HeadOfLine
      <4> QED BY <4>1, <4>2
    <3> QED BY <3>1, <3>2, <2>1, <2>3
  <2> QED BY <2>5, <2>6
<1>6. CASE j \notin FenceJobs
  <2>1. Released(t, j) = IF left > 0 \/ m_has_fence = 0 THEN 0 ELSE 1
    BY <1>6 DEF Released, ReleasedByOther
  <2>2. CASE left > 0 \/ m_has_fence = 0
    <3>1. Released(t, j) = 0 /\ 0 \in 0..Len(blk)
      BY <2>1, <2>2, <1>0
    <3>2. m_has_fence = 0 => blk = <<>>
      BY <1>0, OpenFences
    <3>3. HeadOfLine(Remaining(0), (in_progress \ {j}) \cup InSeq(SubSeq(blk, 1, 0)))
      <4>1. CASE blk = <<>>
        <5>1. Len(blk) = 0
          BY <4>1
        <5> QED BY <5>1, <3>1, <1>4 DEF HeadOfLine
      <4>2. CASE blk # <<>>
        <5>1. in_progress # {j} /\ in_progress \ {j} # {}
          BY <4>2, <3>2, <2>2, <1>1, <1>2
        <5>2. blk[1] \in FenceJobs \/ (in_progress \ {j}) \cap FenceJobs # {}
          BY <4>2, <1>0, <1>6 DEF HeadOfLine
        <5>3. Remaining(0)[1] = blk[1]
          BY <4>2, <3>1, <1>4
        <5> QED BY <5>1, <5>2, <5>3 DEF HeadOfLine
      <4> QED BY <4>1, <4>2
    <3> QED BY <3>1, <3>3
  <2>3. CASE ~(left > 0 \/ m_has_fence = 0)
    <3>1. left = 0 /\ in_progress = {j} /\ m_has_fence # 0 /\ Released(t, j) = 1
      BY <2>1, <2>3, <1>1, <1>2
    <3>2. blk # <<>>
      <4>1. \E x \in FenceJobs : x \in InSeq(blk)
        BY <3>1, <1>0, <1>6, OpenFences
      <4> QED BY <4>1 DEF InSeq
    <3>3. blk[1] \in FenceJobs /\ 1 \in 0..Len(blk)
      BY <3>1, <3>2, <1>0, <1>6 DEF HeadOfLine
    <3>4. blk[1] \in InSeq(SubSeq(blk, 1, 1))
      BY <3>3, <1>3
    <3> QED BY <3>1, <3>3, <3>4 DEF HeadOfLine
  <2> QED BY <2>2, <2>3
<1> QED BY <1>5, <1>6

\* job_complete: j is done, the jobs of out move from the blocked ones to the
\* thread that completed j.
LEMMA CompleteStep ==
    ASSUME FenceState, NEW t \in Threads, NEW j \in in_progress,
           InSeq(new[t]) \subseteq in_progress \ {j}, new \in [Threads -> Seq(Jobs)],
           job_complete(t, j)
    PROVE  /\ FenceState'
           /\ \E out \in Seq(Jobs) :
                /\ Distinct(out)
                /\ InSeq(out) \subseteq InSeq(m_blocked_jobs)
                /\ InSeq(m_blocked_jobs') \subseteq InSeq(m_blocked_jobs)
                /\ in_progress' = (in_progress \ {j}) \cup InSeq(out)
                /\ new' = [new EXCEPT ![t] = IF j \in FenceJobs THEN new[t] \o out
                                             ELSE out \o new[t]]
<1> DEFINE n == Released(t, j)
           out == SubSeq(m_blocked_jobs, 1, n)
<1>0. /\ m_blocked_jobs \in Seq(Jobs) /\ issued \in Seq(Jobs) /\ Distinct(issued)
      /\ Len(m_blocked_jobs) \in Nat /\ Len(issued) \in Nat
      /\ FenceInv(issued, m_blocked_jobs, in_progress, finished, m_has_fence,
                  m_outstanding_jobs)
  BY LenProperties DEF FenceState, FenceInv
<1>1. /\ n \in 0..Len(m_blocked_jobs)
      /\ n = 0 \/ in_progress = {j}
      /\ n = 1 \/ \A i \in 1..n : m_blocked_jobs[i] \notin FenceJobs
      /\ HeadOfLine(SubSeq(m_blocked_jobs, n + 1, Len(m_blocked_jobs)),
                    (in_progress \ {j}) \cup InSeq(out))
  BY ReleaseFacts DEF Remaining
<1>2. /\ m_has_fence' = Lower(j)
      /\ m_outstanding_jobs' = (m_outstanding_jobs - 1) + n
      /\ in_progress' = (in_progress \ {j}) \cup {out[i] : i \in 1..n}
      /\ m_blocked_jobs' = SubSeq(m_blocked_jobs, n + 1, Len(m_blocked_jobs))
      /\ new' = [new EXCEPT ![t] = IF j \in FenceJobs THEN new[t] \o out
                                   ELSE out \o new[t]]
      /\ finished' = finished \cup {j}
      /\ issued' = issued
  BY DEF job_complete, Released, Remaining
<1> HIDE DEF n
<1>3. /\ out \in Seq(Jobs) /\ Len(out) = n
      /\ \A i \in 1..n : out[i] = m_blocked_jobs[i]
      /\ m_blocked_jobs' \in Seq(Jobs)
      /\ Len(m_blocked_jobs') = Len(m_blocked_jobs) - n
      /\ \A i \in 1..(Len(m_blocked_jobs) - n) : m_blocked_jobs'[i] = m_blocked_jobs[n + i]
      /\ Distinct(m_blocked_jobs) => Distinct(out)
  BY <1>0, <1>1, <1>2, SplitFacts
<1>4. in_progress' = (in_progress \ {j}) \cup InSeq(out)
  BY <1>2, <1>3 DEF InSeq
<1>5. FenceInv(issued, m_blocked_jobs', in_progress', finished',
               IF j \in FenceJobs THEN m_has_fence - 1 ELSE m_has_fence,
               m_outstanding_jobs')
  <2>1. FenceInv(issued, SubSeq(m_blocked_jobs, n + 1, Len(m_blocked_jobs)),
                 (in_progress \ {j}) \cup InSeq(SubSeq(m_blocked_jobs, 1, n)),
                 finished \cup {j},
                 IF j \in FenceJobs THEN m_has_fence - 1 ELSE m_has_fence,
                 (m_outstanding_jobs - 1) + n)
    BY <1>0, <1>1, CompleteJob
  <2> QED BY <2>1, <1>2, <1>4
<1>6. FenceState'
  BY <1>2, <1>5 DEF FenceState, Lower
<1>7. InSeq(out) \subseteq InSeq(m_blocked_jobs)
  BY <1>0, <1>1, <1>3 DEF InSeq
<1>8. InSeq(m_blocked_jobs') \subseteq InSeq(m_blocked_jobs)
  <2>1. SUFFICES ASSUME NEW i \in 1..Len(m_blocked_jobs')
                 PROVE  m_blocked_jobs'[i] \in InSeq(m_blocked_jobs)
    BY DEF InSeq
  <2>2. n + i \in 1..Len(m_blocked_jobs) /\ m_blocked_jobs'[i] = m_blocked_jobs[n + i]
    BY <1>0, <1>1, <1>3
  <2> QED BY <2>2 DEF InSeq
<1>9. Distinct(m_blocked_jobs)
  <2> DEFINE K == Len(issued) - Len(m_blocked_jobs)
  <2>1. /\ K \in Nat /\ K + Len(m_blocked_jobs) = Len(issued)
        /\ \A i \in 1..Len(m_blocked_jobs) : m_blocked_jobs[i] = issued[K + i]
    BY <1>0 DEF FenceInv, Prefix
  <2>2. SUFFICES ASSUME NEW i \in 1..Len(m_blocked_jobs), NEW k \in 1..Len(m_blocked_jobs),
                        m_blocked_jobs[i] = m_blocked_jobs[k]
                 PROVE  i = k
    BY DEF Distinct
  <2> HIDE DEF K
  <2>3. /\ K + i \in 1..Len(issued) /\ K + k \in 1..Len(issued)
        /\ issued[K + i] = issued[K + k]
    BY <2>1, <2>2, <1>0
  <2>4. K + i = K + k
    BY <2>3, <1>0 DEF Distinct
  <2> QED BY <2>1, <2>4, <1>0
<1> QED BY <1>2, <1>3, <1>4, <1>6, <1>7, <1>8, <1>9
-----------------------------------------------------------------------------
(***************************************************************************)
(* Steps that bring new jobs: where they go, and that they are new.         *)
(***************************************************************************)
\* The same, before and after a step.
LEMMA IssuedStep == \A j : /\ Issued(j) <=> j \in InSeq(issued)
                           /\ Issued(j)' <=> j \in InSeq(issued')
  BY DEF Issued, InSeq

\* Jobs that are nowhere yet are put into the queue and into the cache.
LEMMA PlacesEnter ==
    ASSUME TypeOK, Places, NEW Q, NEW C,
           Q \cap in_progress = {}, C \cap in_progress = {}, Q \cap C = {},
           in_progress' = in_progress \cup Q \cup C,
           InSeq(m_queued_jobs') = InSeq(m_queued_jobs) \cup Q,
           cache' = cache \cup C,
           Distinct(m_queued_jobs'),
           UNCHANGED <<pc, work, new>>
    PROVE  Places'
<1>1. \A t \in Threads : Hands(t)' = Hands(t)
  BY DEF Hands
<1>2. UNION {Hands(t)' : t \in Threads} = UNION {Hands(t) : t \in Threads}
  BY <1>1
<1>3. \A t \in Threads : Hands(t) \subseteq in_progress
  BY DEF Places
<1>4. InSeq(m_queued_jobs) \subseteq in_progress /\ cache \subseteq in_progress
  BY DEF Places
<1>5. in_progress' = InSeq(m_queued_jobs') \cup cache' \cup UNION {Hands(t)' : t \in Threads}
  BY <1>2 DEF Places
<1>6. InSeq(m_queued_jobs') \cap cache' = {}
  BY <1>4 DEF Places
<1>7. \A t \in Threads : Hands(t)' \cap (InSeq(m_queued_jobs') \cup cache') = {}
  BY <1>1, <1>3 DEF Places
<1>8. \A t, u \in Threads : t # u => Hands(t)' \cap Hands(u)' = {}
  BY <1>1 DEF Places
<1>9. \A t \in Threads : work'[t] \cap InSeq(new'[t]) = {} /\ Distinct(new'[t])
  BY DEF Places
<1> QED BY <1>5, <1>6, <1>7, <1>8, <1>9 DEF Places

\* Jobs are issued: X holds no flush without its fence, and no flush of a
\* write that waits for the fence.
LEMMA FreshEnter ==
    ASSUME Fresh, NEW X,
           InSeq(issued') = InSeq(issued) \cup X,
           InSeq(m_blocked_jobs') \subseteq InSeq(m_blocked_jobs) \cup X,
           X \cap InSeq(issued) = {},
           UNCHANGED <<pc, new>>,
           \A t \in Threads : hashed'[t] \subseteq hashed[t] /\ X \cap hashed'[t] = {},
           \A f \in Fences : FlushJob(f) \in X => FenceJob(f) \in X,
           \A w \in Writes : HashedJob(w) \in X =>
               WriteJob(w) \in InSeq(issued') /\ ~Waiting(w)'
    PROVE  Fresh'
<1>1. \A f \in Fences : Issued(FlushJob(f))' => Issued(FenceJob(f))'
  BY IssuedStep DEF Fresh
<1>2. \A w \in Writes : Issued(HashedJob(w))' => Issued(WriteJob(w))'
  BY IssuedStep DEF Fresh
<1>3. \A t \in Threads : \A j \in hashed'[t] :
          \E w \in Writes : j = HashedJob(w) /\ Issued(WriteJob(w))'
  BY IssuedStep DEF Fresh
<1>4. \A t \in Threads : \A j \in hashed'[t] : ~Issued(j)'
  BY IssuedStep DEF Fresh
<1>5. \A t, u \in Threads : t # u => hashed'[t] \cap hashed'[u] = {}
  BY DEF Fresh
<1>6. ASSUME NEW w \in Writes, Waiting(w)'
      PROVE  ~Issued(HashedJob(w))' /\ \A u \in Threads : HashedJob(w) \notin hashed'[u]
  <2>1. Waiting(w) \/ WriteJob(w) \in X
    BY <1>6 DEF Waiting
  <2>2. HashedJob(w) \notin X
    BY <1>6
  <2>3. CASE Waiting(w)
    BY <2>2, <2>3, IssuedStep DEF Fresh
  <2>4. CASE WriteJob(w) \in X
    <3>1. ~Issued(WriteJob(w))
      BY <2>4, IssuedStep
    <3>2. ~Issued(HashedJob(w))
      BY <3>1 DEF Fresh
    <3>3. \A u \in Threads : HashedJob(w) \notin hashed[u]
      <4>1. SUFFICES ASSUME NEW u \in Threads, HashedJob(w) \in hashed[u] PROVE FALSE
        OBVIOUS
      <4>2. PICK v \in Writes : HashedJob(w) = HashedJob(v) /\ Issued(WriteJob(v))
        BY <4>1 DEF Fresh
      <4>3. v = w
        BY <4>2, JobKinds
      <4> QED BY <4>2, <4>3, <3>1
    <3> QED BY <2>2, <3>2, <3>3, IssuedStep
  <2> QED BY <2>1, <2>3, <2>4
<1> QED BY <1>1, <1>2, <1>3, <1>4, <1>5, <1>6 DEF Fresh

\* The fence holds back and lets go issued jobs only.
LEMMA KnownJobs ==
    ASSUME IInv
    PROVE  /\ in_progress \subseteq InSeq(issued)
           /\ InSeq(m_blocked_jobs) \subseteq InSeq(issued) \ in_progress
           /\ \A t \in Threads : Hands(t) \subseteq in_progress
           /\ \A w \in Writes : Waiting(w) => WriteJob(w) \in InSeq(issued)
<1>1. /\ in_progress \subseteq InSeq(issued)
      /\ InSeq(m_blocked_jobs) \subseteq InSeq(issued) \ in_progress
  BY OpenFences DEF IInv, FenceState
<1>2. \A t \in Threads : Hands(t) \subseteq in_progress
  BY DEF IInv, Places
<1>3. ASSUME NEW w \in Writes, Waiting(w) PROVE WriteJob(w) \in InSeq(issued)
  <2>1. CASE WriteJob(w) \in InSeq(m_blocked_jobs)
    BY <2>1, <1>1
  <2>2. ASSUME NEW t \in Threads, pc[t] \in {"complete", "insert"},
               WriteJob(w) \in InSeq(new[t])
        PROVE  WriteJob(w) \in InSeq(issued)
    <3>1. InSeq(new[t]) \subseteq Hands(t)
      BY <2>2 DEF Hands
    <3> QED BY <3>1, <2>2, <1>1, <1>2
  <2> QED BY <1>3, <2>1, <2>2 DEF Waiting
<1> QED BY <1>1, <1>2, <1>3

\* The part of the invariant about the fence gives its variables their types.
LEMMA FenceTypes ==
    ASSUME FenceState'
    PROVE  /\ m_has_fence' \in Nat /\ m_outstanding_jobs' \in Nat
           /\ m_blocked_jobs' \in Seq(Jobs) /\ issued' \in Seq(Jobs)
           /\ in_progress' \in SUBSET Jobs /\ finished' \in SUBSET Jobs
<1>1. FenceInv(issued', m_blocked_jobs', in_progress', finished', m_has_fence',
               m_outstanding_jobs')
  BY DEF FenceState
<1>2. issued' \in Seq(Jobs) /\ m_blocked_jobs' \in Seq(Jobs)
  BY <1>1 DEF FenceInv
<1>3. InSeq(issued') \subseteq Jobs
  BY <1>2, ElementOfSeq DEF InSeq
<1>4. /\ m_has_fence' \in Nat /\ m_outstanding_jobs' \in Nat
      /\ in_progress' \cup InSeq(m_blocked_jobs') = InSeq(issued') \ finished'
      /\ finished' \subseteq InSeq(issued')
  BY <1>1, OpenFences
<1> QED BY <1>2, <1>3, <1>4

\* Only flush_hashed jobs of issued writes are in the hands of a thread.
LEMMA HashedKinds ==
    ASSUME Fresh, NEW t \in Threads
    PROVE  /\ \A w \in Writes : WriteJob(w) \notin hashed[t]
           /\ \A o \in Others : OtherJob(o) \notin hashed[t]
           /\ \A f \in Fences : FlushJob(f) \notin hashed[t] /\ FenceJob(f) \notin hashed[t]
           /\ \A w \in Writes : ~Issued(WriteJob(w)) => HashedJob(w) \notin hashed[t]
<1>1. \A j \in hashed[t] : \E w \in Writes : j = HashedJob(w) /\ Issued(WriteJob(w))
  BY DEF Fresh
<1> QED BY <1>1, JobKinds

\* async_write: the write is blocked, or goes to the cache, with or without a
\* flush for its piece.
LEMMA WriteKeepsIInv ==
    ASSUME IInv, NEW w \in Writes, async_write(w)
    PROVE  IInv'
<1> DEFINE a == WriteJob(w)
           h == HashedJob(w)
<1>0. /\ a \in Jobs /\ h \in Jobs /\ a \notin FenceJobs /\ h \notin FenceJobs /\ a # h
      /\ a \in WriteJobs
      /\ ~Issued(a) /\ ~Issued(h) /\ a \notin InSeq(issued) /\ h \notin InSeq(issued)
      /\ a \notin in_progress /\ h \notin in_progress /\ ~Waiting(w)
      /\ \A t \in Threads : a \notin hashed[t] /\ h \notin hashed[t]
      /\ issued \in Seq(Jobs) /\ m_blocked_jobs \in Seq(Jobs) /\ m_queued_jobs \in Seq(Jobs)
  BY JobKinds, IssuedIsIn, HashedKinds, KnownJobs DEF IInv, Fresh, async_write, TypeOK, WriteJobs
<1>1. \A v \in Writes : HashedJob(v) # a /\ (HashedJob(v) = h => v = w)
  BY JobKinds
<1>2. \A f \in Fences : FlushJob(f) # a /\ FlushJob(f) # h
  BY JobKinds
<1> HIDE DEF a, h
<1>3. TypeOK /\ FenceState /\ Places /\ ThreadState /\ Fresh
  BY DEF IInv
<1>4. pc' = pc /\ work' = work /\ new' = new /\ hashed' = hashed
  BY DEF async_write, threadVars
<1>5. ThreadState'
  BY <1>3, <1>4 DEF ThreadState
<1>6. CASE Block(a) /\ UNCHANGED <<cache, m_queued_jobs>>
  <2>1. /\ FenceState' /\ issued' = Append(issued, a)
        /\ m_blocked_jobs' = Append(m_blocked_jobs, a) /\ in_progress' = in_progress
    BY <1>0, <1>3, <1>6, BlockOne DEF Block
  <2>2. Places'
    <3>1. /\ {} \cap in_progress = {} /\ {} \cap {} = {}
          /\ in_progress' = in_progress \cup {} \cup {}
          /\ InSeq(m_queued_jobs') = InSeq(m_queued_jobs) \cup {}
          /\ cache' = cache \cup {}
          /\ Distinct(m_queued_jobs')
          /\ UNCHANGED <<pc, work, new>>
      BY <2>1, <1>3, <1>4, <1>6 DEF Places
    <3> QED BY <3>1, <1>3, PlacesEnter
  <2>3. /\ InSeq(issued') = InSeq(issued) \cup {a}
        /\ InSeq(m_blocked_jobs') = InSeq(m_blocked_jobs) \cup {a}
    BY <2>1, <1>0, AppendFacts
  <2>4. Fresh'
    <3>1. /\ InSeq(m_blocked_jobs') \subseteq InSeq(m_blocked_jobs) \cup {a}
          /\ {a} \cap InSeq(issued) = {}
          /\ UNCHANGED <<pc, new>>
          /\ \A t \in Threads : hashed'[t] \subseteq hashed[t] /\ {a} \cap hashed'[t] = {}
          /\ \A f \in Fences : FlushJob(f) \in {a} => FenceJob(f) \in {a}
          /\ \A v \in Writes : HashedJob(v) \in {a} =>
                WriteJob(v) \in InSeq(issued') /\ ~Waiting(v)'
      BY <2>3, <1>0, <1>1, <1>2, <1>4
    <3> QED BY <3>1, <2>3, <1>3, FreshEnter
  <2>5. TypeOK'
    BY <2>1, <1>3, <1>4, <1>6, FenceTypes DEF TypeOK
  <2> QED BY <2>1, <2>2, <2>4, <2>5, <1>5 DEF IInv
<1>7. CASE /\ Pass(<<a>>)
           /\ cache' = cache \cup {a}
           /\ UNCHANGED m_queued_jobs
  <2>1. /\ FenceState' /\ issued' = Append(issued, a)
        /\ in_progress' = in_progress \cup {a} /\ m_blocked_jobs' = m_blocked_jobs
    BY <1>0, <1>3, <1>7, PassOne DEF Pass
  <2>2. Places'
    <3>1. /\ {} \cap in_progress = {} /\ {a} \cap in_progress = {} /\ {} \cap {a} = {}
          /\ in_progress' = in_progress \cup {} \cup {a}
          /\ InSeq(m_queued_jobs') = InSeq(m_queued_jobs) \cup {}
          /\ cache' = cache \cup {a}
          /\ Distinct(m_queued_jobs')
          /\ UNCHANGED <<pc, work, new>>
      BY <2>1, <1>0, <1>3, <1>4, <1>7 DEF Places
    <3> QED BY <3>1, <1>3, PlacesEnter
  <2>3. InSeq(issued') = InSeq(issued) \cup {a}
    BY <2>1, <1>0, AppendFacts
  <2>4. Fresh'
    BY <2>1, <2>3, <1>0, <1>1, <1>2, <1>3, <1>4, FreshEnter
  <2>5. TypeOK'
    BY <2>1, <1>0, <1>3, <1>4, <1>7, FenceTypes DEF TypeOK
  <2> QED BY <2>1, <2>2, <2>4, <2>5, <1>5 DEF IInv
<1>8. CASE /\ Pass(<<a, h>>)
           /\ cache' = cache \cup {a}
           /\ m_queued_jobs' = Append(m_queued_jobs, h)
  <2>1. /\ FenceState' /\ issued' = Append(Append(issued, a), h)
        /\ in_progress' = in_progress \cup {a, h} /\ m_blocked_jobs' = m_blocked_jobs
    BY <1>0, <1>3, <1>8, PassTwo DEF Pass
  <2>2. /\ m_queued_jobs' \in Seq(Jobs) /\ Distinct(m_queued_jobs')
        /\ InSeq(m_queued_jobs') = InSeq(m_queued_jobs) \cup {h}
    <3>1. h \notin InSeq(m_queued_jobs)
      BY <1>0, <1>3 DEF Places
    <3> QED BY <3>1, <1>0, <1>3, <1>8, AppendFacts, AppendDistinct DEF Places
  <2>3. Places'
    <3>1. /\ {h} \cap in_progress = {} /\ {a} \cap in_progress = {} /\ {h} \cap {a} = {}
          /\ in_progress' = in_progress \cup {h} \cup {a}
          /\ cache' = cache \cup {a}
          /\ UNCHANGED <<pc, work, new>>
      BY <2>1, <1>0, <1>4, <1>8
    <3> QED BY <3>1, <2>2, <1>3, PlacesEnter
  <2>4. InSeq(issued') = InSeq(issued) \cup {a, h}
    BY <2>1, <1>0, AppendTwo
  <2>5. ~Waiting(w)'
    BY <2>1, <1>0, <1>4 DEF Waiting
  <2>6. Fresh'
    <3>1. \A v \in Writes : HashedJob(v) \in {a, h} =>
             WriteJob(v) \in InSeq(issued') /\ ~Waiting(v)'
      BY <2>4, <2>5, <1>1 DEF a
    <3> QED BY <3>1, <2>1, <2>4, <1>0, <1>2, <1>3, <1>4, FreshEnter
  <2>7. TypeOK'
    BY <2>1, <2>2, <1>0, <1>3, <1>4, <1>8, FenceTypes DEF TypeOK
  <2> QED BY <2>1, <2>3, <2>6, <2>7, <1>5 DEF IInv
<1> QED BY <1>6, <1>7, <1>8 DEF async_write, a, h

\* add_job: another job is blocked or queued.
LEMMA OtherKeepsIInv ==
    ASSUME IInv, NEW o \in Others, add_job(o)
    PROVE  IInv'
<1> DEFINE a == OtherJob(o)
<1>0. /\ a \in Jobs /\ a \notin FenceJobs
      /\ ~Issued(a) /\ a \notin InSeq(issued) /\ a \notin in_progress
      /\ \A t \in Threads : a \notin hashed[t]
      /\ issued \in Seq(Jobs) /\ m_blocked_jobs \in Seq(Jobs) /\ m_queued_jobs \in Seq(Jobs)
      /\ \A v \in Writes : HashedJob(v) # a
      /\ \A f \in Fences : FlushJob(f) # a
  BY JobKinds, IssuedIsIn, HashedKinds, KnownJobs DEF IInv, add_job, TypeOK
<1>1. TypeOK /\ FenceState /\ Places /\ ThreadState /\ Fresh
  BY DEF IInv
<1>2. pc' = pc /\ work' = work /\ new' = new /\ hashed' = hashed /\ cache' = cache
  BY DEF add_job, threadVars
<1>3. ThreadState'
  BY <1>1, <1>2 DEF ThreadState
<1> HIDE DEF a
<1>4. ASSUME InSeq(issued') = InSeq(issued) \cup {a},
             InSeq(m_blocked_jobs') \subseteq InSeq(m_blocked_jobs) \cup {a}
      PROVE  Fresh'
  <2>1. /\ {a} \cap InSeq(issued) = {}
        /\ UNCHANGED <<pc, new>>
        /\ \A t \in Threads : hashed'[t] \subseteq hashed[t] /\ {a} \cap hashed'[t] = {}
        /\ \A f \in Fences : FlushJob(f) \in {a} => FenceJob(f) \in {a}
        /\ \A v \in Writes : HashedJob(v) \in {a} =>
              WriteJob(v) \in InSeq(issued') /\ ~Waiting(v)'
    BY <1>0, <1>2
  <2> QED BY <2>1, <1>1, <1>4, FreshEnter
<1>5. CASE Block(a) /\ UNCHANGED m_queued_jobs
  <2>1. /\ FenceState' /\ issued' = Append(issued, a)
        /\ m_blocked_jobs' = Append(m_blocked_jobs, a) /\ in_progress' = in_progress
    BY <1>0, <1>1, <1>5, BlockOne DEF Block
  <2>2. Places'
    <3>1. /\ {} \cap in_progress = {} /\ {} \cap {} = {}
          /\ in_progress' = in_progress \cup {} \cup {}
          /\ InSeq(m_queued_jobs') = InSeq(m_queued_jobs) \cup {}
          /\ cache' = cache \cup {}
          /\ Distinct(m_queued_jobs')
          /\ UNCHANGED <<pc, work, new>>
      BY <2>1, <1>1, <1>2, <1>5 DEF Places
    <3> QED BY <3>1, <1>1, PlacesEnter
  <2>3. Fresh'
    BY <2>1, <1>0, <1>4, AppendFacts
  <2>4. TypeOK'
    BY <2>1, <1>1, <1>2, <1>5, FenceTypes DEF TypeOK
  <2> QED BY <2>1, <2>2, <2>3, <2>4, <1>3 DEF IInv
<1>6. CASE Pass(<<a>>) /\ m_queued_jobs' = Append(m_queued_jobs, a)
  <2>1. /\ FenceState' /\ issued' = Append(issued, a)
        /\ in_progress' = in_progress \cup {a} /\ m_blocked_jobs' = m_blocked_jobs
    BY <1>0, <1>1, <1>6, PassOne DEF Pass
  <2>2. /\ m_queued_jobs' \in Seq(Jobs) /\ Distinct(m_queued_jobs')
        /\ InSeq(m_queued_jobs') = InSeq(m_queued_jobs) \cup {a}
    <3>1. a \notin InSeq(m_queued_jobs)
      BY <1>0, <1>1 DEF Places
    <3> QED BY <3>1, <1>0, <1>1, <1>6, AppendFacts, AppendDistinct DEF Places
  <2>3. Places'
    <3>1. /\ {a} \cap in_progress = {} /\ {} \cap in_progress = {} /\ {a} \cap {} = {}
          /\ in_progress' = in_progress \cup {a} \cup {}
          /\ cache' = cache \cup {}
          /\ UNCHANGED <<pc, work, new>>
      BY <2>1, <1>0, <1>2
    <3> QED BY <3>1, <2>2, <1>1, PlacesEnter
  <2>4. Fresh'
    BY <2>1, <1>0, <1>4, AppendFacts
  <2>5. TypeOK'
    BY <2>1, <2>2, <1>1, <1>2, FenceTypes DEF TypeOK
  <2> QED BY <2>1, <2>3, <2>4, <2>5, <1>3 DEF IInv
<1> QED BY <1>5, <1>6 DEF add_job, a

\* add_fence_job: the fence is queued, or blocked with a flush ahead of it.
LEMMA FenceKeepsIInv ==
    ASSUME IInv, NEW f \in Fences, add_fence_job(f)
    PROVE  IInv'
<1> DEFINE j == FenceJob(f)
           k == FlushJob(f)
<1>0. /\ j \in Jobs /\ k \in Jobs
      /\ ~Issued(j) /\ ~Issued(k) /\ j \notin InSeq(issued) /\ k \notin InSeq(issued)
      /\ j \notin in_progress /\ k \notin in_progress
      /\ \A t \in Threads : j \notin hashed[t] /\ k \notin hashed[t]
      /\ issued \in Seq(Jobs) /\ m_blocked_jobs \in Seq(Jobs) /\ m_queued_jobs \in Seq(Jobs)
      /\ \A v \in Writes : HashedJob(v) # j /\ HashedJob(v) # k
      /\ \A g \in Fences : FlushJob(g) # j /\ (FlushJob(g) = k => g = f)
  BY JobKinds, IssuedIsIn, HashedKinds, KnownJobs DEF IInv, Fresh, add_fence_job, TypeOK
<1>1. TypeOK /\ FenceState /\ Places /\ ThreadState /\ Fresh
  BY DEF IInv
<1>2. pc' = pc /\ work' = work /\ new' = new /\ hashed' = hashed /\ cache' = cache
  BY DEF add_fence_job, threadVars
<1>3. ThreadState'
  BY <1>1, <1>2 DEF ThreadState
<1>4. FenceState'
  BY <1>0, <1>1, FenceRaised
<1>5. ASSUME NEW Q, Q \cap in_progress = {}, in_progress' = in_progress \cup Q,
             InSeq(m_queued_jobs') = InSeq(m_queued_jobs) \cup Q, Distinct(m_queued_jobs')
      PROVE  Places'
  <2>1. /\ {} \cap in_progress = {} /\ Q \cap {} = {}
        /\ in_progress' = in_progress \cup Q \cup {}
        /\ cache' = cache \cup {}
        /\ UNCHANGED <<pc, work, new>>
    BY <1>2, <1>5
  <2> QED BY <2>1, <1>1, <1>5, PlacesEnter
<1>6. ASSUME NEW X, X = {j} \/ X = {k, j}, InSeq(issued') = InSeq(issued) \cup X,
             InSeq(m_blocked_jobs') \subseteq InSeq(m_blocked_jobs) \cup X
      PROVE  Fresh'
  <2>1. /\ X \cap InSeq(issued) = {}
        /\ UNCHANGED <<pc, new>>
        /\ \A t \in Threads : hashed'[t] \subseteq hashed[t] /\ X \cap hashed'[t] = {}
        /\ \A v \in Writes : HashedJob(v) \in X =>
              WriteJob(v) \in InSeq(issued') /\ ~Waiting(v)'
    BY <1>0, <1>2, <1>6
  <2>2. \A g \in Fences : FlushJob(g) \in X => FenceJob(g) \in X
    BY <1>0, <1>6
  <2> QED BY <2>1, <2>2, <1>1, <1>6, FreshEnter
<1>7. ASSUME m_queued_jobs' \in Seq(Jobs) PROVE TypeOK'
  BY <1>1, <1>2, <1>4, <1>7, FenceTypes DEF TypeOK
<1>8. j \notin InSeq(m_queued_jobs) /\ k \notin InSeq(m_queued_jobs)
      /\ Distinct(m_queued_jobs)
  BY <1>0, <1>1 DEF Places
<1> HIDE DEF j, k
<1>9. CASE FenceNow(f)
  <2>1. /\ in_progress' = in_progress \cup {j} /\ m_queued_jobs' = Append(m_queued_jobs, j)
        /\ issued' = Append(issued, j) /\ m_blocked_jobs' = m_blocked_jobs
    BY <1>9 DEF FenceNow, j
  <2>2. /\ m_queued_jobs' \in Seq(Jobs) /\ Distinct(m_queued_jobs')
        /\ InSeq(m_queued_jobs') = InSeq(m_queued_jobs) \cup {j}
        /\ InSeq(issued') = InSeq(issued) \cup {j}
    BY <2>1, <1>0, <1>8, AppendFacts, AppendDistinct
  <2> QED BY <2>1, <2>2, <1>0, <1>3, <1>4, <1>5, <1>6, <1>7 DEF IInv
<1>10. CASE FenceAfterFlush(f)
  <2>1. /\ in_progress' = in_progress \cup {k} /\ m_queued_jobs' = <<k>> \o m_queued_jobs
        /\ issued' = Append(Append(issued, k), j)
        /\ m_blocked_jobs' = Append(m_blocked_jobs, j)
    BY <1>0, <1>10, ConcatIsAppend DEF FenceAfterFlush, j, k
  <2>2. /\ m_queued_jobs' \in Seq(Jobs) /\ Distinct(m_queued_jobs')
        /\ InSeq(m_queued_jobs') = InSeq(m_queued_jobs) \cup {k}
    <3>1. <<k>> \in Seq(Jobs) /\ InSeq(<<k>>) = {k} /\ Distinct(<<k>>)
      BY <1>0 DEF InSeq, Distinct
    <3>2. InSeq(<<k>>) \cap InSeq(m_queued_jobs) = {}
      BY <3>1, <1>8
    <3>3. /\ <<k>> \o m_queued_jobs \in Seq(Jobs)
          /\ InSeq(<<k>> \o m_queued_jobs) = InSeq(<<k>>) \cup InSeq(m_queued_jobs)
          /\ Distinct(<<k>> \o m_queued_jobs)
      <4> DEFINE r == <<k>>
      <4>1. /\ r \in Seq(Jobs) /\ Distinct(r) /\ InSeq(r) \cap InSeq(m_queued_jobs) = {}
            /\ m_queued_jobs \in Seq(Jobs) /\ Distinct(m_queued_jobs)
        BY <3>1, <3>2, <1>0, <1>8
      <4> HIDE DEF r
      <4>2. /\ r \o m_queued_jobs \in Seq(Jobs)
            /\ InSeq(r \o m_queued_jobs) = InSeq(r) \cup InSeq(m_queued_jobs)
            /\ Distinct(r \o m_queued_jobs)
        BY <4>1, ConcatFacts
      <4> QED BY <4>2 DEF r
    <3> QED BY <3>1, <3>3, <2>1
  <2>3. InSeq(issued') = InSeq(issued) \cup {k, j}
    BY <2>1, <1>0, AppendTwo
  <2>4. InSeq(m_blocked_jobs') \subseteq InSeq(m_blocked_jobs) \cup {k, j}
    BY <2>1, <1>0, AppendFacts
  <2> QED BY <2>1, <2>2, <2>3, <2>4, <1>0, <1>3, <1>4, <1>5, <1>6, <1>7 DEF IInv
<1>11. CASE FenceBlocked(f)
  <2>1. /\ in_progress' = in_progress \cup {} /\ m_queued_jobs' = m_queued_jobs
        /\ issued' = Append(Append(issued, k), j)
        /\ m_blocked_jobs' = Append(Append(m_blocked_jobs, k), j)
    BY <1>0, <1>11, ConcatIsAppend DEF FenceBlocked, j, k
  <2>2. /\ InSeq(issued') = InSeq(issued) \cup {k, j}
        /\ InSeq(m_blocked_jobs') = InSeq(m_blocked_jobs) \cup {k, j}
    BY <2>1, <1>0, AppendTwo
  <2>3. {} \cap in_progress = {} /\ InSeq(m_queued_jobs') = InSeq(m_queued_jobs) \cup {}
    BY <2>1
  <2>4. Places'
    BY <2>1, <2>3, <1>5, <1>8
  <2> QED BY <2>1, <2>2, <2>4, <1>0, <1>3, <1>4, <1>6, <1>7 DEF IInv
<1> QED BY <1>9, <1>10, <1>11 DEF add_fence_job
-----------------------------------------------------------------------------
(***************************************************************************)
(* Steps of a disk thread.                                                  *)
(***************************************************************************)
\* Thread t moves jobs between the queue, the cache and its hands; R leave the
\* system, N come from the blocked jobs.
LEMMA PlacesThread ==
    ASSUME Places, NEW t \in Threads, NEW R, NEW N,
           \A u \in Threads : u # t =>
               pc'[u] = pc[u] /\ work'[u] = work[u] /\ new'[u] = new[u],
           R \subseteq Hands(t), N \cap in_progress = {},
           in_progress' = (in_progress \ R) \cup N,
           InSeq(m_queued_jobs') \cup cache' \cup Hands(t)'
             = ((InSeq(m_queued_jobs) \cup cache \cup Hands(t)) \ R) \cup N,
           InSeq(m_queued_jobs') \cap cache' = {},
           Hands(t)' \cap (InSeq(m_queued_jobs') \cup cache') = {},
           work'[t] \cap InSeq(new'[t]) = {},
           Distinct(m_queued_jobs'), Distinct(new'[t])
    PROVE  Places'
<1>1. \A u \in Threads : u # t => Hands(u)' = Hands(u)
  BY DEF Hands
<1>2. \A u \in Threads : u # t =>
         /\ Hands(u) \subseteq in_progress
         /\ Hands(u) \cap (InSeq(m_queued_jobs) \cup cache \cup Hands(t)) = {}
  BY DEF Places
<1>3. \A u \in Threads : u # t =>
         Hands(u) \cap (InSeq(m_queued_jobs') \cup cache' \cup Hands(t)') = {}
  BY <1>2
<1>4. in_progress' = InSeq(m_queued_jobs') \cup cache' \cup UNION {Hands(u)' : u \in Threads}
  <2>1. ASSUME NEW x \in in_progress'
        PROVE  x \in InSeq(m_queued_jobs') \cup cache' \cup UNION {Hands(u)' : u \in Threads}
    <3>1. CASE x \in InSeq(m_queued_jobs') \cup cache' \cup Hands(t)'
      BY <3>1
    <3>2. CASE x \notin InSeq(m_queued_jobs') \cup cache' \cup Hands(t)'
      <4>1. /\ x \in in_progress /\ x \notin R
            /\ x \notin InSeq(m_queued_jobs) \cup cache \cup Hands(t)
        BY <2>1, <3>2
      <4>2. PICK u \in Threads : x \in Hands(u)
        BY <4>1 DEF Places
      <4>3. x \in Hands(u)'
        BY <4>1, <4>2, <1>1
      <4> QED BY <4>3
    <3> QED BY <3>1, <3>2
  <2>2. InSeq(m_queued_jobs') \cup cache' \cup Hands(t)' \subseteq in_progress'
    <3>1. InSeq(m_queued_jobs) \cup cache \cup Hands(t) \subseteq in_progress
      BY DEF Places
    <3> QED BY <3>1
  <2>3. \A u \in Threads : u # t => Hands(u)' \subseteq in_progress'
    BY <1>1, <1>2
  <2>4. UNION {Hands(u)' : u \in Threads} \subseteq in_progress'
    BY <2>2, <2>3
  <2> QED BY <2>1, <2>2, <2>4
<1>5. \A u \in Threads : Hands(u)' \cap (InSeq(m_queued_jobs') \cup cache') = {}
  BY <1>1, <1>3
<1>6. \A u, v \in Threads : u # v => Hands(u)' \cap Hands(v)' = {}
  <2>1. SUFFICES ASSUME NEW u \in Threads, NEW v \in Threads, u # v
                 PROVE  Hands(u)' \cap Hands(v)' = {}
    OBVIOUS
  <2>2. CASE u = t
    BY <2>1, <2>2, <1>1, <1>3
  <2>3. CASE v = t
    BY <2>1, <2>3, <1>1, <1>3
  <2>4. CASE u # t /\ v # t
    BY <2>1, <2>4, <1>1 DEF Places
  <2> QED BY <2>2, <2>3, <2>4
<1>7. \A u \in Threads : work'[u] \cap InSeq(new'[u]) = {} /\ Distinct(new'[u])
  BY DEF Places
<1> QED BY <1>4, <1>5, <1>6, <1>7 DEF Places

\* A step that issues nothing and lets no further write wait.
LEMMA FreshThread ==
    ASSUME Fresh, issued' = issued, hashed' = hashed,
           \A w \in Writes : Waiting(w)' => Waiting(w)
    PROVE  Fresh'
  BY IssuedStep DEF Fresh

\* thread_fun: the first job of the queue comes into the hands of a thread.
LEMMA TakeKeepsIInv ==
    ASSUME IInv, NEW t \in Threads, TakeJob(t)
    PROVE  IInv'
<1>1. TypeOK /\ FenceState /\ Places /\ ThreadState /\ Fresh
  BY DEF IInv
<1> DEFINE j == Head(m_queued_jobs)
<1>2. /\ m_queued_jobs \in Seq(Jobs) /\ m_queued_jobs # <<>> /\ Distinct(m_queued_jobs)
      /\ pc[t] = "wait" /\ work[t] = {} /\ new[t] = <<>>
  BY <1>1 DEF TypeOK, Places, ThreadState, TakeJob
<1>3. /\ j \in Jobs /\ j \in InSeq(m_queued_jobs)
      /\ Tail(m_queued_jobs) \in Seq(Jobs)
      /\ InSeq(Tail(m_queued_jobs)) = InSeq(m_queued_jobs) \ {j}
      /\ Distinct(Tail(m_queued_jobs))
  BY <1>2, TailFacts
<1> HIDE DEF j
<1>4. /\ m_queued_jobs' = Tail(m_queued_jobs)
      /\ work' = [work EXCEPT ![t] = {j}] /\ pc' = [pc EXCEPT ![t] = "run"]
      /\ cache' = cache /\ new' = new /\ hashed' = hashed
      /\ UNCHANGED <<fenceVars, issued, finished>>
  BY DEF TakeJob, Goto, j
<1>5. /\ work \in [Threads -> SUBSET Jobs] /\ new \in [Threads -> Seq(Jobs)]
      /\ pc \in [Threads -> {"wait", "run", "complete", "insert", "queue", "flush"}]
  BY <1>1 DEF TypeOK
<1>6. FenceState'
  BY <1>1, <1>4 DEF FenceState, fenceVars
<1>7. TypeOK'
  BY <1>1, <1>3, <1>4, <1>5 DEF TypeOK, fenceVars
<1>8. InSeq(<<>>) = {} /\ Distinct(<<>>)
  BY DEF InSeq, Distinct
<1>9. Places'
  <2>1. Hands(t) = {} /\ Hands(t)' = {j} /\ work'[t] = {j} /\ new'[t] = <<>>
    BY <1>2, <1>4, <1>5, <1>8 DEF Hands
  <2>2. \A u \in Threads : u # t =>
               pc'[u] = pc[u] /\ work'[u] = work[u] /\ new'[u] = new[u]
    BY <1>4, <1>5
  <2>3. InSeq(m_queued_jobs) \cap cache = {}
    BY <1>1 DEF Places
  <2>4. /\ {} \subseteq Hands(t) /\ {} \cap in_progress = {}
        /\ in_progress' = (in_progress \ {}) \cup {}
        /\ InSeq(m_queued_jobs') \cup cache' \cup Hands(t)'
             = ((InSeq(m_queued_jobs) \cup cache \cup Hands(t)) \ {}) \cup {}
        /\ InSeq(m_queued_jobs') \cap cache' = {}
        /\ Hands(t)' \cap (InSeq(m_queued_jobs') \cup cache') = {}
        /\ work'[t] \cap InSeq(new'[t]) = {}
        /\ Distinct(m_queued_jobs') /\ Distinct(new'[t])
    BY <2>1, <2>3, <1>3, <1>4, <1>8 DEF fenceVars
  <2> QED BY <2>2, <2>4, <1>1, PlacesThread
<1>10. ThreadState'
  BY <1>1, <1>2, <1>4, <1>5 DEF ThreadState
<1>11. Fresh'
  <2>1. \A w \in Writes : Waiting(w)' => Waiting(w)
    BY <1>4, <1>5 DEF Waiting, fenceVars
  <2> QED BY <2>1, <1>1, <1>4, FreshThread
<1> QED BY <1>6, <1>7, <1>9, <1>10, <1>11 DEF IInv

\* perform_job: the writes it flushes come into the hands of the thread.
LEMMA PerformKeepsIInv ==
    ASSUME IInv, NEW t \in Threads, Perform(t)
    PROVE  IInv'
<1>1. TypeOK /\ FenceState /\ Places /\ ThreadState /\ Fresh
  BY DEF IInv
<1>2. PICK F \in SUBSET cache : /\ cache' = cache \ F
                                /\ work' = [work EXCEPT ![t] = work[t] \cup F]
  BY DEF Perform
<1>3. /\ pc[t] = "run" /\ pc' = [pc EXCEPT ![t] = "complete"]
      /\ m_queued_jobs' = m_queued_jobs /\ new' = new /\ hashed' = hashed
      /\ UNCHANGED <<fenceVars, issued, finished>>
      /\ new[t] = <<>>
  BY <1>1 DEF Perform, Goto, ThreadState
<1>4. /\ work \in [Threads -> SUBSET Jobs] /\ new \in [Threads -> Seq(Jobs)]
      /\ pc \in [Threads -> {"wait", "run", "complete", "insert", "queue", "flush"}]
      /\ cache \subseteq WriteJobs /\ WriteJobs \subseteq Jobs
  BY <1>1 DEF TypeOK, Jobs
<1>5. FenceState'
  BY <1>1, <1>3 DEF FenceState, fenceVars
<1>6. TypeOK'
  BY <1>1, <1>2, <1>3, <1>4 DEF TypeOK, fenceVars
<1>7. InSeq(<<>>) = {} /\ Distinct(<<>>)
  BY DEF InSeq, Distinct
<1>8. Places'
  <2>1. /\ Hands(t) = work[t] /\ Hands(t)' = work[t] \cup F
        /\ work'[t] = work[t] \cup F /\ new'[t] = <<>>
    BY <1>2, <1>3, <1>4, <1>7 DEF Hands
  <2>2. \A u \in Threads : u # t =>
               pc'[u] = pc[u] /\ work'[u] = work[u] /\ new'[u] = new[u]
    BY <1>2, <1>3, <1>4
  <2>3. /\ InSeq(m_queued_jobs) \cap cache = {} /\ Distinct(m_queued_jobs)
        /\ work[t] \cap (InSeq(m_queued_jobs) \cup cache) = {}
    BY <2>1, <1>1 DEF Places
  <2>4. /\ {} \subseteq Hands(t) /\ {} \cap in_progress = {}
        /\ in_progress' = (in_progress \ {}) \cup {}
        /\ InSeq(m_queued_jobs') \cup cache' \cup Hands(t)'
             = ((InSeq(m_queued_jobs) \cup cache \cup Hands(t)) \ {}) \cup {}
        /\ InSeq(m_queued_jobs') \cap cache' = {}
        /\ Hands(t)' \cap (InSeq(m_queued_jobs') \cup cache') = {}
        /\ work'[t] \cap InSeq(new'[t]) = {}
        /\ Distinct(m_queued_jobs') /\ Distinct(new'[t])
    BY <2>1, <2>3, <1>2, <1>3, <1>7 DEF fenceVars
  <2> QED BY <2>2, <2>4, <1>1, PlacesThread
<1>9. ThreadState'
  BY <1>1, <1>2, <1>3, <1>4 DEF ThreadState
<1>10. Fresh'
  <2>1. \A w \in Writes : Waiting(w)' => Waiting(w)
    BY <1>3, <1>4, <1>7 DEF Waiting, fenceVars
  <2> QED BY <2>1, <1>1, <1>3, FreshThread
<1> QED BY <1>5, <1>6, <1>8, <1>9, <1>10 DEF IInv

\* add_completed_jobs: one job completes, the jobs the fence releases come into
\* the hands of the thread.
LEMMA CompleteKeepsIInv ==
    ASSUME IInv, NEW t \in Threads, NEW j \in Jobs, Complete(t, j)
    PROVE  IInv'
<1>1. TypeOK /\ FenceState /\ Places /\ ThreadState /\ Fresh
  BY DEF IInv
<1>2. /\ work \in [Threads -> SUBSET Jobs] /\ new \in [Threads -> Seq(Jobs)]
      /\ pc \in [Threads -> {"wait", "run", "complete", "insert", "queue", "flush"}]
  BY <1>1 DEF TypeOK
<1>3. /\ pc[t] = "complete" /\ j \in work[t] /\ job_complete(t, j)
      /\ work' = [work EXCEPT ![t] = work[t] \ {j}]
      /\ pc' = [pc EXCEPT ![t] = IF work[t] = {j} THEN "insert" ELSE "complete"]
      /\ m_queued_jobs' = m_queued_jobs /\ cache' = cache /\ hashed' = hashed
      /\ issued' = issued
  <2>1. IF work[t] = {j} THEN Goto(t, "insert") ELSE UNCHANGED pc
    BY DEF Complete
  <2>2. pc[t] = "complete"
    BY DEF Complete
  <2>3. pc' = [pc EXCEPT ![t] = IF work[t] = {j} THEN "insert" ELSE "complete"]
    BY <2>1, <2>2, <1>2 DEF Goto
  <2> QED BY <2>3 DEF Complete, job_complete
<1>4. /\ Hands(t) = work[t] \cup InSeq(new[t]) /\ work[t] \cap InSeq(new[t]) = {}
      /\ Hands(t) \subseteq in_progress
      /\ InSeq(m_blocked_jobs) \cap in_progress = {}
  BY <1>1, <1>3, KnownJobs DEF Hands, Places
<1>5. j \in in_progress /\ InSeq(new[t]) \subseteq in_progress \ {j}
  BY <1>3, <1>4
<1>6. /\ FenceState'
      /\ \E out \in Seq(Jobs) :
                /\ Distinct(out)
                /\ InSeq(out) \subseteq InSeq(m_blocked_jobs)
                /\ InSeq(m_blocked_jobs') \subseteq InSeq(m_blocked_jobs)
                /\ in_progress' = (in_progress \ {j}) \cup InSeq(out)
                /\ new' = [new EXCEPT ![t] = IF j \in FenceJobs THEN new[t] \o out
                                             ELSE out \o new[t]]
  BY <1>1, <1>2, <1>3, <1>5, CompleteStep
<1>7. PICK out \in Seq(Jobs) :
                /\ Distinct(out)
                /\ InSeq(out) \subseteq InSeq(m_blocked_jobs)
                /\ InSeq(m_blocked_jobs') \subseteq InSeq(m_blocked_jobs)
                /\ in_progress' = (in_progress \ {j}) \cup InSeq(out)
                /\ new' = [new EXCEPT ![t] = IF j \in FenceJobs THEN new[t] \o out
                                             ELSE out \o new[t]]
  BY <1>6
<1>8. InSeq(out) \cap in_progress = {} /\ InSeq(out) \cap InSeq(new[t]) = {}
  BY <1>4, <1>5, <1>7
<1>9. /\ new'[t] \in Seq(Jobs) /\ Distinct(new'[t])
      /\ InSeq(new'[t]) = InSeq(new[t]) \cup InSeq(out)
  <2>1. new[t] \in Seq(Jobs) /\ Distinct(new[t])
    BY <1>1, <1>2 DEF Places
  <2>2. /\ new[t] \o out \in Seq(Jobs) /\ Distinct(new[t] \o out)
        /\ InSeq(new[t] \o out) = InSeq(new[t]) \cup InSeq(out)
    BY <2>1, <1>7, <1>8, ConcatFacts
  <2>3. /\ out \o new[t] \in Seq(Jobs) /\ Distinct(out \o new[t])
        /\ InSeq(out \o new[t]) = InSeq(out) \cup InSeq(new[t])
    BY <2>1, <1>7, <1>8, ConcatFacts
  <2>4. new'[t] = IF j \in FenceJobs THEN new[t] \o out ELSE out \o new[t]
    BY <1>2, <1>7
  <2> QED BY <2>2, <2>3, <2>4
<1>10. \A u \in Threads : u # t =>
               pc'[u] = pc[u] /\ work'[u] = work[u] /\ new'[u] = new[u]
  BY <1>2, <1>3, <1>7
<1>11. new' \in [Threads -> Seq(Jobs)]
  <2>1. /\ new' = [new EXCEPT ![t] = new'[t]]
    BY <1>2, <1>7
  <2> QED BY <2>1, <1>2, <1>9
<1>12. /\ pc' \in [Threads -> {"wait", "run", "complete", "insert", "queue", "flush"}]
       /\ pc'[t] \in {"complete", "insert"} /\ (pc'[t] = "insert" => work'[t] = {})
       /\ work'[t] = work[t] \ {j} /\ work' \in [Threads -> SUBSET Jobs]
  BY <1>2, <1>3
<1>13. TypeOK'
  BY <1>1, <1>3, <1>6, <1>11, <1>12, FenceTypes DEF TypeOK
<1>14. Places'
  <2>1. Hands(t)' = (work[t] \ {j}) \cup InSeq(new[t]) \cup InSeq(out)
    BY <1>9, <1>12 DEF Hands
  <2>2. /\ InSeq(m_queued_jobs) \cap cache = {} /\ Distinct(m_queued_jobs)
        /\ Hands(t) \cap (InSeq(m_queued_jobs) \cup cache) = {}
        /\ InSeq(m_queued_jobs) \cup cache \subseteq in_progress
    BY <1>1 DEF Places
  <2>3. /\ {j} \subseteq Hands(t) /\ InSeq(out) \cap in_progress = {}
        /\ in_progress' = (in_progress \ {j}) \cup InSeq(out)
    BY <1>3, <1>4, <1>7, <1>8
  <2>4. InSeq(m_queued_jobs') \cup cache' \cup Hands(t)'
          = ((InSeq(m_queued_jobs) \cup cache \cup Hands(t)) \ {j}) \cup InSeq(out)
    BY <2>1, <2>2, <2>3, <1>3, <1>4
  <2>5. /\ InSeq(m_queued_jobs') \cap cache' = {}
        /\ Distinct(m_queued_jobs')
    BY <2>2, <1>3
  <2>6. Hands(t)' \cap (InSeq(m_queued_jobs') \cup cache') = {}
    BY <2>1, <2>2, <1>3, <1>4, <1>8
  <2>7. work'[t] \cap InSeq(new'[t]) = {}
    BY <1>4, <1>8, <1>9, <1>12
  <2> QED BY <2>3, <2>4, <2>5, <2>6, <2>7, <1>1, <1>9, <1>10, PlacesThread
<1>15. ThreadState'
  <2>1. ASSUME NEW u \in Threads
        PROVE  /\ pc'[u] \in {"wait", "insert", "queue", "flush"} => work'[u] = {}
               /\ pc'[u] \in {"wait", "run", "flush"} => new'[u] = <<>>
               /\ pc'[u] \in {"wait", "run", "complete", "insert"} => hashed'[u] = {}
    <3>1. CASE u = t
      BY <3>1, <1>1, <1>3, <1>12 DEF ThreadState
    <3>2. CASE u # t
      BY <3>2, <1>1, <1>3, <1>10 DEF ThreadState
    <3> QED BY <3>1, <3>2
  <2> QED BY <2>1 DEF ThreadState
<1>16. Fresh'
  <2>1. ASSUME NEW w \in Writes, Waiting(w)' PROVE Waiting(w)
    <3>1. CASE WriteJob(w) \in InSeq(m_blocked_jobs')
      BY <3>1, <1>7 DEF Waiting
    <3>2. ASSUME NEW u \in Threads, pc'[u] \in {"complete", "insert"},
                 WriteJob(w) \in InSeq(new'[u])
          PROVE  Waiting(w)
      <4>1. CASE u = t
        BY <4>1, <3>2, <1>3, <1>7, <1>9 DEF Waiting
      <4>2. CASE u # t
        BY <4>2, <3>2, <1>10 DEF Waiting
      <4> QED BY <4>1, <4>2
    <3> QED BY <2>1, <3>1, <3>2 DEF Waiting
  <2> QED BY <2>1, <1>1, <1>3, FreshThread
<1> QED BY <1>6, <1>13, <1>14, <1>15, <1>16 DEF IInv

\* add_completed_jobs: the released writes go into the cache, and some of them
\* will have their pieces flushed.
LEMMA InsertKeepsIInv ==
    ASSUME IInv, NEW t \in Threads, InsertWrites(t)
    PROVE  IInv'
<1>1. TypeOK /\ FenceState /\ Places /\ ThreadState /\ Fresh
  BY DEF IInv
<1>2. /\ hashed \in [Threads -> SUBSET Jobs] /\ new \in [Threads -> Seq(Jobs)]
      /\ pc \in [Threads -> {"wait", "run", "complete", "insert", "queue", "flush"}]
  BY <1>1 DEF TypeOK
<1> DEFINE ws == {w \in Writes : \E i \in 1..Len(new[t]) : new[t][i] = WriteJob(w)}
           W == {WriteJob(w) : w \in ws}
<1>3. /\ pc[t] = "insert" /\ cache' = cache \cup W
      /\ pc' = [pc EXCEPT ![t] = "queue"]
      /\ m_queued_jobs' = m_queued_jobs /\ work' = work /\ new' = new
      /\ UNCHANGED <<fenceVars, issued, finished>>
      /\ work[t] = {}
  BY <1>1 DEF InsertWrites, Goto, ThreadState
<1>4. PICK fs \in SUBSET ws : hashed' = [hashed EXCEPT ![t] = {HashedJob(w) : w \in fs}]
  BY DEF InsertWrites
<1>5. ws = {w \in Writes : WriteJob(w) \in InSeq(new[t])}
  BY DEF InSeq
<1>6. W = InSeq(new[t]) \cap WriteJobs
  BY <1>5 DEF WriteJobs
<1> HIDE DEF ws, W
<1>7. fs \subseteq Writes /\ \A w \in fs : WriteJob(w) \in InSeq(new[t])
  BY <1>4, <1>5
<1>8. Hands(t) = InSeq(new[t]) /\ Hands(t)' = InSeq(new[t]) \ WriteJobs
  BY <1>2, <1>3 DEF Hands
<1>9. \A u \in Threads : u # t =>
         /\ pc'[u] = pc[u] /\ work'[u] = work[u] /\ new'[u] = new[u]
         /\ hashed'[u] = hashed[u]
  BY <1>2, <1>3, <1>4
<1>10. hashed'[t] = {HashedJob(w) : w \in fs} /\ pc'[t] = "queue"
  BY <1>2, <1>3, <1>4
<1>11. FenceState'
  BY <1>1, <1>3 DEF FenceState, fenceVars
<1>12. TypeOK'
  <2>1. cache' \in SUBSET WriteJobs
    BY <1>1, <1>3, <1>6 DEF TypeOK
  <2>2. hashed' \in [Threads -> SUBSET Jobs]
    <3>1. {HashedJob(w) : w \in fs} \in SUBSET Jobs
      BY <1>7, JobKinds
    <3> QED BY <3>1, <1>2, <1>4
  <2>3. pc' \in [Threads -> {"wait", "run", "complete", "insert", "queue", "flush"}]
    BY <1>2, <1>3
  <2> QED BY <2>1, <2>2, <2>3, <1>1, <1>3 DEF TypeOK, fenceVars
<1>13. Places'
  <2>1. /\ InSeq(m_queued_jobs) \cap cache = {} /\ Distinct(m_queued_jobs)
        /\ InSeq(new[t]) \cap (InSeq(m_queued_jobs) \cup cache) = {}
        /\ Distinct(new[t])
    BY <1>1, <1>8 DEF Places
  <2>2. /\ {} \subseteq Hands(t) /\ {} \cap in_progress = {}
        /\ in_progress' = (in_progress \ {}) \cup {}
        /\ InSeq(m_queued_jobs') \cup cache' \cup Hands(t)'
             = ((InSeq(m_queued_jobs) \cup cache \cup Hands(t)) \ {}) \cup {}
        /\ InSeq(m_queued_jobs') \cap cache' = {}
        /\ Hands(t)' \cap (InSeq(m_queued_jobs') \cup cache') = {}
        /\ work'[t] \cap InSeq(new'[t]) = {}
        /\ Distinct(m_queued_jobs') /\ Distinct(new'[t])
    BY <2>1, <1>3, <1>6, <1>8 DEF fenceVars
  <2> QED BY <2>2, <1>1, <1>9, PlacesThread
<1>14. ThreadState'
  BY <1>1, <1>3, <1>9, <1>10 DEF ThreadState
<1>15. Fresh'
  <2>1. \A w \in Writes : Waiting(w)' => Waiting(w)
    BY <1>3, <1>9, <1>10 DEF Waiting, fenceVars
  <2>2. ASSUME NEW w \in fs
        PROVE  /\ Waiting(w) /\ ~Waiting(w)'
               /\ Issued(WriteJob(w)) /\ ~Issued(HashedJob(w))
               /\ \A u \in Threads : HashedJob(w) \notin hashed[u]
    <3>1. w \in Writes /\ WriteJob(w) \in InSeq(new[t])
      BY <1>7
    <3>2. Waiting(w)
      BY <3>1, <1>3 DEF Waiting
    <3>3. WriteJob(w) \in Hands(t) /\ WriteJob(w) \in in_progress
      BY <3>1, <1>8, KnownJobs
    <3>4. WriteJob(w) \notin InSeq(m_blocked_jobs')
      BY <3>3, <1>3, KnownJobs DEF fenceVars
    <3>5. ASSUME NEW u \in Threads, pc'[u] \in {"complete", "insert"},
                 WriteJob(w) \in InSeq(new'[u])
          PROVE  FALSE
      <4>1. u # t
        BY <3>5, <1>10
      <4>2. WriteJob(w) \in Hands(u)
        BY <4>1, <3>5, <1>9 DEF Hands
      <4> QED BY <4>1, <4>2, <3>3, <1>1 DEF Places
    <3>6. ~Waiting(w)'
      BY <3>4, <3>5 DEF Waiting
    <3> QED BY <3>1, <3>2, <3>6, <1>1, KnownJobs, IssuedIsIn DEF Fresh
  <2>3. issued' = issued
    BY <1>3
  <2>4. \A u \in Threads : \A h \in hashed'[u] :
           /\ \E w \in Writes : h = HashedJob(w) /\ Issued(WriteJob(w))'
           /\ ~Issued(h)'
    <3>1. SUFFICES ASSUME NEW u \in Threads, NEW h \in hashed'[u]
                   PROVE  /\ \E w \in Writes : h = HashedJob(w) /\ Issued(WriteJob(w))
                          /\ ~Issued(h)
      BY <2>3, IssuedStep
    <3>2. CASE u = t
      <4>1. PICK w \in fs : h = HashedJob(w)
        BY <3>1, <3>2, <1>10
      <4> QED BY <4>1, <2>2, <1>7
    <3>3. CASE u # t
      BY <3>1, <3>3, <1>1, <1>9 DEF Fresh
    <3> QED BY <3>2, <3>3
  <2>5. \A u, v \in Threads : u # v => hashed'[u] \cap hashed'[v] = {}
    <3>1. SUFFICES ASSUME NEW u \in Threads, NEW v \in Threads, u # v,
                          NEW h \in hashed'[u] \cap hashed'[v]
                   PROVE  FALSE
      OBVIOUS
    <3>2. \A x \in hashed'[t] : \A y \in Threads : x \notin hashed[y]
      BY <2>2, <1>10
    <3>3. CASE u = t \/ v = t
      BY <3>1, <3>2, <3>3, <1>9
    <3>4. CASE u # t /\ v # t
      BY <3>1, <3>4, <1>1, <1>9 DEF Fresh
    <3> QED BY <3>3, <3>4
  <2>6. ASSUME NEW w \in Writes, Waiting(w)'
        PROVE  ~Issued(HashedJob(w))' /\ \A u \in Threads : HashedJob(w) \notin hashed'[u]
    <3>1. ~Issued(HashedJob(w)) /\ \A u \in Threads : HashedJob(w) \notin hashed[u]
      BY <2>1, <2>6, <1>1 DEF Fresh
    <3>2. HashedJob(w) \notin hashed'[t]
      <4>1. SUFFICES ASSUME NEW v \in fs, HashedJob(w) = HashedJob(v) PROVE FALSE
        BY <1>10
      <4>2. v = w
        BY <4>1, <1>7, JobKinds
      <4> QED BY <4>2, <2>2, <2>6
    <3> QED BY <3>1, <3>2, <2>3, <1>9, IssuedStep
  <2>7. /\ \A f \in Fences : Issued(FlushJob(f))' => Issued(FenceJob(f))'
        /\ \A w \in Writes : Issued(HashedJob(w))' => Issued(WriteJob(w))'
    BY <2>3, <1>1, IssuedStep DEF Fresh
  <2> QED BY <2>4, <2>5, <2>6, <2>7 DEF Fresh
<1> QED BY <1>11, <1>12, <1>13, <1>14, <1>15 DEF IInv

\* How a thread counts through the released jobs that are not writes.
OtherPositions(s) == {i \in 1..Len(s) : s[i] \notin WriteJobs}
CountsThrough(s, pos) ==
    /\ pos \in [1..Cardinality(OtherPositions(s)) -> OtherPositions(s)]
    /\ \A i, k \in 1..Cardinality(OtherPositions(s)) : i < k => pos[i] < pos[k]
Selected(s, pos) == [i \in 1..Cardinality(OtherPositions(s)) |-> s[pos[i]]]

\* Selected holds the jobs of s that are not writes, each once.
LEMMA KeptJobs ==
    ASSUME NEW s \in Seq(Jobs), Distinct(s), NEW pos, CountsThrough(s, pos)
    PROVE  /\ Selected(s, pos) \in Seq(Jobs) /\ Distinct(Selected(s, pos))
           /\ InSeq(Selected(s, pos)) = InSeq(s) \ WriteJobs
<1> DEFINE others == OtherPositions(s)
           n == Cardinality(others)
           r == Selected(s, pos)
<1>0. /\ others = {i \in 1..Len(s) : s[i] \notin WriteJobs}
      /\ n = Cardinality(others)
      /\ pos \in [1..n -> others]
      /\ \A i, k \in 1..n : i < k => pos[i] < pos[k]
      /\ r = [i \in 1..n |-> s[pos[i]]]
  BY DEF OtherPositions, CountsThrough, Selected
<1> HIDE DEF others, n, r
<1>1. Len(s) \in Nat /\ IsFiniteSet(1..Len(s)) /\ \A i \in 1..Len(s) : s[i] \in Jobs
  BY LenProperties, ElementOfSeq, FS_Interval
<1>2. IsFiniteSet(others) /\ n \in Nat /\ others \subseteq 1..Len(s)
  BY <1>0, <1>1, FS_Subset, FS_CardinalityType
<1>3. \A i \in 1..n : pos[i] \in others /\ pos[i] \in 1..Len(s)
  BY <1>0, <1>2
<1>4. \A i, k \in 1..n : pos[i] = pos[k] => i = k
  <2>1. SUFFICES ASSUME NEW i \in 1..n, NEW k \in 1..n, pos[i] = pos[k], i < k PROVE FALSE
    BY <1>2
  <2>2. pos[i] < pos[k] /\ pos[i] \in Nat
    BY <2>1, <1>0, <1>1, <1>3
  <2> QED BY <2>1, <2>2
<1>5. \A x \in others : \E i \in 1..n : pos[i] = x
  <2>1. pos \in Injection(1..n, others)
    BY <1>0, <1>4 DEF Injection, IsInjective
  <2>2. Cardinality(1..n) = n
    BY <1>2, FS_Interval
  <2>3. pos \in Surjection(1..n, others)
    BY <2>1, <2>2, <1>0, <1>2, FS_Injection
  <2> QED BY <2>3 DEF Surjection
<1>6. \A i \in 1..n : s[pos[i]] \in Jobs
  BY <1>1, <1>3
<1>7. r \in Seq(Jobs) /\ Len(r) = n /\ \A i \in 1..n : r[i] = s[pos[i]]
  <2>1. r \in [1..n -> Jobs]
    BY <1>0, <1>6
  <2>2. r \in Seq(Jobs) /\ DOMAIN r = 1..n
    BY <2>1, <1>2
  <2>3. Len(r) = n
    BY <2>2, <1>2, LenProperties
  <2> QED BY <2>2, <2>3, <1>0
<1>8. Distinct(r)
  <2>1. SUFFICES ASSUME NEW i \in 1..n, NEW k \in 1..n, s[pos[i]] = s[pos[k]] PROVE i = k
    BY <1>7 DEF Distinct
  <2>2. pos[i] = pos[k]
    BY <2>1, <1>3 DEF Distinct
  <2> QED BY <2>2, <1>4
<1>9. ASSUME NEW x \in InSeq(r) PROVE x \in InSeq(s) \ WriteJobs
  <2>1. PICK i \in 1..n : x = s[pos[i]]
    BY <1>7, <1>9 DEF InSeq
  <2> QED BY <2>1, <1>0, <1>3 DEF InSeq
<1>10. ASSUME NEW x \in InSeq(s) \ WriteJobs PROVE x \in InSeq(r)
  <2>1. PICK m \in 1..Len(s) : x = s[m]
    BY <1>10 DEF InSeq
  <2>2. m \in others
    BY <2>1, <1>0, <1>10
  <2>3. PICK i \in 1..n : pos[i] = m
    BY <2>2, <1>5
  <2> QED BY <2>1, <2>3, <1>7 DEF InSeq
<1> QED BY <1>7, <1>8, <1>9, <1>10 DEF r

\* add_completed_jobs: the other released jobs go to the queue.
LEMMA QueueKeepsIInv ==
    ASSUME IInv, NEW t \in Threads, QueueOthers(t)
    PROVE  IInv'
<1>1. TypeOK /\ FenceState /\ Places /\ ThreadState /\ Fresh
  BY DEF IInv
<1>2. /\ new \in [Threads -> Seq(Jobs)] /\ m_queued_jobs \in Seq(Jobs)
      /\ pc \in [Threads -> {"wait", "run", "complete", "insert", "queue", "flush"}]
  BY <1>1 DEF TypeOK
<1>3. /\ pc[t] = "queue" /\ new' = [new EXCEPT ![t] = <<>>]
      /\ pc' = [pc EXCEPT ![t] = "flush"]
      /\ cache' = cache /\ work' = work /\ hashed' = hashed
      /\ UNCHANGED <<fenceVars, issued, finished>>
      /\ work[t] = {}
  BY <1>1 DEF QueueOthers, Goto, ThreadState
<1>4. PICK r \in Seq(Jobs) : /\ m_queued_jobs' = m_queued_jobs \o r /\ Distinct(r)
                             /\ InSeq(r) = InSeq(new[t]) \ WriteJobs
  <2> DEFINE others == {i \in 1..Len(new[t]) : new[t][i] \notin WriteJobs}
             n == Cardinality(others)
  <2>1. PICK pos \in [1..n -> others] :
           /\ \A i, k \in 1..n : i < k => pos[i] < pos[k]
           /\ m_queued_jobs' = m_queued_jobs \o [i \in 1..n |-> new[t][pos[i]]]
    BY DEF QueueOthers
  <2> DEFINE r == [i \in 1..n |-> new[t][pos[i]]]
  <2>2. new[t] \in Seq(Jobs) /\ Distinct(new[t])
    BY <1>1, <1>2 DEF Places
  <2>3. r \in Seq(Jobs) /\ Distinct(r) /\ InSeq(r) = InSeq(new[t]) \ WriteJobs
    <3>1. CountsThrough(new[t], pos) /\ r = Selected(new[t], pos)
      BY <2>1 DEF CountsThrough, Selected, OtherPositions
    <3> HIDE DEF r
    <3> QED BY <3>1, <2>2, KeptJobs
  <2> QED BY <2>1, <2>3
<1>5. Hands(t) = InSeq(new[t]) \ WriteJobs /\ Hands(t)' = {} /\ new'[t] = <<>>
  BY <1>2, <1>3 DEF Hands, InSeq
<1>6. \A u \in Threads : u # t =>
         pc'[u] = pc[u] /\ work'[u] = work[u] /\ new'[u] = new[u]
  BY <1>2, <1>3
<1>7. /\ InSeq(m_queued_jobs) \cap cache = {} /\ Distinct(m_queued_jobs)
      /\ Hands(t) \cap (InSeq(m_queued_jobs) \cup cache) = {}
  BY <1>1 DEF Places
<1>8. /\ m_queued_jobs' \in Seq(Jobs) /\ Distinct(m_queued_jobs')
      /\ InSeq(m_queued_jobs') = InSeq(m_queued_jobs) \cup Hands(t)
  <2>1. InSeq(m_queued_jobs) \cap InSeq(r) = {}
    BY <1>4, <1>5, <1>7
  <2> QED BY <2>1, <1>2, <1>4, <1>5, <1>7, ConcatFacts
<1>9. FenceState'
  BY <1>1, <1>3 DEF FenceState, fenceVars
<1>10. TypeOK'
  <2>1. /\ new' \in [Threads -> Seq(Jobs)]
        /\ pc' \in [Threads -> {"wait", "run", "complete", "insert", "queue", "flush"}]
    BY <1>2, <1>3
  <2> QED BY <2>1, <1>1, <1>3, <1>8 DEF TypeOK, fenceVars
<1>11. Places'
  <2>1. Distinct(<<>>) /\ InSeq(<<>>) = {}
    BY DEF Distinct, InSeq
  <2>2. /\ {} \subseteq Hands(t) /\ {} \cap in_progress = {}
        /\ in_progress' = (in_progress \ {}) \cup {}
        /\ InSeq(m_queued_jobs') \cup cache' \cup Hands(t)'
             = ((InSeq(m_queued_jobs) \cup cache \cup Hands(t)) \ {}) \cup {}
        /\ InSeq(m_queued_jobs') \cap cache' = {}
        /\ Hands(t)' \cap (InSeq(m_queued_jobs') \cup cache') = {}
        /\ work'[t] \cap InSeq(new'[t]) = {}
        /\ Distinct(m_queued_jobs') /\ Distinct(new'[t])
    BY <2>1, <1>3, <1>5, <1>7, <1>8 DEF fenceVars
  <2> QED BY <2>2, <1>1, <1>6, PlacesThread
<1>12. ThreadState'
  BY <1>1, <1>2, <1>3 DEF ThreadState
<1>13. Fresh'
  <2>1. \A w \in Writes : Waiting(w)' => Waiting(w)
    BY <1>2, <1>3, <1>6 DEF Waiting, fenceVars
  <2> QED BY <2>1, <1>1, <1>3, FreshThread
<1> QED BY <1>9, <1>10, <1>11, <1>12, <1>13 DEF IInv

\* add_completed_jobs: a flush_hashed job comes to the fence like any new job.
LEMMA HashedKeepsIInv ==
    ASSUME IInv, NEW t \in Threads, NEW j \in Jobs, AddHashed(t, j)
    PROVE  IInv'
<1>1. TypeOK /\ FenceState /\ Places /\ ThreadState /\ Fresh
  BY DEF IInv
<1>2. /\ hashed \in [Threads -> SUBSET Jobs] /\ m_queued_jobs \in Seq(Jobs)
      /\ m_blocked_jobs \in Seq(Jobs) /\ issued \in Seq(Jobs)
  BY <1>1 DEF TypeOK
<1>3. /\ pc[t] = "flush" /\ j \in hashed[t]
      /\ hashed' = [hashed EXCEPT ![t] = hashed[t] \ {j}]
      /\ cache' = cache /\ pc' = pc /\ work' = work /\ new' = new
  BY DEF AddHashed
<1>4. PICK w \in Writes : j = HashedJob(w) /\ Issued(WriteJob(w))
  BY <1>1, <1>3 DEF Fresh
<1>5. /\ ~Issued(j) /\ j \notin InSeq(issued) /\ j \notin FenceJobs /\ j \notin in_progress
      /\ j # WriteJob(w) /\ ~Waiting(w)
      /\ \A v \in Writes : HashedJob(v) = j => v = w
      /\ \A f \in Fences : FlushJob(f) # j
  BY <1>1, <1>3, <1>4, JobKinds, IssuedIsIn, KnownJobs DEF Fresh
<1>6. \A u \in Threads : hashed'[u] \subseteq hashed[u] /\ {j} \cap hashed'[u] = {}
  <2>1. \A u \in Threads : u # t => j \notin hashed[u]
    BY <1>1, <1>3 DEF Fresh
  <2> QED BY <2>1, <1>2, <1>3
<1>7. hashed' \in [Threads -> SUBSET Jobs]
  BY <1>2, <1>3
<1>8. ThreadState'
  BY <1>1, <1>2, <1>3 DEF ThreadState
<1>9. ASSUME InSeq(issued') = InSeq(issued) \cup {j},
             InSeq(m_blocked_jobs') \subseteq InSeq(m_blocked_jobs) \cup {j}
      PROVE  Fresh'
  <2>1. ~Waiting(w)'
    BY <1>3, <1>5, <1>9 DEF Waiting
  <2>2. /\ {j} \cap InSeq(issued) = {}
        /\ UNCHANGED <<pc, new>>
        /\ \A f \in Fences : FlushJob(f) \in {j} => FenceJob(f) \in {j}
    BY <1>3, <1>5
  <2>3. \A v \in Writes : HashedJob(v) \in {j} =>
           WriteJob(v) \in InSeq(issued') /\ ~Waiting(v)'
    BY <2>1, <1>4, <1>5, <1>9, IssuedIsIn
  <2> QED BY <2>2, <2>3, <1>1, <1>6, <1>9, FreshEnter
<1>10. CASE Block(j) /\ UNCHANGED m_queued_jobs
  <2>1. /\ FenceState' /\ issued' = Append(issued, j)
        /\ m_blocked_jobs' = Append(m_blocked_jobs, j) /\ in_progress' = in_progress
    BY <1>1, <1>5, <1>10, BlockOne DEF Block
  <2>2. Places'
    <3>1. /\ {} \cap in_progress = {} /\ {} \cap {} = {}
          /\ in_progress' = in_progress \cup {} \cup {}
          /\ InSeq(m_queued_jobs') = InSeq(m_queued_jobs) \cup {}
          /\ cache' = cache \cup {}
          /\ Distinct(m_queued_jobs')
          /\ UNCHANGED <<pc, work, new>>
      BY <2>1, <1>1, <1>3, <1>10 DEF Places
    <3> QED BY <3>1, <1>1, PlacesEnter
  <2>3. Fresh'
    BY <2>1, <1>2, <1>9, AppendFacts
  <2>4. TypeOK'
    BY <2>1, <1>1, <1>3, <1>7, <1>10, FenceTypes DEF TypeOK
  <2> QED BY <2>1, <2>2, <2>3, <2>4, <1>8 DEF IInv
<1>11. CASE Pass(<<j>>) /\ m_queued_jobs' = Append(m_queued_jobs, j)
  <2>1. /\ FenceState' /\ issued' = Append(issued, j)
        /\ in_progress' = in_progress \cup {j} /\ m_blocked_jobs' = m_blocked_jobs
    BY <1>1, <1>5, <1>11, PassOne DEF Pass
  <2>2. /\ m_queued_jobs' \in Seq(Jobs) /\ Distinct(m_queued_jobs')
        /\ InSeq(m_queued_jobs') = InSeq(m_queued_jobs) \cup {j}
    <3>1. j \notin InSeq(m_queued_jobs)
      BY <1>1, <1>5 DEF Places
    <3> QED BY <3>1, <1>1, <1>2, <1>11, AppendFacts, AppendDistinct DEF Places
  <2>3. Places'
    <3>1. /\ {j} \cap in_progress = {} /\ {} \cap in_progress = {} /\ {j} \cap {} = {}
          /\ in_progress' = in_progress \cup {j} \cup {}
          /\ cache' = cache \cup {}
          /\ UNCHANGED <<pc, work, new>>
      BY <2>1, <1>3, <1>5
    <3> QED BY <3>1, <2>2, <1>1, PlacesEnter
  <2>4. Fresh'
    BY <2>1, <1>2, <1>9, AppendFacts
  <2>5. TypeOK'
    BY <2>1, <2>2, <1>1, <1>3, <1>7, FenceTypes DEF TypeOK
  <2> QED BY <2>1, <2>3, <2>4, <2>5, <1>8 DEF IInv
<1> QED BY <1>10, <1>11 DEF AddHashed

\* The thread is done with its job and has nothing in its hands.
LEMMA NextJobKeepsIInv ==
    ASSUME IInv, NEW t \in Threads, NextJob(t)
    PROVE  IInv'
<1>1. TypeOK /\ FenceState /\ Places /\ ThreadState /\ Fresh
  BY DEF IInv
<1>2. /\ pc[t] = "flush" /\ hashed[t] = {} /\ pc' = [pc EXCEPT ![t] = "wait"]
      /\ m_queued_jobs' = m_queued_jobs /\ cache' = cache /\ work' = work
      /\ new' = new /\ hashed' = hashed
      /\ UNCHANGED <<fenceVars, issued, finished>>
  BY DEF NextJob, Goto
<1>3. pc \in [Threads -> {"wait", "run", "complete", "insert", "queue", "flush"}]
  BY <1>1 DEF TypeOK
<1>4. FenceState'
  BY <1>1, <1>2 DEF FenceState, fenceVars
<1>5. TypeOK'
  BY <1>1, <1>2, <1>3 DEF TypeOK, fenceVars
<1>6. Places'
  <2>1. \A u \in Threads : Hands(u)' = Hands(u)
    BY <1>2, <1>3 DEF Hands
  <2> QED BY <2>1, <1>1, <1>2 DEF Places, fenceVars
<1>7. ThreadState'
  BY <1>1, <1>2, <1>3 DEF ThreadState
<1>8. Fresh'
  <2>1. \A w \in Writes : Waiting(w)' => Waiting(w)
    BY <1>2, <1>3 DEF Waiting, fenceVars
  <2> QED BY <2>1, <1>1, <1>2, FreshThread
<1> QED BY <1>4, <1>5, <1>6, <1>7, <1>8 DEF IInv
-----------------------------------------------------------------------------
(***************************************************************************)
(* The theorems.                                                            *)
(***************************************************************************)
\* The fence starts with no job.
LEMMA InitIInv == Init => IInv
<1> SUFFICES ASSUME Init PROVE IInv
  OBVIOUS
<1>0. /\ InSeq(<<>>) = {} /\ Distinct(<<>>) /\ <<>> \in Seq(Jobs) /\ Len(<<>>) = 0
      /\ IsFiniteSet({}) /\ Cardinality({}) = 0
  BY FS_EmptySet DEF InSeq, Distinct
<1>1. TypeOK
  BY <1>0 DEF Init, TypeOK
<1>2. FenceState
  <2>1. Open(<<>>, {}) = {}
    BY <1>0 DEF Open
  <2>2. Counts(<<>>, {}, {}, 0, 0)
    BY <2>1, <1>0 DEF Counts
  <2>3. Prefix(<<>>, <<>>, {}, {})
    BY <1>0 DEF Prefix
  <2>4. Order(<<>>, {}, {}) /\ HeadOfLine(<<>>, {})
    BY <1>0 DEF Order, HeadOfLine
  <2> QED BY <2>2, <2>3, <2>4, <1>0 DEF Init, FenceState, FenceInv
<1>3. Places
  <2>1. \A t \in Threads : Hands(t) = {}
    BY <1>0 DEF Init, Hands
  <2> QED BY <2>1, <1>0 DEF Init, Places
<1>4. ThreadState
  BY DEF Init, ThreadState
<1>5. Fresh
  <2>1. \A j : ~Issued(j)
    BY DEF Init, Issued
  <2> QED BY <2>1, <1>0 DEF Init, Fresh
<1> QED BY <1>1, <1>2, <1>3, <1>4, <1>5 DEF IInv

\* Every step of the network thread and of a disk thread keeps the invariant.
LEMMA NextIInv == IInv /\ [Next]_vars => IInv'
<1> SUFFICES ASSUME IInv, [Next]_vars PROVE IInv'
  OBVIOUS
<1>1. CASE NetworkThread
  BY <1>1, WriteKeepsIInv, OtherKeepsIInv, FenceKeepsIInv DEF NetworkThread
<1>2. ASSUME NEW t \in Threads, DiskThread(t) PROVE IInv'
  BY <1>2, TakeKeepsIInv, PerformKeepsIInv, CompleteKeepsIInv, InsertKeepsIInv,
     QueueKeepsIInv, HashedKeepsIInv, NextJobKeepsIInv DEF DiskThread
<1>3. CASE UNCHANGED vars
  BY <1>3 DEF vars, fenceVars, threadVars, IInv, TypeOK, FenceState, Places, Hands,
              ThreadState, Fresh, Waiting, Issued
<1> QED BY <1>1, <1>2, <1>3 DEF Next

\* IInv is an invariant of the disk job fence and of the paths that use it.
THEOREM FenceInvariant == Spec => []IInv
<1>1. Init => IInv
  BY InitIInv
<1>2. IInv /\ [Next]_vars => IInv'
  BY NextIInv
<1> QED BY <1>1, <1>2, PTL DEF Spec

\* Every variable keeps its type: raise_fence, is_blocked and job_complete never
\* take a counter of the fence below zero.
THEOREM FenceTypeCorrect == Spec => []TypeOK
<1>1. IInv => TypeOK
  BY DEF IInv
<1> QED BY <1>1, FenceInvariant, PTL

\* A fence job is alone on its way, for any number of disk threads and fences.
THEOREM FencesAreExclusive == Spec => []FenceExclusive
<1>1. IInv => FenceExclusive
  BY AloneInFence DEF IInv, FenceState, FenceExclusive
<1> QED BY <1>1, FenceInvariant, PTL

\* m_outstanding_jobs and m_has_fence count the jobs on their way and the fences
\* that are open.
THEOREM FenceCounters == Spec => []CountersAgree
<1>1. IInv => CountersAgree
  <2>1. ASSUME IInv
        PROVE  {j \in FenceJobs : Issued(j) /\ j \notin finished} = Open(issued, finished)
    BY IssuedIsIn DEF Open
  <2> QED BY <2>1 DEF IInv, FenceState, FenceInv, Counts, CountersAgree
<1> QED BY <1>1, FenceInvariant, PTL

\* Every job that was issued and is not complete is in exactly one place.
THEOREM JobsAreKept == Spec => []NoJobLost
<1>1. IInv => NoJobLost
  <2>1. ASSUME IInv
        PROVE  /\ in_progress \cup InSeq(m_blocked_jobs) = InSeq(issued) \ finished
               /\ in_progress \cap InSeq(m_blocked_jobs) = {}
    BY <2>1, OpenFences DEF IInv, FenceState
  <2> QED BY <2>1 DEF IInv, Places, NoJobLost
<1> QED BY <1>1, FenceInvariant, PTL

\* A fence is a barrier in the order of issue.
THEOREM FencesAreBarriers == Spec => []FenceOrder
<1>1. IInv => FenceOrder
  BY DEF IInv, FenceState, FenceInv, Order, FenceOrder, Started
<1> QED BY <1>1, FenceInvariant, PTL
=============================================================================
