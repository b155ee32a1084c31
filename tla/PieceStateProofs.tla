--------------------------- MODULE PieceStateProofs ---------------------------
(***************************************************************************)
(* What PieceFlow keeps of each piece: its hash check, its blocks, the      *)
(* peers that owe them, and what is on disk.                                *)
(***************************************************************************)
EXTENDS PieceFlowProofs

-----------------------------------------------------------------------------
(***************************************************************************)
(* How the queue of jobs changes in a step.                                 *)
(***************************************************************************)
\* Jobs that differ in nothing but their result.
SameJob(a, b) ==
    /\ a.kind = b.kind /\ a.piece = b.piece
    /\ b.kind = "write" => a.block = b.block /\ a.data = b.data

\* Where job k was before job i left the queue; none did if i is 0.
Was(i, k) == IF i = 0 \/ k < i THEN k ELSE k + 1
Left(js, i) == IF i = 0 THEN Len(js) ELSE Len(js) - 1

\* new is js without job i, and more jobs behind.
From(js, new, i) ==
    /\ Left(js, i) <= Len(new)
    /\ \A k \in 1..Left(js, i) : SameJob(new[k], js[Was(i, k)])

\* Was is one to one and keeps the order.
LEMMA WasOrder ==
    ASSUME NEW S, NEW js \in Seq(S), NEW i \in 0..Len(js)
    PROVE  /\ Left(js, i) \in Nat
           /\ \A k \in 1..Left(js, i) : Was(i, k) \in 1..Len(js) /\ Was(i, k) # i
           /\ \A k, l \in 1..Left(js, i) : k < l <=> Was(i, k) < Was(i, l)
           /\ \A k, l \in 1..Left(js, i) : k # l => Was(i, k) # Was(i, l)
           /\ \A m \in 1..Len(js) : m # i => \E k \in 1..Left(js, i) : Was(i, k) = m
<1>1. Len(js) \in Nat /\ i \in Nat /\ i <= Len(js)
  OBVIOUS
<1>2. Left(js, i) \in Nat
  BY <1>1 DEF Left
<1>3. \A k \in 1..Left(js, i) : Was(i, k) \in 1..Len(js) /\ Was(i, k) # i
  BY <1>1 DEF Left, Was
<1>4. \A k, l \in 1..Left(js, i) : k < l <=> Was(i, k) < Was(i, l)
  BY <1>1, <1>2 DEF Left, Was
<1>5. \A k, l \in 1..Left(js, i) : k # l => Was(i, k) # Was(i, l)
  BY <1>1, <1>2 DEF Left, Was
<1>6. ASSUME NEW m \in 1..Len(js), m # i PROVE \E k \in 1..Left(js, i) : Was(i, k) = m
  <2>1. CASE i = 0 \/ m < i
    <3>1. m \in 1..Left(js, i) /\ Was(i, m) = m
      BY <1>1, <2>1 DEF Left, Was
    <3> QED BY <3>1
  <2>2. CASE i # 0 /\ i < m
    <3>1. m - 1 \in 1..Left(js, i) /\ Was(i, m - 1) = m
      BY <1>1, <2>2 DEF Left, Was
    <3> QED BY <3>1
  <2> QED BY <1>1, <1>6, <2>1, <2>2
<1> QED BY <1>2, <1>3, <1>4, <1>5, <1>6

\* The handler of job i: the others move up, new ones come behind.
LEMMA HandledFrom ==
    ASSUME JobsOk, NEW i \in 1..Len(jobs), NEW new \in Seq(AllJobs), Handled(i, new)
    PROVE  /\ Len(jobs') = Len(jobs) - 1 + Len(new)
           /\ Left(jobs, i) = Len(jobs) - 1
           /\ \A k \in 1..(Len(jobs) - 1) : jobs'[k] = jobs[Was(i, k)]
           /\ \A k \in 1..Len(new) : jobs'[Len(jobs) - 1 + k] = new[k]
           /\ From(jobs, jobs', i)
<1> DEFINE r == RemoveAt(jobs, i)
           n == Len(jobs) - 1
<1>1. jobs \in Seq(AllJobs) /\ Len(jobs) \in Nat /\ i \in Nat /\ i >= 1 /\ n \in Nat
  BY DEF JobsOk
<1>2. /\ r \in Seq(AllJobs) /\ Len(r) = n
      /\ \A k \in 1..n : r[k] = jobs[IF k < i THEN k ELSE k + 1]
  BY <1>1, Removed
<1>3. jobs' = r \o new
  BY DEF Handled
<1> HIDE DEF r
<1>4. /\ Len(r \o new) = n + Len(new) /\ Len(new) \in Nat
      /\ \A k \in 1..n : (r \o new)[k] = r[k]
      /\ \A k \in 1..Len(new) : (r \o new)[n + k] = new[k]
  <2>1. r \in Seq(AllJobs) /\ new \in Seq(AllJobs) /\ Len(r) = n
    BY <1>2
  <2>2. Len(r \o new) = Len(r) + Len(new) /\ Len(new) \in Nat /\ Len(r) \in Nat
    BY <2>1
  <2>3. \A k \in 1..Len(r) : (r \o new)[k] = r[k]
    BY <2>1
  <2>4. ASSUME NEW k \in 1..Len(new) PROVE (r \o new)[n + k] = new[k]
    <3>1. (r \o new)[n + k] = new[n + k - Len(r)] /\ n + k - Len(r) = k
      BY <1>1, <2>1, <2>2
    <3> QED BY <3>1
  <2> QED BY <2>1, <2>2, <2>3, <2>4
<1>5. Left(jobs, i) = n
  BY <1>1 DEF Left
<1>6. ASSUME NEW k \in 1..n PROVE jobs'[k] = jobs[Was(i, k)]
  <2>1. Was(i, k) = IF k < i THEN k ELSE k + 1
    BY <1>1 DEF Was
  <2> QED BY <1>2, <1>3, <1>4, <2>1
<1>7. From(jobs, jobs', i)
  BY <1>1, <1>3, <1>4, <1>5, <1>6 DEF From, SameJob
<1> QED BY <1>3, <1>4, <1>5, <1>6, <1>7

\* The disk threads change nothing but results.
LEMMA PerformedFrom ==
    ASSUME JobsOk, NEW i \in 1..Len(jobs), perform_job(i)
    PROVE  /\ Len(jobs') = Len(jobs)
           /\ \A k \in 1..Len(jobs) : /\ SameJob(jobs'[k], jobs[k])
                                      /\ jobs'[k] # jobs[k] => Pending(k)
           /\ From(jobs, jobs', 0)
<1>1. jobs \in Seq(AllJobs) /\ Len(jobs) \in Nat
  BY DEF JobsOk
<1>2. \A k \in 1..Len(jobs) : jobs[k] \in AllJobs
  BY <1>1
<1>3. ASSUME NEW r \in Rets, Return(i, r)
      PROVE  /\ Len(jobs') = Len(jobs)
             /\ \A k \in 1..Len(jobs) : jobs'[k] = IF k = i THEN [jobs[i] EXCEPT !.ret = r] ELSE jobs[k]
  BY <1>1, <1>3 DEF Return
<1>4. ASSUME NEW r \in Rets, NEW k \in 1..Len(jobs)
      PROVE  SameJob([jobs[k] EXCEPT !.ret = r], jobs[k])
  BY <1>2, JobReturns DEF SameJob
<1>5. Pending(i)
  BY DEF perform_job, MayRun
<1>6. /\ Len(jobs') = Len(jobs)
      /\ \A k \in 1..Len(jobs) : SameJob(jobs'[k], jobs[k]) /\ (jobs'[k] # jobs[k] => Pending(k))
  <2>1. CASE \E r \in {"ok", "mismatch", "error"} : Return(i, r)
    <3>1. PICK r \in Rets : Return(i, r)
      BY <2>1 DEF Rets
    <3>2. /\ Len(jobs') = Len(jobs)
          /\ \A k \in 1..Len(jobs) : jobs'[k] = IF k = i THEN [jobs[i] EXCEPT !.ret = r] ELSE jobs[k]
      BY <1>3, <3>1
    <3>3. ASSUME NEW k \in 1..Len(jobs)
          PROVE  SameJob(jobs'[k], jobs[k]) /\ (jobs'[k] # jobs[k] => Pending(k))
      <4>1. CASE k = i
        BY <1>4, <1>5, <3>2, <4>1
      <4>2. CASE k # i
        BY <3>2, <4>2 DEF SameJob
      <4> QED BY <4>1, <4>2
    <3> QED BY <3>2, <3>3
  <2>2. CASE FailWrites(i)
    <3> DEFINE fails == {k \in 1..Len(jobs) :
                           /\ jobs[k].kind = "write" /\ jobs[k].piece = jobs[i].piece
                           /\ MayRun(k)}
    <3>1. jobs' = [k \in 1..Len(jobs) |->
                    IF k \in fails THEN [jobs[k] EXCEPT !.ret = "error"] ELSE jobs[k]]
      BY <2>2 DEF FailWrites
    <3>2. \A k \in fails : Pending(k)
      BY DEF MayRun
    <3> HIDE DEF fails
    <3>3. Len(jobs') = Len(jobs)
      BY <1>1, <3>1
    <3>4. ASSUME NEW k \in 1..Len(jobs)
          PROVE  SameJob(jobs'[k], jobs[k]) /\ (jobs'[k] # jobs[k] => Pending(k))
      <4>1. CASE k \in fails
        <5>1. "error" \in Rets /\ jobs'[k] = [jobs[k] EXCEPT !.ret = "error"]
          BY <3>1, <4>1 DEF Rets
        <5> QED BY <1>4, <3>2, <4>1, <5>1
      <4>2. CASE k \notin fails
        BY <3>1, <4>2 DEF SameJob
      <4> QED BY <4>1, <4>2
    <3> QED BY <3>3, <3>4
  <2> QED BY <2>1, <2>2 DEF perform_job, DoWrite, do_hash, do_clear_piece
<1>7. From(jobs, jobs', 0)
  BY <1>1, <1>6 DEF From, Left, Was
<1> QED BY <1>6, <1>7

\* The jobs a block brings that has come.
LEMMA ReceivedFrom ==
    ASSUME JobsOk, NEW b \in Blocks, NEW data \in Data, NEW pk,
           jobs' = Append(jobs, WriteJob(b, data)) \o VerifyIfComplete(b[1], pk)
    PROVE  LET complete == is_piece_finished(pk, b[1]) /\ ~is_piece_finished(picker, b[1])
           IN  /\ Len(jobs') = Len(jobs) + 1 + One(complete)
               /\ \A k \in 1..Len(jobs) : jobs'[k] = jobs[k]
               /\ jobs'[Len(jobs) + 1] = WriteJob(b, data)
               /\ complete => jobs'[Len(jobs) + 2] = PieceJob("hash", b[1])
               /\ From(jobs, jobs', 0)
<1> DEFINE complete == is_piece_finished(pk, b[1]) /\ ~is_piece_finished(picker, b[1])
           w == WriteJob(b, data)
           h == PieceJob("hash", b[1])
           a == Append(jobs, w)
           v == VerifyIfComplete(b[1], pk)
<1>1. jobs \in Seq(AllJobs) /\ Len(jobs) \in Nat /\ w \in AllJobs /\ h \in AllJobs
  BY BlockParts, NewJobs DEF JobsOk
<1>2. v = IF complete THEN <<h>> ELSE <<>>
  BY DEF VerifyIfComplete
<1>3. jobs' = a \o v
  OBVIOUS
<1> HIDE DEF w, h, v, complete
<1>4. /\ a \in Seq(AllJobs) /\ Len(a) = Len(jobs) + 1 /\ a[Len(jobs) + 1] = w
      /\ \A k \in 1..Len(jobs) : a[k] = jobs[k]
  BY <1>1
<1> HIDE DEF a
<1>5. CASE complete
  <2>1. v = <<h>> /\ v \in Seq(AllJobs) /\ Len(v) = 1 /\ v[1] = h
    BY <1>1, <1>2, <1>5
  <2>2. Len(jobs') = Len(jobs) + 2
    BY <1>1, <1>3, <1>4, <2>1
  <2>3. \A k \in 1..(Len(jobs) + 1) : jobs'[k] = a[k]
    BY <1>1, <1>3, <1>4, <2>1
  <2>4. jobs'[Len(jobs) + 2] = h
    BY <1>1, <1>3, <1>4, <2>1
  <2>5. One(complete) = 1
    BY <1>5 DEF One
  <2>6. \A k \in 1..Len(jobs) : jobs'[k] = jobs[k]
    BY <1>1, <1>4, <2>3
  <2>7. jobs'[Len(jobs) + 1] = w
    BY <1>1, <1>4, <2>3
  <2>8. From(jobs, jobs', 0)
    BY <1>1, <2>2, <2>6 DEF From, Left, Was, SameJob
  <2> QED BY <1>1, <1>5, <2>2, <2>4, <2>5, <2>6, <2>7, <2>8 DEF w, h, complete
<1>6. CASE ~complete
  <2>1. jobs' = a
    BY <1>2, <1>3, <1>4, <1>6
  <2>2. One(complete) = 0
    BY <1>6 DEF One
  <2>3. From(jobs, jobs', 0)
    BY <1>1, <1>4, <2>1 DEF From, Left, Was, SameJob
  <2> QED BY <1>1, <1>4, <1>6, <2>1, <2>2, <2>3 DEF w, complete
<1> QED BY <1>5, <1>6

-----------------------------------------------------------------------------
(***************************************************************************)
(* What an operation of the picker leaves alone.                            *)
(***************************************************************************)
SamePiece(pk, new, p) ==
    /\ new.dl[p] = pk.dl[p]
    /\ p \in new.have <=> p \in pk.have
    /\ p \in new.filtered <=> p \in pk.filtered

\* Every piece but q is as before.
OnlyPiece(pk, new, q) == \A p \in Pieces : p # q => SamePiece(pk, new, p)

\* Operations on one entry.
LEMMA SameButOnly ==
    ASSUME NEW pk, NEW new, NEW q, SameBut(pk, new, q) \/ SameButPassed(pk, new, q)
    PROVE  OnlyPiece(pk, new, q)
  BY DEF SameBut, SameButPassed, OnlyPiece, SamePiece

\* Two operations on the same piece.
LEMMA OnlyTwice ==
    ASSUME NEW pk, NEW mid, NEW new, NEW q, OnlyPiece(pk, mid, q), OnlyPiece(mid, new, q)
    PROVE  OnlyPiece(pk, new, q)
  BY DEF OnlyPiece, SamePiece

\* ShrinkCursors moves the cursors.
LEMMA ShrinkOnly ==
    ASSUME NEW pk, Shape(pk), NEW p
    PROVE  \E c, r : MovedTo(pk, ShrinkCursors(pk, p), c, r)
<1> DEFINE c == Min({q \in (p + 1)..num_pieces : q = num_pieces \/ q \notin Settled(pk)})
           r == Max({q \in 0..p : q = 0 \/ q - 1 \notin Settled(pk)})
<1>1. ShrinkCursors(pk, p) \in {[pk EXCEPT !.cursor = num_pieces, !.reverse_cursor = 0],
                                [pk EXCEPT !.cursor = c], [pk EXCEPT !.reverse_cursor = r], pk}
  BY DEF ShrinkCursors
<1> HIDE DEF c, r
<1>2. /\ MovedTo(pk, [pk EXCEPT !.cursor = num_pieces, !.reverse_cursor = 0], num_pieces, 0)
      /\ MovedTo(pk, [pk EXCEPT !.cursor = c], c, pk.reverse_cursor)
      /\ MovedTo(pk, [pk EXCEPT !.reverse_cursor = r], pk.cursor, r)
      /\ MovedTo(pk, pk, pk.cursor, pk.reverse_cursor)
  BY MoveCursors
<1> QED BY <1>1, <1>2

\* What we_have makes of a picker.
HadPiece(pk, p) ==
    LET new == we_have(pk, p)
    IN  /\ Shape(new)
        /\ new.have = pk.have \cup {p} /\ new.filtered = pk.filtered
        /\ new.dl[p] = NoDownload(p) /\ \A q \in Pieces : q # p => new.dl[q] = pk.dl[q]
        /\ new.num_passed = pk.num_passed - One(pk.dl[p].passed_hash_check) + 1

\* we_have: what becomes of the entry.
LEMMA HaveEffect ==
    ASSUME NEW pk, Shape(pk), NEW p \in Pieces, p \notin pk.have
    PROVE  HadPiece(pk, p) /\ OnlyPiece(pk, we_have(pk, p), p)
<1> DEFINE got == GotPiece(pk, p)
           new == we_have(pk, p)
<1>1. new = ShrinkCursors(got, p)
  BY DEF we_have, GotPiece
<1>2. GotFields(pk, p)
  BY GotPieceFields
<1>3. /\ Shape(got)
      /\ got.have = pk.have \cup {p} /\ got.filtered = pk.filtered
      /\ got.dl[p] = NoDownload(p) /\ \A q \in Pieces : q # p => got.dl[q] = pk.dl[q]
      /\ got.num_passed = pk.num_passed - One(pk.dl[p].passed_hash_check) + 1
  BY <1>2 DEF GotFields
<1> HIDE DEF got, new
<1>4. PICK c, r : MovedTo(got, new, c, r)
  BY <1>1, <1>3, ShrinkOnly
<1>5. /\ Shape(new)
      /\ new.have = got.have /\ new.filtered = got.filtered /\ new.dl = got.dl
      /\ new.num_passed = got.num_passed
  BY <1>4 DEF MovedTo
<1>6. HadPiece(pk, p)
  BY <1>3, <1>5 DEF HadPiece, new
<1>7. OnlyPiece(pk, new, p)
  BY <1>3, <1>5 DEF OnlyPiece, SamePiece
<1> QED BY <1>6, <1>7 DEF new

\* Two entries that differ at most in their flags.
SameBlocks(o, e) ==
    /\ e.queue = o.queue
    /\ e.state = o.state /\ e.num_peers = o.num_peers
    /\ e.requested = o.requested /\ e.writing = o.writing /\ e.finished = o.finished

\* What MarkedPassed and lock_piece make of a picker.
Passed(pk, p) ==
    LET new == MarkedPassed(pk, p)
    IN  /\ Shape(new) /\ SameButPassed(pk, new, p)
        /\ new.num_passed = pk.num_passed + 1
        /\ SameBlocks(pk.dl[p], new.dl[p])
        /\ new.dl[p].passed_hash_check = TRUE
Locked(pk, p) ==
    LET new == lock_piece(pk, p)
    IN  /\ Shape(new) /\ SameButPassed(pk, new, p)
        /\ new.num_passed = pk.num_passed - One(pk.dl[p].passed_hash_check)
        /\ SameBlocks(pk.dl[p], new.dl[p])
        /\ new.dl[p].passed_hash_check = FALSE

\* piece_passed before it looks whether the piece is there.
LEMMA MarkedEffect ==
    ASSUME NEW pk, PickerOk(pk), NEW p \in Pieces
    PROVE  Passed(pk, p)
<1> DEFINE v == TRUE
           n == pk.num_passed + 1
           new == [pk EXCEPT !.dl[p].passed_hash_check = v, !.num_passed = n]
           o == pk.dl[p]
           e == new.dl[p]
<1>1. MarkedPassed(pk, p) = new
  BY DEF MarkedPassed
<1>2. Shape(pk) /\ o \in EntryType(p)
  BY DEF PickerOk, EntryOk
<1> HIDE DEF v, n
<1>3. /\ Shape(new) /\ SameButPassed(pk, new, p) /\ new.num_passed = n
      /\ e = [o EXCEPT !.passed_hash_check = v]
  <2>1. FlagsChanged(pk, p, v, n)
    BY <1>2, ChangeFlags
  <2> QED BY <2>1 DEF FlagsChanged
<1> HIDE DEF new, o, e
<1>4. DOMAIN o = EntryFields
  BY <1>2, EntryDomain
<1>5. SameBlocks(o, e) /\ e.passed_hash_check = v
  BY <1>3, <1>4 DEF SameBlocks, EntryFields
<1> QED BY <1>1, <1>3, <1>5 DEF Passed, v, n, e, o

\* lock_piece.
LEMMA LockEffect ==
    ASSUME NEW pk, PickerOk(pk), NEW p \in Pieces, Downloading(pk, p)
    PROVE  Locked(pk, p)
<1> DEFINE c == ClearPassed(pk, p)
           o == pk.dl[p]
           d == c.dl[p]
           x == [d EXCEPT !.locked = TRUE]
           new == [c EXCEPT !.dl[p] = x]
<1>1. /\ Shape(c) /\ SameButPassed(pk, c, p)
      /\ c.num_passed = pk.num_passed - One(o.passed_hash_check)
      /\ d \in EntryType(p) /\ d.state = o.state /\ d.num_peers = o.num_peers
      /\ d.requested = o.requested /\ d.writing = o.writing /\ d.finished = o.finished
      /\ d.queue = o.queue /\ d.passed_hash_check = FALSE
  <2>1. FlagCleared(pk, p)
    BY ClearedFlag
  <2> QED BY <2>1 DEF FlagCleared
<1>2. lock_piece(pk, p) = new
  BY <1>1 DEF lock_piece, Shape
<1> HIDE DEF c, d, o
<1>3. DOMAIN d = EntryFields
  BY <1>1, EntryDomain
<1>4. SameBlocks(d, x) /\ x.passed_hash_check = d.passed_hash_check
  BY <1>3 DEF SameBlocks, EntryFields
<1> HIDE DEF x
<1>5. Shape(new) /\ SameBut(c, new, p) /\ new.dl[p] = x
  BY <1>1, StoreEntry
<1> HIDE DEF new
<1>6. SameButPassed(pk, new, p) /\ new.num_passed = c.num_passed
  BY <1>1, <1>5 DEF SameBut, SameButPassed
<1>7. SameBlocks(o, new.dl[p]) /\ new.dl[p].passed_hash_check = FALSE
  BY <1>1, <1>4, <1>5 DEF SameBlocks
<1> QED BY <1>1, <1>2, <1>5, <1>6, <1>7 DEF Locked, o

\* What set_piece_priority makes of a picker.
Preferred(pk, new, p) ==
    /\ Shape(new)
    /\ new.have = pk.have /\ new.num_passed = pk.num_passed
    /\ OnlyPiece(pk, new, p)
    /\ LET o == pk.dl[p]
           e == new.dl[p]
       IN  \/ new = pk
           \/ o.queue = "open" /\ e = o
           \/ /\ o.queue # "open"
              /\ e.state = o.state /\ e.num_peers = o.num_peers
              /\ e.requested = o.requested /\ e.writing = o.writing /\ e.finished = o.finished
              /\ e.passed_hash_check = o.passed_hash_check
              /\ e.queue = QueueFor(new, p, e)

\* Nothing but the filtered pieces, their counters and the cursors differs.
OnlyFiltered(pk, new, F) ==
    /\ Shape(new) /\ new.have = pk.have /\ new.num_passed = pk.num_passed
    /\ new.dl = pk.dl /\ new.filtered = F

\* set_piece_priority before the queue of the piece is set.
LEMMA RefilteredEffect ==
    ASSUME NEW pk, Shape(pk), NEW p \in Pieces, NEW filter \in BOOLEAN
    PROVE  OnlyFiltered(pk, Refiltered(pk, p, filter),
                        IF filter THEN pk.filtered \cup {p} ELSE pk.filtered \ {p})
<1> DEFINE counted == IF filter THEN Filter(pk, p) ELSE Unfilter(pk, p)
           new == Refiltered(pk, p, filter)
           Like(a) == OnlyFiltered(pk, a, pk.filtered)
<1>1. ASSUME NEW x
      PROVE  Like([pk EXCEPT !.num_filtered = x]) /\ Like([pk EXCEPT !.num_have_filtered = x])
  <2>1. /\ Prioritized(pk, [pk EXCEPT !.num_filtered = x], pk.filtered, x,
                       pk.num_have_filtered, pk.cursor, pk.reverse_cursor)
        /\ Prioritized(pk, [pk EXCEPT !.num_have_filtered = x], pk.filtered,
                       pk.num_filtered, x, pk.cursor, pk.reverse_cursor)
    BY SetFields
  <2> QED BY <2>1 DEF Prioritized, OnlyFiltered
<1>2. ASSUME NEW a, Like(a)
      PROVE  Like(ShrinkCursors(a, p)) /\ Like(GrowCursors(a, p))
  <2>1. Like(ShrinkCursors(a, p))
    <3>1. PICK c, r : MovedTo(a, ShrinkCursors(a, p), c, r)
      BY <1>2, ShrinkOnly DEF OnlyFiltered
    <3> QED BY <1>2, <3>1 DEF MovedTo, OnlyFiltered
  <2>2. Like(GrowCursors(a, p))
    <3> DEFINE c == IF p < a.cursor THEN p ELSE a.cursor
               r == IF p >= a.reverse_cursor THEN p + 1 ELSE a.reverse_cursor
    <3>1. GrowCursors(a, p) = [a EXCEPT !.cursor = c, !.reverse_cursor = r]
      BY DEF GrowCursors
    <3> HIDE DEF c, r
    <3>2. MovedTo(a, [a EXCEPT !.cursor = c, !.reverse_cursor = r], c, r)
      BY <1>2, MoveCursors DEF OnlyFiltered
    <3> QED BY <1>2, <3>1, <3>2 DEF MovedTo, OnlyFiltered
  <2> QED BY <2>1, <2>2
<1> HIDE DEF Like
<1>3. Like(counted)
  <2>1. Like(Filter(pk, p))
    BY <1>1, <1>2 DEF Filter
  <2>2. Like(Unfilter(pk, p))
    BY <1>1, <1>2 DEF Unfilter
  <2> QED BY <2>1, <2>2
<1> DEFINE F == IF filter THEN pk.filtered \cup {p} ELSE pk.filtered \ {p}
<1>4. new = [counted EXCEPT !.filtered = F]
  BY <1>3 DEF Refiltered, Like, OnlyFiltered
<1> HIDE DEF counted, F, new
<1>5. Prioritized(counted, new, F, counted.num_filtered, counted.num_have_filtered,
                  counted.cursor, counted.reverse_cursor)
  BY <1>3, <1>4, SetFields DEF Like, OnlyFiltered
<1> QED BY <1>3, <1>5 DEF Prioritized, Like, OnlyFiltered, F, new

\* set_piece_priority.
LEMMA PriorityEffect ==
    ASSUME NEW pk, PickerOk(pk), NEW p \in Pieces, NEW filter \in BOOLEAN
    PROVE  Preferred(pk, set_piece_priority(pk, p, filter), p)
<1> DEFINE set == Refiltered(pk, p, filter)
           o == pk.dl[p]
           u == update_piece_state(set, p, set.dl[p])
           stored == [set EXCEPT !.dl[p] = u]
           new == set_piece_priority(pk, p, filter)
<1>1. CASE filter <=> p \in pk.filtered
  <2>1. new = pk
    BY <1>1 DEF set_piece_priority
  <2>2. Shape(pk)
    BY DEF PickerOk
  <2> HIDE DEF new
  <2>3. Preferred(pk, new, p)
    BY <2>1, <2>2 DEF Preferred, OnlyPiece, SamePiece
  <2> QED BY <2>3 DEF new
<1>2. CASE ~(filter <=> p \in pk.filtered)
  <2>1. new = IF ~Downloading(pk, p) THEN set ELSE stored
    BY <1>2 DEF set_piece_priority, Refiltered
  <2>2. /\ Shape(set) /\ set.have = pk.have /\ set.num_passed = pk.num_passed
        /\ set.dl = pk.dl
        /\ set.filtered = IF filter THEN pk.filtered \cup {p} ELSE pk.filtered \ {p}
    <3>1. OnlyFiltered(pk, set, IF filter THEN pk.filtered \cup {p} ELSE pk.filtered \ {p})
      BY RefilteredEffect DEF PickerOk
    <3> QED BY <3>1 DEF OnlyFiltered
  <2> HIDE DEF set
  <2>3. OnlyPiece(pk, set, p)
    BY <2>2 DEF OnlyPiece, SamePiece
  <2>4. CASE ~Downloading(pk, p)
    <3>1. new = set
      BY <2>1, <2>4
    <3> HIDE DEF new
    <3>2. Preferred(pk, new, p)
      BY <2>2, <2>3, <2>4, <3>1 DEF Preferred, Downloading
    <3> QED BY <3>2 DEF new
  <2>5. CASE Downloading(pk, p)
    <3>1. /\ set.dl[p] \in EntryType(p) /\ InUse(set.dl[p]) > 0 /\ set.dl[p] = o
          /\ o.queue # "open"
      BY <2>2, <2>5, OldEntry DEF Downloading
    <3>2. /\ u.state = o.state /\ u.num_peers = o.num_peers
          /\ u.requested = o.requested /\ u.writing = o.writing
          /\ u.finished = o.finished
          /\ u.passed_hash_check = o.passed_hash_check
          /\ u.queue = QueueFor(set, p, o)
      BY <3>1, UpdateState DEF QueueFor
    <3> HIDE DEF u
    <3>3. Shape(stored) /\ SameBut(set, stored, p) /\ stored.dl[p] = u
      BY <2>2, StoreEntry
    <3>4. new = stored
      BY <2>1, <2>5
    <3> HIDE DEF new, stored
    <3>5. QueueFor(set, p, o) = QueueFor(new, p, u)
      BY <3>2, <3>3, <3>4 DEF QueueFor, SameBut, InUse
    <3>6. OnlyPiece(pk, new, p)
      BY <2>3, <3>3, <3>4, SameButOnly, OnlyTwice
    <3>7. new.have = pk.have /\ new.num_passed = pk.num_passed /\ Shape(new)
      BY <2>2, <3>3, <3>4 DEF SameBut
    <3>8. Preferred(pk, new, p)
      BY <3>1, <3>2, <3>3, <3>4, <3>5, <3>6, <3>7 DEF Preferred
    <3> QED BY <3>8 DEF new
  <2> QED BY <2>4, <2>5
<1> QED BY <1>1, <1>2

\* The operations on blocks change one piece.
LEMMA BlockOnly ==
    ASSUME NEW pk, PickerOk(pk), NEW b \in Blocks
    PROVE  /\ StateOf(pk, b) \notin {"writing", "finished"} =>
                OnlyPiece(pk, mark_as_downloading(pk, b), b[1])
           /\ OnlyPiece(pk, mark_as_writing(pk, b), b[1])
           /\ OnlyPiece(pk, abort_download(pk, b), b[1])
           /\ OnlyPiece(pk, mark_as_finished(pk, b), b[1])
           /\ OnlyPiece(pk, write_failed(pk, b), b[1])
<1> DEFINE p == b[1]
<1>1. p \in Pieces /\ Shape(pk) /\ OnlyPiece(pk, pk, p)
  BY BlockParts DEF PickerOk, OnlyPiece, SamePiece
<1>2. ASSUME StateOf(pk, b) \notin {"writing", "finished"}
      PROVE  OnlyPiece(pk, mark_as_downloading(pk, b), p)
  <2>1. AskedFor(pk, b)
    BY <1>2, DownloadingEntry
  <2>2. SameBut(pk, mark_as_downloading(pk, b), p)
    BY <2>1 DEF AskedFor
  <2> QED BY <2>2, SameButOnly
<1>3. OnlyPiece(pk, mark_as_writing(pk, b), p)
  <2>1. CASE (~Downloading(pk, p) /\ p \in pk.have) \/ StateOf(pk, b) \in {"writing", "finished"}
    BY <1>1, <2>1 DEF mark_as_writing
  <2>2. CASE ~((~Downloading(pk, p) /\ p \in pk.have) \/ StateOf(pk, b) \in {"writing", "finished"})
    <3>1. BeingWritten(pk, b)
      BY <2>2, WritingEntry
    <3>2. SameBut(pk, mark_as_writing(pk, b), p)
      BY <3>1 DEF BeingWritten
    <3> QED BY <3>2, SameButOnly
  <2> QED BY <2>1, <2>2
<1>4. OnlyPiece(pk, abort_download(pk, b), p)
  <2>1. CASE ~is_requested(pk, b)
    BY <1>1, <2>1 DEF abort_download
  <2>2. CASE is_requested(pk, b) /\ num_peers(pk, b) > 1
    <3>1. LessAsked(pk, b)
      BY <2>2, SharedAbort
    <3>2. SameBut(pk, abort_download(pk, b), p)
      BY <3>1 DEF LessAsked
    <3> QED BY <3>2, SameButOnly
  <2>3. CASE is_requested(pk, b) /\ ~(num_peers(pk, b) > 1)
    <3>1. GivenFree(pk, b)
      BY <2>3, LastAbort
    <3>2. abort_download(pk, b) = KeepInUse(pk, p, FreedEntry(pk, b)) /\ FreedEntry(pk, b) \in EntryType(p)
      BY <3>1 DEF GivenFree
    <3>3. SameBut(pk, KeepInUse(pk, p, FreedEntry(pk, b)), p)
      BY <1>1, <3>2, KeptEntry
    <3> QED BY <3>2, <3>3, SameButOnly
  <2> QED BY <2>1, <2>2, <2>3
<1>5. OnlyPiece(pk, mark_as_finished(pk, b), p)
  <2>1. CASE (~Downloading(pk, p) /\ p \in pk.have) \/ StateOf(pk, b) = "finished"
    BY <1>1, <2>1 DEF mark_as_finished
  <2>2. CASE ~((~Downloading(pk, p) /\ p \in pk.have) \/ StateOf(pk, b) = "finished")
    <3> DEFINE new == FinishedBlock(pk, b)
    <3>1. Written(pk, b)
      BY <2>2, FinishedEntry
    <3>2. /\ Shape(new) /\ SameBut(pk, new, p)
          /\ mark_as_finished(pk, b) \in {new, we_have(new, p)}
      BY <3>1 DEF Written
    <3> HIDE DEF new
    <3>3. OnlyPiece(pk, new, p)
      BY <3>2, SameButOnly
    <3>4. OnlyPiece(new, we_have(new, p), p)
      <4>1. CASE p \in new.have
        BY <4>1 DEF we_have, OnlyPiece, SamePiece
      <4>2. CASE p \notin new.have
        BY <1>1, <3>2, <4>2, HaveEffect
      <4> QED BY <4>1, <4>2
    <3> QED BY <3>2, <3>3, <3>4, OnlyTwice
  <2> QED BY <2>1, <2>2
<1>6. OnlyPiece(pk, write_failed(pk, b), p)
  <2>1. CASE ~Downloading(pk, p) \/ StateOf(pk, b) = "finished"
    BY <1>1, <2>1 DEF write_failed
  <2>2. CASE ~(~Downloading(pk, p) \/ StateOf(pk, b) = "finished")
    <3> DEFINE c == ClearPassed(pk, p)
               x == FailedEntry(pk, b)
    <3>1. NotWritten(pk, b) /\ FlagCleared(pk, p)
      BY <1>1, <2>2, FailedWrite, ClearedFlag
    <3>2. write_failed(pk, b) = KeepInUse(c, p, x) /\ x \in EntryType(p)
      BY <3>1 DEF NotWritten
    <3>3. Shape(c) /\ SameButPassed(pk, c, p)
      BY <3>1 DEF FlagCleared
    <3> HIDE DEF c, x
    <3>4. SameBut(c, KeepInUse(c, p, x), p)
      BY <1>1, <3>2, <3>3, KeptEntry
    <3> QED BY <3>2, <3>3, <3>4, SameButOnly, OnlyTwice
  <2> QED BY <2>1, <2>2
<1> QED BY <1>2, <1>3, <1>4, <1>5, <1>6

\* So do those on pieces.
LEMMA PieceOnly ==
    ASSUME NEW pk, PickerOk(pk), NEW p \in Pieces
    PROVE  /\ OnlyPiece(pk, piece_passed(pk, p), p)
           /\ OnlyPiece(pk, lock_piece(pk, p), p)
<1>1. OnlyPiece(pk, pk, p)
  BY DEF OnlyPiece, SamePiece
<1>2. OnlyPiece(pk, piece_passed(pk, p), p)
  <2>1. CASE ~Downloading(pk, p) \/ pk.dl[p].locked
    BY <1>1, <2>1 DEF piece_passed
  <2>2. CASE ~(~Downloading(pk, p) \/ pk.dl[p].locked)
    <3> DEFINE new == MarkedPassed(pk, p)
    <3>1. piece_passed(pk, p) \in {new, we_have(new, p)}
      BY <2>2 DEF piece_passed, MarkedPassed
    <3>2. Passed(pk, p)
      BY MarkedEffect
    <3>3. Shape(new) /\ SameButPassed(pk, new, p)
      BY <3>2 DEF Passed
    <3> HIDE DEF new
    <3>4. OnlyPiece(new, we_have(new, p), p)
      <4>1. CASE p \in new.have
        BY <4>1 DEF we_have, OnlyPiece, SamePiece
      <4>2. CASE p \notin new.have
        BY <3>3, <4>2, HaveEffect
      <4> QED BY <4>1, <4>2
    <3> QED BY <3>1, <3>3, <3>4, SameButOnly, OnlyTwice
  <2> QED BY <2>1, <2>2
<1>3. OnlyPiece(pk, lock_piece(pk, p), p)
  <2>1. CASE ~Downloading(pk, p)
    BY <1>1, <2>1 DEF lock_piece
  <2>2. CASE Downloading(pk, p)
    <3>1. Locked(pk, p)
      BY <2>2, LockEffect
    <3>2. SameButPassed(pk, lock_piece(pk, p), p)
      BY <3>1 DEF Locked
    <3> QED BY <3>2, SameButOnly
  <2> QED BY <2>1, <2>2
<1> QED BY <1>2, <1>3

-----------------------------------------------------------------------------
(***************************************************************************)
(* What a step leaves alone.                                                *)
(***************************************************************************)
\* A step concerns piece q; the handler of job i runs, or none if i is 0.
Frame(q, i) ==
    /\ q \in Pieces /\ i \in 0..Len(jobs)
    /\ OnlyPiece(picker, picker', q)
    /\ From(jobs, jobs', i)
    /\ i # 0 => jobs[i].piece = q
    /\ \A k \in 1..Len(jobs') : k > Left(jobs, i) => jobs'[k].piece = q
    /\ late \subseteq late' /\ failed \subseteq failed'

\* No job is issued, none is handled.
LEMMA SameJobs ==
    ASSUME JobsOk, jobs' = jobs
    PROVE  /\ From(jobs, jobs', 0) /\ Left(jobs, 0) = Len(jobs)
           /\ \A k \in 1..Len(jobs') : ~(k > Left(jobs, 0))
<1>1. Len(jobs) \in Nat
  BY DEF JobsOk
<1> QED BY <1>1 DEF From, Left, Was, SameJob

\* Steps of the peers.
LEMMA PeerFrames ==
    ASSUME FlowOk, NEW c \in Peers, NEW b \in Blocks
    PROVE  /\ add_request(c, b) => Frame(b[1], 0)
           /\ incoming_piece(c, b) => Frame(b[1], 0)
           /\ GiveUp(c, b) => Frame(b[1], 0)
           /\ snub_peer(c, b) => Frame(b[1], 0)
<1> DEFINE p == b[1]
<1>1. /\ PickerOk(picker) /\ JobsOk /\ p \in Pieces /\ 0 \in 0..Len(jobs)
      /\ OnlyPiece(picker, picker, p)
  BY BlockParts DEF FlowOk, JobsOk, OnlyPiece, SamePiece
<1>2. ASSUME jobs' = jobs, late' = late, failed' = failed, OnlyPiece(picker, picker', p)
      PROVE  Frame(p, 0)
  BY <1>1, <1>2, SameJobs DEF Frame
<1>3. ASSUME add_request(c, b) PROVE Frame(p, 0)
  <2>1. /\ jobs' = jobs /\ late' = late /\ failed' = failed
        /\ picker' = mark_as_downloading(picker, b)
        /\ StateOf(picker, b) \notin {"writing", "finished"}
    BY <1>3 DEF add_request, history, is_requested
  <2> QED BY <1>1, <1>2, <2>1, BlockOnly
<1>4. ASSUME Redundant(c, b) PROVE Frame(p, 0)
  BY <1>1, <1>2, <1>4 DEF Redundant, history
<1>5. ASSUME NEW data \in Data, Received(c, b, data) PROVE Frame(p, 0)
  <2> DEFINE pk == mark_as_writing(picker, b)
             complete == is_piece_finished(pk, b[1]) /\ ~is_piece_finished(picker, b[1])
  <2>1. /\ jobs' = Append(jobs, WriteJob(b, data)) \o VerifyIfComplete(b[1], pk)
        /\ late' = late /\ failed' = failed /\ picker' = pk
    BY <1>5 DEF Received, history
  <2>2. OnlyPiece(picker, pk, p)
    BY <1>1, BlockOnly
  <2> HIDE DEF pk
  <2>3. /\ Len(jobs') = Len(jobs) + 1 + One(complete)
        /\ jobs'[Len(jobs) + 1] = WriteJob(b, data)
        /\ complete => jobs'[Len(jobs) + 2] = PieceJob("hash", b[1])
        /\ From(jobs, jobs', 0)
    BY <1>1, <2>1, ReceivedFrom
  <2> HIDE DEF complete
  <2>4. \A k \in 1..Len(jobs') : k > Left(jobs, 0) => jobs'[k].piece = p
    <3>1. Len(jobs) \in Nat /\ Left(jobs, 0) = Len(jobs)
      BY <1>1 DEF JobsOk, Left
    <3>2. WriteJob(b, data).piece = p /\ PieceJob("hash", b[1]).piece = p
      BY DEF WriteJob, PieceJob
    <3>3. CASE complete
      <4>1. Len(jobs') = Len(jobs) + 2
        BY <2>3, <3>1, <3>3 DEF One
      <4>2. \A k \in 1..(Len(jobs) + 2) : k > Len(jobs) => k = Len(jobs) + 1 \/ k = Len(jobs) + 2
        BY <3>1
      <4> QED BY <2>3, <3>1, <3>2, <3>3, <4>1, <4>2
    <3>4. CASE ~complete
      <4>1. Len(jobs') = Len(jobs) + 1
        BY <2>3, <3>1, <3>4 DEF One
      <4>2. \A k \in 1..(Len(jobs) + 1) : k > Len(jobs) => k = Len(jobs) + 1
        BY <3>1
      <4> QED BY <2>3, <3>1, <3>2, <4>1, <4>2
    <3> QED BY <3>3, <3>4
  <2> QED BY <1>1, <2>1, <2>2, <2>3, <2>4 DEF Frame
<1>6. ASSUME GiveUp(c, b) PROVE Frame(p, 0)
  <2>1. /\ jobs' = jobs /\ late' = late /\ failed' = failed
        /\ picker' \in {picker, abort_download(picker, b)}
    BY <1>6 DEF GiveUp, history
  <2> QED BY <1>1, <1>2, <2>1, BlockOnly
<1>7. ASSUME snub_peer(c, b) PROVE Frame(p, 0)
  <2>1. /\ jobs' = jobs /\ late' = late /\ failed' = failed
        /\ picker' = abort_download(picker, b)
    BY <1>7 DEF snub_peer, history
  <2> QED BY <1>1, <1>2, <2>1, BlockOnly
<1> QED BY <1>3, <1>4, <1>5, <1>6, <1>7 DEF incoming_piece

\* A change of priority.
LEMMA PriorityFrame ==
    ASSUME FlowOk, NEW w, NEW p \in Pieces, PrioritizePiece(w, p),
           jobs' = jobs, late' = late, failed' = failed
    PROVE  Frame(p, 0) /\ Preferred(picker, picker', p)
<1>1. Preferred(picker, picker', p)
  <2>1. picker' = set_piece_priority(picker, p, p \notin w) /\ (p \notin w) \in BOOLEAN
    BY DEF PrioritizePiece
  <2>2. PickerOk(picker)
    BY DEF FlowOk
  <2> DEFINE f == p \notin w
  <2> HIDE DEF f
  <2>3. Preferred(picker, set_piece_priority(picker, p, f), p)
    BY <2>1, <2>2, PriorityEffect DEF f
  <2> QED BY <2>1, <2>3 DEF f
<1>2. OnlyPiece(picker, picker', p)
  BY <1>1 DEF Preferred
<1>3. JobsOk /\ 0 \in 0..Len(jobs)
  BY DEF FlowOk, JobsOk
<1> QED BY <1>1, <1>2, <1>3, SameJobs DEF Frame

\* The disk threads leave the picker alone.
LEMMA DiskFrame ==
    ASSUME FlowOk, NEW i \in 1..Len(jobs), perform_job(i), NEW p \in Pieces
    PROVE  Frame(p, 0)
<1>1. JobsOk /\ 0 \in 0..Len(jobs) /\ Len(jobs) \in Nat
  BY DEF FlowOk, JobsOk
<1>2. picker' = picker /\ late' = late /\ failed' = failed
  BY DEF perform_job, history
<1>3. Len(jobs') = Len(jobs) /\ From(jobs, jobs', 0)
  BY <1>1, PerformedFrom
<1>4. \A k \in 1..Len(jobs') : ~(k > Left(jobs, 0))
  BY <1>1, <1>3 DEF Left
<1> QED BY <1>1, <1>2, <1>3, <1>4 DEF Frame, OnlyPiece, SamePiece

\* The handlers.
LEMMA HandlerFrame ==
    ASSUME FlowOk, NEW i \in 1..Len(jobs), call_job_handler(i)
    PROVE  Frame(jobs[i].piece, i)
<1> DEFINE p == jobs[i].piece
<1>1. /\ PickerOk(picker) /\ JobsOk /\ p \in Pieces /\ i \in 0..Len(jobs) /\ i # 0
      /\ Len(jobs) \in Nat
      /\ jobs[i].kind = "write" => jobs[i].block \in Blocks /\ jobs[i].block[1] = p
  BY JobAt DEF FlowOk, JobsOk
<1>2. late \subseteq late' /\ failed \subseteq failed'
  <2>1. late \subseteq late'
    BY DEF call_job_handler, NoteOrder
  <2>2. failed \subseteq failed'
    BY DEF call_job_handler, on_disk_write_complete, WriteOk, WriteError, on_piece_verified,
           HashError, HashResult, on_piece_sync, on_piece_fail_sync
  <2> QED BY <2>1, <2>2
<1>3. From(jobs, jobs', i) /\ \A k \in 1..Len(jobs') : k > Left(jobs, i) => jobs'[k].piece = p
  <2>1. PICK new \in {<<>>, <<PieceJob("clear", p)>>, <<PieceJob("clear_failed", p)>>} : Handled(i, new)
    BY DEF call_job_handler, on_disk_write_complete, WriteOk, WriteError, on_piece_verified,
           HashError, HashResult, piece_failed, on_piece_sync, on_piece_fail_sync
  <2>2. /\ PieceJob("clear", p) \in AllJobs /\ PieceJob("clear_failed", p) \in AllJobs
        /\ PieceJob("clear", p).piece = p /\ PieceJob("clear_failed", p).piece = p
    BY <1>1, NewJobs DEF PieceJob
  <2>3. new \in Seq(AllJobs) /\ Len(new) \in Nat /\ \A k \in 1..Len(new) : new[k].piece = p
    <3>1. ASSUME NEW j \in AllJobs, j.piece = p
          PROVE  /\ <<j>> \in Seq(AllJobs) /\ Len(<<j>>) \in Nat
                 /\ \A k \in 1..Len(<<j>>) : <<j>>[k].piece = p
      <4>1. Len(<<j>>) = 1 /\ \A k \in 1..1 : k = 1 /\ <<j>>[1] = j
        OBVIOUS
      <4> QED BY <3>1, <4>1
    <3>2. CASE new = <<>>
      BY <3>2
    <3> QED BY <2>1, <2>2, <3>1, <3>2
  <2>4. /\ Len(jobs') = Len(jobs) - 1 + Len(new)
        /\ Left(jobs, i) = Len(jobs) - 1
        /\ \A k \in 1..Len(new) : jobs'[Len(jobs) - 1 + k] = new[k]
        /\ From(jobs, jobs', i)
    BY <1>1, <2>1, <2>3, HandledFrom
  <2>5. ASSUME NEW k \in 1..Len(jobs'), k > Left(jobs, i) PROVE jobs'[k].piece = p
    <3> DEFINE m == k - (Len(jobs) - 1)
    <3>1. m \in 1..Len(new) /\ Len(jobs) - 1 + m = k
      BY <1>1, <2>3, <2>4, <2>5
    <3> HIDE DEF m
    <3> QED BY <2>3, <2>4, <3>1
  <2> QED BY <2>4, <2>5
<1>4. OnlyPiece(picker, picker', p)
  <2>1. OnlyPiece(picker, picker, p)
    BY DEF OnlyPiece, SamePiece
  <2>2. CASE on_disk_write_complete(i)
    <3>1. picker' \in {mark_as_finished(picker, jobs[i].block), write_failed(picker, jobs[i].block)}
      BY <2>2 DEF on_disk_write_complete, WriteOk, WriteError, Consequence, Drop
    <3>2. jobs[i].block \in Blocks /\ jobs[i].block[1] = p
      BY <1>1, <2>2 DEF on_disk_write_complete
    <3> QED BY <1>1, <3>1, <3>2, BlockOnly
  <2>3. CASE on_piece_verified(i)
    <3>1. picker' \in {picker, piece_passed(picker, p), lock_piece(picker, p)}
      BY <2>3 DEF on_piece_verified, HashError, HashResult, piece_failed, Drop
    <3> QED BY <1>1, <2>1, <3>1, PieceOnly
  <2>4. CASE on_piece_sync(i)
    <3>1. Restarted(p) /\ picker' = RestoreAndRequest(p)
      BY <1>1, <2>4, RestartedEntry DEF on_piece_sync
    <3>2. SameBut(picker, picker', p)
      BY <3>1 DEF Restarted
    <3> QED BY <3>2, SameButOnly
  <2>5. CASE on_piece_fail_sync(i)
    BY <2>1, <2>5 DEF on_piece_fail_sync
  <2> QED BY <2>2, <2>3, <2>4, <2>5 DEF call_job_handler
<1> QED BY <1>1, <1>2, <1>3, <1>4 DEF Frame

-----------------------------------------------------------------------------
(***************************************************************************)
(* The hash check of a piece.  While no disk error meets it, a piece has at *)
(* most one job that checks or clears it, and only while it is complete and *)
(* has not passed; so no piece is counted twice in num_passed.              *)
(***************************************************************************)
Checks(js, p) == {k \in 1..Len(js) : js[k].piece = p /\ js[k].kind \in {"hash", "clear"}}

Complete(pk, p) ==
    Downloading(pk, p) /\ pk.dl[p].finished + pk.dl[p].writing >= blocks_in_piece(p)

Sane(pk, p) ==
    /\ pk.dl[p].passed_hash_check => Complete(pk, p)
    /\ p \in pk.have => pk.dl[p] = NoDownload(p)

Passing(pk, js, p) ==
    /\ \A k, l \in Checks(js, p) : k = l
    /\ Checks(js, p) # {} => Complete(pk, p) /\ ~pk.dl[p].passed_hash_check
    /\ Sane(pk, p)

Checked ==
    /\ \A p \in Pieces : p \notin failed => Passing(picker, jobs, p)
    /\ failed = {} => PassedAgrees(picker)

\* A check that was there before the step.
LEMMA OldCheck ==
    ASSUME JobsOk, NEW i \in 0..Len(jobs), From(jobs, jobs', i), NEW p,
           NEW k \in Checks(jobs', p), ~(k > Left(jobs, i))
    PROVE  k \in 1..Left(jobs, i) /\ Was(i, k) \in Checks(jobs, p) \ {i}
<1>1. /\ Left(jobs, i) \in Nat
      /\ \A l \in 1..Left(jobs, i) : Was(i, l) \in 1..Len(jobs) /\ Was(i, l) # i
  BY WasOrder DEF JobsOk
<1>2. k \in 1..Len(jobs') /\ jobs'[k].piece = p /\ jobs'[k].kind \in {"hash", "clear"}
  BY DEF Checks
<1>3. k \in 1..Left(jobs, i)
  BY <1>1, <1>2
<1>4. SameJob(jobs'[k], jobs[Was(i, k)])
  BY <1>3 DEF From
<1>5. jobs[Was(i, k)].piece = p /\ jobs[Was(i, k)].kind \in {"hash", "clear"}
  BY <1>2, <1>4 DEF SameJob
<1> QED BY <1>1, <1>3, <1>5 DEF Checks

\* The checks of a piece that are left when job i is handled.
LEMMA ChecksFrom ==
    ASSUME JobsOk, NEW i \in 0..Len(jobs), From(jobs, jobs', i), NEW p,
           \A k \in 1..Len(jobs') : k > Left(jobs, i) => k \notin Checks(jobs', p)
    PROVE  /\ \A k \in Checks(jobs', p) : Was(i, k) \in Checks(jobs, p) \ {i}
           /\ Checks(jobs, p) = {} => Checks(jobs', p) = {}
           /\ (\A k, l \in Checks(jobs, p) : k = l) =>
                /\ \A k, l \in Checks(jobs', p) : k = l
                /\ i \in Checks(jobs, p) => Checks(jobs', p) = {}
<1>1. /\ Left(jobs, i) \in Nat
      /\ \A k, l \in 1..Left(jobs, i) : k # l => Was(i, k) # Was(i, l)
  BY WasOrder DEF JobsOk
<1>2. \A k \in Checks(jobs', p) : ~(k > Left(jobs, i))
  BY DEF Checks
<1>3. \A k \in Checks(jobs', p) : k \in 1..Left(jobs, i) /\ Was(i, k) \in Checks(jobs, p) \ {i}
  BY <1>2, OldCheck
<1>4. ASSUME \A k, l \in Checks(jobs, p) : k = l
      PROVE  /\ \A k, l \in Checks(jobs', p) : k = l
             /\ i \in Checks(jobs, p) => Checks(jobs', p) = {}
  <2>1. ASSUME NEW k \in Checks(jobs', p), NEW l \in Checks(jobs', p) PROVE k = l
    <3>1. Was(i, k) = Was(i, l) /\ k \in 1..Left(jobs, i) /\ l \in 1..Left(jobs, i)
      BY <1>3, <1>4
    <3> QED BY <1>1, <3>1
  <2>2. ASSUME i \in Checks(jobs, p), NEW k \in Checks(jobs', p) PROVE FALSE
    BY <1>3, <1>4, <2>2
  <2> QED BY <2>1, <2>2
<1> QED BY <1>3, <1>4

\* A piece the step does not concern.
LEMMA PassingElsewhere ==
    ASSUME JobsOk, NEW q, NEW i, Frame(q, i), NEW p \in Pieces, p # q,
           Passing(picker, jobs, p)
    PROVE  Passing(picker', jobs', p)
<1>1. \A k \in 1..Len(jobs') : k > Left(jobs, i) => k \notin Checks(jobs', p)
  BY DEF Frame, Checks
<1>2. i \in 0..Len(jobs) /\ From(jobs, jobs', i) /\ SamePiece(picker, picker', p)
  BY DEF Frame, OnlyPiece
<1>3. /\ Checks(jobs, p) = {} => Checks(jobs', p) = {}
      /\ \A k, l \in Checks(jobs', p) : k = l
  BY <1>1, <1>2, ChecksFrom DEF Passing
<1>4. Sane(picker', p) /\ (Complete(picker, p) => Complete(picker', p))
      /\ picker'.dl[p] = picker.dl[p]
  BY <1>2 DEF Passing, Sane, Complete, Downloading, SamePiece
<1> QED BY <1>3, <1>4 DEF Passing

\* The pieces that num_passed counts.
PassedPieces(pk) == pk.have \cup Flagged(pk)

\* num_passed counts a piece more, or the same.
PassedStep(pk, new) ==
    \/ PassedPieces(new) = PassedPieces(pk) /\ new.num_passed = pk.num_passed
    \/ \E p \in Pieces : /\ p \notin PassedPieces(pk)
                         /\ PassedPieces(new) = PassedPieces(pk) \cup {p}
                         /\ new.num_passed = pk.num_passed + 1

\* Then it stays right.
LEMMA PassedStepAgrees ==
    ASSUME NEW pk, PickerOk(pk), NEW new, PassedStep(pk, new), PassedAgrees(pk)
    PROVE  PassedAgrees(new)
<1> DEFINE S == PassedPieces(pk)
           T == PassedPieces(new)
<1>1. /\ PassedAgrees(pk) <=> pk.num_passed = Cardinality(S)
      /\ PassedAgrees(new) <=> new.num_passed = Cardinality(T)
  BY DEF PassedAgrees, PassedPieces, Flagged
<1>2. S \subseteq Pieces
  BY DEF PickerOk, PassedPieces, Flagged
<1> HIDE DEF S, T
<1>3. CASE T = S /\ new.num_passed = pk.num_passed
  BY <1>1, <1>3
<1>4. CASE \E p \in Pieces : p \notin S /\ T = S \cup {p} /\ new.num_passed = pk.num_passed + 1
  <2>1. PICK p \in Pieces : p \notin S /\ T = S \cup {p} /\ new.num_passed = pk.num_passed + 1
    BY <1>4
  <2>2. Cardinality(S \cup {p}) = Cardinality(S \ {p}) + 1 /\ S \ {p} = S
    BY <1>2, <2>1, CardSplit
  <2> QED BY <1>1, <2>1, <2>2
<1> QED BY <1>3, <1>4 DEF PassedStep, S, T

\* It is enough to look at the piece the step concerns.
LEMMA CheckedStep ==
    ASSUME FlowOk, Checked, NEW q, NEW i, Frame(q, i),
           q \notin failed' => Passing(picker', jobs', q),
           failed' = {} => PassedStep(picker, picker')
    PROVE  Checked'
<1>1. failed \subseteq failed' /\ JobsOk /\ PickerOk(picker)
  BY DEF Frame, FlowOk
<1>2. ASSUME NEW p \in Pieces, p \notin failed' PROVE Passing(picker', jobs', p)
  <2>1. CASE p = q
    BY <1>2, <2>1
  <2>2. CASE p # q
    BY <1>1, <1>2, <2>2, PassingElsewhere DEF Checked
  <2> QED BY <2>1, <2>2
<1>3. ASSUME failed' = {} PROVE PassedAgrees(picker')
  BY <1>1, <1>3, PassedStepAgrees DEF Checked
<1> QED BY <1>2, <1>3 DEF Checked

\* An operation that neither lets a piece pass nor makes it there.
Quiet(pk, new, p) ==
    /\ OnlyPiece(pk, new, p)
    /\ new.have = pk.have /\ new.num_passed = pk.num_passed
    /\ new.dl[p].passed_hash_check = pk.dl[p].passed_hash_check
    /\ Complete(pk, p) => Complete(new, p)
    /\ p \in new.have => new.dl[p] = NoDownload(p)

\* It keeps the set that num_passed counts.
LEMMA QuietPassed ==
    ASSUME NEW pk, NEW new, NEW p, Quiet(pk, new, p)
    PROVE  PassedStep(pk, new)
<1>1. \A q \in Pieces : new.dl[q].passed_hash_check = pk.dl[q].passed_hash_check
  BY DEF Quiet, OnlyPiece, SamePiece
<1>2. Flagged(new) = Flagged(pk)
  BY <1>1 DEF Flagged
<1> QED BY <1>2 DEF PassedStep, PassedPieces, Quiet

\* A quiet step that brings no check.
LEMMA QuietStep ==
    ASSUME FlowOk, Checked, NEW q, NEW i, Frame(q, i),
           \A k \in 1..Len(jobs') : k > Left(jobs, i) => k \notin Checks(jobs', q),
           q \notin failed' => Quiet(picker, picker', q)
    PROVE  Checked'
<1>1. /\ failed \subseteq failed' /\ JobsOk /\ q \in Pieces /\ i \in 0..Len(jobs)
      /\ From(jobs, jobs', i)
  BY DEF Frame, FlowOk
<1>2. ASSUME q \notin failed' PROVE Passing(picker', jobs', q)
  <2>1. Passing(picker, jobs, q) /\ Quiet(picker, picker', q)
    BY <1>1, <1>2 DEF Checked
  <2>2. /\ Checks(jobs, q) = {} => Checks(jobs', q) = {}
        /\ \A k, l \in Checks(jobs', q) : k = l
    BY <1>1, <2>1, ChecksFrom DEF Passing
  <2> QED BY <2>1, <2>2 DEF Passing, Sane, Quiet
<1>3. ASSUME failed' = {} PROVE PassedStep(picker, picker')
  BY <1>3, QuietPassed
<1> QED BY <1>2, <1>3, CheckedStep

\* An entry that is in use after the step, and of which no block is less done.
LEMMA QuietEntry ==
    ASSUME NEW pk, NEW new, NEW p \in Pieces, SameBut(pk, new, p), p \notin pk.have,
           pk.dl[p] \in EntryType(p), new.dl[p] \in EntryType(p),
           new.dl[p].queue # "open",
           new.dl[p].passed_hash_check = pk.dl[p].passed_hash_check,
           new.dl[p].finished + new.dl[p].writing >= pk.dl[p].finished + pk.dl[p].writing
    PROVE  Quiet(pk, new, p)
<1>1. OnlyPiece(pk, new, p)
  BY SameButOnly
<1>2. ASSUME Complete(pk, p) PROVE Complete(new, p)
  <2>1. /\ pk.dl[p].finished + pk.dl[p].writing \in Nat
        /\ new.dl[p].finished + new.dl[p].writing \in Nat
        /\ blocks_in_piece(p) \in Nat
    <3>1. /\ pk.dl[p].finished \in Nat /\ pk.dl[p].writing \in Nat
          /\ new.dl[p].finished \in Nat /\ new.dl[p].writing \in Nat
      BY EntryDomain
    <3>2. blocks_in_piece(p) \in Nat
      BY Layout
    <3> QED BY <3>1, <3>2
  <2>2. new.dl[p].finished + new.dl[p].writing >= blocks_in_piece(p)
    BY <1>2, <2>1 DEF Complete
  <2> QED BY <2>2 DEF Complete, Downloading
<1> QED BY <1>1, <1>2 DEF Quiet, SameBut

\* The operations on blocks.
LEMMA QuietBlocks ==
    ASSUME NEW pk, PickerOk(pk), NEW b \in Blocks, Sane(pk, b[1])
    PROVE  /\ StateOf(pk, b) \notin {"writing", "finished"} /\ b[1] \notin pk.have =>
                /\ Quiet(pk, mark_as_downloading(pk, b), b[1])
                /\ Quiet(pk, mark_as_writing(pk, b), b[1])
           /\ Quiet(pk, abort_download(pk, b), b[1])
           /\ StateOf(pk, b) # "finished" /\ b[1] \notin pk.have =>
                Quiet(pk, FinishedBlock(pk, b), b[1])
<1> DEFINE p == b[1]
           o == pk.dl[p]
<1>1. /\ p \in Pieces /\ Shape(pk) /\ o \in EntryType(p)
      /\ o.requested \in Nat /\ o.writing \in Nat /\ o.finished \in Nat
      /\ blocks_in_piece(p) \in Nat \ {0}
  BY BlockParts, OldEntry, Layout
<1>2. ASSUME StateOf(pk, b) \notin {"writing", "finished"}, p \notin pk.have
      PROVE  Quiet(pk, mark_as_downloading(pk, b), p)
  <2> DEFINE new == mark_as_downloading(pk, b)
             e == new.dl[p]
  <2>1. AskedFor(pk, b)
    BY <1>2, DownloadingEntry
  <2>2. /\ SameBut(pk, new, p) /\ e \in EntryType(p)
        /\ e.writing = o.writing /\ e.finished = o.finished
        /\ e.passed_hash_check = o.passed_hash_check
        /\ e.queue = IF StateOf(pk, b) = "none" THEN QueueFor(pk, p, e)
                     ELSE IF o.queue = "open" THEN "downloading" ELSE o.queue
    BY <2>1 DEF AskedFor
  <2>3. e.queue # "open"
    BY <2>2, QueueIsOne
  <2> HIDE DEF new
  <2>4. e.finished + e.writing >= o.finished + o.writing
    BY <1>1, <2>2
  <2>5. Quiet(pk, new, p)
    BY <1>1, <1>2, <2>2, <2>3, <2>4, QuietEntry
  <2> QED BY <2>5 DEF new
<1>3. ASSUME StateOf(pk, b) \notin {"writing", "finished"}, p \notin pk.have
      PROVE  Quiet(pk, mark_as_writing(pk, b), p)
  <2> DEFINE new == mark_as_writing(pk, b)
             e == new.dl[p]
  <2>1. BeingWritten(pk, b)
    BY <1>3, WritingEntry
  <2>2. /\ SameBut(pk, new, p) /\ e \in EntryType(p)
        /\ e.writing = o.writing + 1 /\ e.finished = o.finished
        /\ e.passed_hash_check = o.passed_hash_check
        /\ e.queue = QueueFor(pk, p, e)
    BY <2>1 DEF BeingWritten
  <2>3. e.queue # "open"
    BY <2>2, QueueIsOne
  <2> HIDE DEF new
  <2>4. e.finished + e.writing >= o.finished + o.writing
    BY <1>1, <2>2
  <2>5. Quiet(pk, new, p)
    BY <1>1, <1>3, <2>2, <2>3, <2>4, QuietEntry
  <2> QED BY <2>5 DEF new
<1>4. Quiet(pk, abort_download(pk, b), p)
  <2>1. Quiet(pk, pk, p)
    BY DEF Quiet, OnlyPiece, SamePiece, Sane
  <2>2. CASE ~is_requested(pk, b)
    BY <2>1, <2>2 DEF abort_download
  <2>3. CASE is_requested(pk, b)
    <3> DEFINE new == abort_download(pk, b)
               e == new.dl[p]
    <3>1. p \notin pk.have /\ o.queue # "open"
      <4>1. o # NoDownload(p)
        <5>1. NoDownload(p).state[b[2]] = "none"
          BY BlockParts DEF NoDownload
        <5> QED BY <2>3, <5>1 DEF is_requested, StateOf
      <4>2. Downloading(pk, p)
        BY <1>1, <4>1, OldEntry
      <4> QED BY <4>1, <4>2 DEF Sane, Downloading
    <3>2. CASE num_peers(pk, b) > 1
      <4>1. LessAsked(pk, b)
        BY <2>3, <3>2, SharedAbort
      <4>2. /\ SameBut(pk, new, p) /\ e \in EntryType(p)
            /\ e.writing = o.writing /\ e.finished = o.finished
            /\ e.passed_hash_check = o.passed_hash_check /\ e.queue = o.queue
        BY <4>1 DEF LessAsked
      <4> HIDE DEF new
      <4>3. e.finished + e.writing >= o.finished + o.writing
        BY <1>1, <4>2
      <4>4. Quiet(pk, new, p)
        BY <1>1, <3>1, <4>2, <4>3, QuietEntry
      <4> QED BY <4>4 DEF new
    <3>3. CASE ~(num_peers(pk, b) > 1)
      <4> DEFINE x == FreedEntry(pk, b)
      <4>1. GivenFree(pk, b)
        BY <2>3, <3>3, LastAbort
      <4>2. /\ new = KeepInUse(pk, p, x) /\ x \in EntryType(p)
            /\ x.requested \in Nat /\ x.writing = o.writing /\ x.finished = o.finished
            /\ x.passed_hash_check = o.passed_hash_check
        BY <4>1, EntryDomain DEF GivenFree
      <4> HIDE DEF x, new
      <4>3. /\ SameBut(pk, new, p)
            /\ InUse(x) = 0 => e = NoDownload(p)
            /\ InUse(x) > 0 =>
                 /\ e \in EntryType(p)
                 /\ e.writing = x.writing /\ e.finished = x.finished
                 /\ e.passed_hash_check = x.passed_hash_check
                 /\ e.queue = QueueFor(pk, p, e)
            /\ InUse(x) \in Nat
        BY <1>1, <4>2, KeptEntry
      <4>4. CASE InUse(x) > 0
        <5>1. e.queue # "open"
          BY <4>3, <4>4, QueueIsOne
        <5>2. /\ e.finished + e.writing >= o.finished + o.writing
              /\ e \in EntryType(p) /\ e.passed_hash_check = o.passed_hash_check
          BY <1>1, <4>2, <4>3, <4>4
        <5>3. Quiet(pk, new, p)
          BY <1>1, <3>1, <4>3, <5>1, <5>2, QuietEntry
        <5> QED BY <5>3 DEF new
      <4>5. CASE InUse(x) = 0
        <5>1. o.finished + o.writing = 0
          BY <1>1, <4>2, <4>5 DEF InUse
        <5>2. ~Complete(pk, p)
          BY <1>1, <5>1 DEF Complete
        <5>3. o.passed_hash_check = FALSE
          BY <1>1, <5>2, EntryDomain DEF Sane
        <5>4. NoDownload(p).passed_hash_check = FALSE
          BY DEF NoDownload
        <5>5. Quiet(pk, new, p)
          BY <3>1, <4>3, <4>5, <5>2, <5>3, <5>4, SameButOnly DEF Quiet, SameBut
        <5> QED BY <5>5 DEF new
      <4> QED BY <4>3, <4>4, <4>5
    <3> QED BY <3>2, <3>3
  <2> QED BY <2>2, <2>3
<1>5. ASSUME StateOf(pk, b) # "finished", p \notin pk.have
      PROVE  Quiet(pk, FinishedBlock(pk, b), p)
  <2> DEFINE new == FinishedBlock(pk, b)
             e == new.dl[p]
             w == One(StateOf(pk, b) = "writing")
  <2>1. Written(pk, b)
    BY <1>5, FinishedEntry
  <2>2. /\ SameBut(pk, new, p) /\ e \in EntryType(p)
        /\ e.writing = o.writing - w /\ e.finished = o.finished + 1
        /\ e.passed_hash_check = o.passed_hash_check
        /\ e.queue = QueueFor(pk, p, e)
    BY <2>1 DEF Written
  <2>3. e.queue # "open" /\ w \in 0..1
    BY <2>2, QueueIsOne DEF One
  <2> HIDE DEF new, w
  <2>4. e.finished + e.writing >= o.finished + o.writing
    BY <1>1, <2>2, <2>3
  <2>5. Quiet(pk, new, p)
    BY <1>1, <1>5, <2>2, <2>3, <2>4, QuietEntry
  <2> QED BY <2>5 DEF new
<1> QED BY <1>2, <1>3, <1>4, <1>5

\* Steps of the peers.
LEMMA CheckedPeers ==
    ASSUME FlowOk, Checked, NEW c \in Peers, NEW b \in Blocks,
           add_request(c, b) \/ incoming_piece(c, b) \/ GiveUp(c, b) \/ snub_peer(c, b)
    PROVE  Checked'
<1> DEFINE p == b[1]
<1>1. PickerOk(picker) /\ JobsOk /\ p \in Pieces /\ Frame(p, 0)
  BY BlockParts, PeerFrames DEF FlowOk
<1>2. p \notin failed => Sane(picker, p) /\ Passing(picker, jobs, p)
  BY <1>1 DEF Checked, Passing
<1>3. ASSUME jobs' = jobs, failed' = failed, p \notin failed => Quiet(picker, picker', p)
      PROVE  Checked'
  BY <1>1, <1>3, SameJobs, QuietStep
<1>4. p \notin failed => Quiet(picker, picker, p)
  BY <1>2 DEF Quiet, OnlyPiece, SamePiece, Sane
<1>5. CASE add_request(c, b)
  <2>1. /\ jobs' = jobs /\ failed' = failed /\ picker' = mark_as_downloading(picker, b)
        /\ StateOf(picker, b) \notin {"writing", "finished"} /\ p \notin picker.have
    BY <1>5 DEF add_request, history, is_requested, Pickable, Settled
  <2> QED BY <1>1, <1>2, <1>3, <2>1, QuietBlocks
<1>6. CASE Redundant(c, b)
  BY <1>3, <1>4, <1>6 DEF Redundant, history
<1>7. ASSUME NEW data \in Data, Received(c, b, data) PROVE Checked'
  <2> DEFINE pk == mark_as_writing(picker, b)
             complete == is_piece_finished(pk, p) /\ ~is_piece_finished(picker, p)
             n == Len(jobs)
  <2>1. /\ jobs' = Append(jobs, WriteJob(b, data)) \o VerifyIfComplete(b[1], pk)
        /\ failed' = failed /\ picker' = pk
        /\ StateOf(picker, b) \notin {"writing", "finished"} /\ p \notin picker.have
    BY <1>7 DEF Received, history, is_downloaded
  <2>2. p \notin failed => Quiet(picker, pk, p)
    BY <1>1, <1>2, <2>1, QuietBlocks
  <2>3. /\ Len(jobs') = n + 1 + One(complete)
        /\ jobs'[n + 1] = WriteJob(b, data)
        /\ complete => jobs'[n + 2] = PieceJob("hash", p)
        /\ From(jobs, jobs', 0)
    <3> HIDE DEF pk
    <3> QED BY <1>1, <2>1, ReceivedFrom
  <2>4. n \in Nat /\ Left(jobs, 0) = n /\ 0 \in 0..Len(jobs)
    BY <1>1 DEF JobsOk, Left
  <2>5. complete => ~Complete(picker, p) /\ (p \notin failed => Complete(pk, p))
    BY <2>1, <2>2 DEF is_piece_finished, Complete, Quiet
  <2>6. n + 1 \notin Checks(jobs', p)
    <3>1. WriteJob(b, data).kind = "write"
      BY DEF WriteJob
    <3> QED BY <2>3, <3>1 DEF Checks
  <2> HIDE DEF complete, pk
  <2>7. CASE ~complete
    <3>1. ASSUME NEW k \in 1..Len(jobs'), k > n PROVE k = n + 1
      BY <2>3, <2>4, <2>7, <3>1 DEF One
    <3>2. \A k \in 1..Len(jobs') : k > Left(jobs, 0) => k \notin Checks(jobs', p)
      BY <2>4, <2>6, <3>1
    <3> QED BY <1>1, <2>1, <2>2, <3>2, QuietStep
  <2>8. CASE complete
    <3>1. ASSUME p \notin failed PROVE Passing(picker', jobs', p)
      <4>1. /\ Checks(jobs, p) = {} /\ ~picker.dl[p].passed_hash_check
            /\ Complete(pk, p) /\ Quiet(picker, pk, p)
        BY <1>2, <2>2, <2>5, <2>8, <3>1 DEF Passing, Sane
      <4>2. ASSUME NEW k \in Checks(jobs', p) PROVE k = n + 2
        <5>1. k > n
          BY <1>1, <2>3, <2>4, <4>1, OldCheck
        <5>2. k \in 1..Len(jobs') /\ k # n + 1
          BY <2>6 DEF Checks
        <5>3. Len(jobs') = n + 2
          BY <2>3, <2>4, <2>8 DEF One
        <5> QED BY <2>4, <5>1, <5>2, <5>3
      <4>3. Complete(picker', p) /\ Sane(picker', p) /\ ~picker'.dl[p].passed_hash_check
        BY <2>1, <4>1 DEF Quiet, Sane
      <4> QED BY <4>2, <4>3 DEF Passing
    <3>2. ASSUME failed' = {} PROVE PassedStep(picker, picker')
      BY <2>1, <2>2, <3>2, QuietPassed
    <3> QED BY <1>1, <2>1, <3>1, <3>2, CheckedStep
  <2> QED BY <2>7, <2>8
<1>8. CASE GiveUp(c, b)
  <2>1. /\ jobs' = jobs /\ failed' = failed
        /\ picker' \in {picker, abort_download(picker, b)}
    BY <1>8 DEF GiveUp, history
  <2> QED BY <1>1, <1>2, <1>3, <1>4, <2>1, QuietBlocks
<1>9. CASE snub_peer(c, b)
  <2>1. /\ jobs' = jobs /\ failed' = failed /\ picker' = abort_download(picker, b)
    BY <1>9 DEF snub_peer, history
  <2> QED BY <1>1, <1>2, <1>3, <2>1, QuietBlocks
<1> QED BY <1>5, <1>6, <1>7, <1>8, <1>9 DEF incoming_piece

\* A change of priority.
LEMMA CheckedPriority ==
    ASSUME FlowOk, Checked, NEW w, NEW p \in Pieces, PrioritizePiece(w, p),
           jobs' = jobs, late' = late, failed' = failed
    PROVE  Checked'
<1>1. JobsOk /\ PickerOk(picker) /\ Frame(p, 0) /\ Preferred(picker, picker', p)
  BY PriorityFrame DEF FlowOk
<1>2. ASSUME p \notin failed PROVE Quiet(picker, picker', p)
  <2> DEFINE o == picker.dl[p]
             e == picker'.dl[p]
  <2>1. Sane(picker, p)
    BY <1>2 DEF Checked, Passing
  <2>2. /\ picker'.have = picker.have /\ picker'.num_passed = picker.num_passed
        /\ OnlyPiece(picker, picker', p)
    BY <1>1 DEF Preferred
  <2>3. CASE e = o
    BY <2>1, <2>2, <2>3 DEF Quiet, Sane, Complete, Downloading
  <2>4. CASE /\ o.queue # "open"
             /\ e.writing = o.writing /\ e.finished = o.finished
             /\ e.passed_hash_check = o.passed_hash_check
             /\ e.queue = QueueFor(picker', p, e)
    <3>1. e.queue # "open"
      BY <2>4, QueueIsOne
    <3>2. p \notin picker.have
      <4>1. NoDownload(p).queue = "open"
        BY DEF NoDownload
      <4> QED BY <2>1, <2>4, <4>1 DEF Sane
    <3> QED BY <2>2, <2>4, <3>1, <3>2 DEF Quiet, Complete, Downloading
  <2> QED BY <1>1, <2>3, <2>4 DEF Preferred
<1> QED BY <1>1, <1>2, SameJobs, QuietStep

\* The disk threads.
LEMMA CheckedDisk ==
    ASSUME FlowOk, Checked, NEW i \in 1..Len(jobs), perform_job(i)
    PROVE  Checked'
<1>1. 0 \in Pieces
  BY Layout DEF Pieces
<1>2. JobsOk /\ Frame(0, 0) /\ Len(jobs) \in Nat
  BY <1>1, DiskFrame DEF FlowOk, JobsOk
<1>3. picker' = picker /\ failed' = failed
  BY DEF perform_job, history
<1>4. \A k \in 1..Len(jobs') : ~(k > Left(jobs, 0))
  BY <1>2, PerformedFrom DEF Left
<1>5. 0 \notin failed => Quiet(picker, picker', 0)
  BY <1>1, <1>3 DEF Checked, Passing, Sane, Quiet, OnlyPiece, SamePiece
<1> QED BY <1>2, <1>3, <1>4, <1>5, QuietStep

\* we_have of a piece that has passed: num_passed counts it already.
LEMMA HavePassed ==
    ASSUME NEW pk, Shape(pk), NEW p \in Pieces, p \notin pk.have,
           pk.num_passed \in Nat, pk.dl[p].passed_hash_check
    PROVE  /\ PassedPieces(we_have(pk, p)) = PassedPieces(pk)
           /\ we_have(pk, p).num_passed = pk.num_passed
           /\ Sane(we_have(pk, p), p)
           /\ we_have(pk, p).dl[p] = NoDownload(p)
<1> DEFINE new == we_have(pk, p)
<1>1. HadPiece(pk, p)
  BY HaveEffect
<1>2. /\ new.have = pk.have \cup {p} /\ new.dl[p] = NoDownload(p)
      /\ \A q \in Pieces : q # p => new.dl[q] = pk.dl[q]
      /\ new.num_passed = pk.num_passed - One(pk.dl[p].passed_hash_check) + 1
  BY <1>1 DEF HadPiece
<1> HIDE DEF new
<1>3. NoDownload(p).passed_hash_check = FALSE
  BY DEF NoDownload
<1>4. Flagged(new) = Flagged(pk) \ {p} /\ p \in Flagged(pk)
  BY <1>2, <1>3 DEF Flagged
<1>5. PassedPieces(new) = PassedPieces(pk)
  BY <1>2, <1>4 DEF PassedPieces
<1>6. new.num_passed = pk.num_passed
  BY <1>2 DEF One
<1>7. Sane(new, p)
  BY <1>2, <1>3 DEF Sane
<1> QED BY <1>2, <1>5, <1>6, <1>7 DEF new

\* Write jobs.
LEMMA CheckedWritten ==
    ASSUME FlowOk, Checked, NEW i \in 1..Len(jobs), call_job_handler(i),
           on_disk_write_complete(i)
    PROVE  Checked'
<1> DEFINE b == jobs[i].block
           p == jobs[i].piece
<1>1. /\ PickerOk(picker) /\ JobsOk /\ p \in Pieces /\ b \in Blocks /\ b[1] = p
      /\ Frame(p, i) /\ i \in 0..Len(jobs) /\ From(jobs, jobs', i)
  BY JobAt, HandlerFrame DEF FlowOk, on_disk_write_complete, Frame
<1>2. CASE WriteError(i)
  <2>1. p \in failed'
    BY <1>2 DEF WriteError
  <2> QED BY <1>1, <2>1, CheckedStep
<1>3. CASE WriteOk(i)
  <2>1. picker' = mark_as_finished(picker, b) /\ Handled(i, <<>>) /\ failed' = failed
    BY <1>3 DEF WriteOk
  <2>2. \A k \in 1..Len(jobs') : ~(k > Left(jobs, i))
    <3>1. <<>> \in Seq(AllJobs) /\ Len(<<>>) = 0 /\ Len(jobs) \in Nat
      BY <1>1 DEF JobsOk
    <3>2. Len(jobs') = Len(jobs) - 1 + Len(<<>>) /\ Left(jobs, i) = Len(jobs) - 1
      BY <1>1, <2>1, <3>1, HandledFrom
    <3> QED BY <3>1, <3>2
  <2>3. p \notin failed => Sane(picker, p) /\ Passing(picker, jobs, p)
    BY <1>1 DEF Checked, Passing
  <2>4. p \notin failed => Quiet(picker, picker, p)
    BY <2>3 DEF Quiet, OnlyPiece, SamePiece, Sane
  <2>5. CASE (~Downloading(picker, p) /\ p \in picker.have) \/ StateOf(picker, b) = "finished"
    <3>1. picker' = picker
      BY <1>1, <2>1, <2>5 DEF mark_as_finished
    <3> QED BY <1>1, <2>1, <2>2, <2>4, <3>1, QuietStep
  <2>6. CASE ~((~Downloading(picker, p) /\ p \in picker.have) \/ StateOf(picker, b) = "finished")
    <3> DEFINE new == FinishedBlock(picker, b)
    <3>1. Written(picker, b)
      BY <1>1, <2>6, FinishedEntry
    <3>2. /\ Shape(new) /\ SameBut(picker, new, p)
          /\ new.dl[p].passed_hash_check = picker.dl[p].passed_hash_check
          /\ picker' = IF new.dl[p].finished >= blocks_in_piece(p) /\ new.dl[p].passed_hash_check
                       THEN we_have(new, p) ELSE new
      BY <1>1, <2>1, <3>1 DEF Written
    <3>3. p \notin failed => p \notin picker.have
      <4>1. NoDownload(p).queue = "open"
        BY DEF NoDownload
      <4> QED BY <2>3, <2>6, <4>1 DEF Sane, Downloading
    <3>4. p \notin failed => Quiet(picker, new, p)
      BY <1>1, <2>3, <2>6, <3>3, QuietBlocks
    <3> HIDE DEF new
    <3>5. CASE ~(new.dl[p].finished >= blocks_in_piece(p) /\ new.dl[p].passed_hash_check)
      BY <1>1, <2>1, <2>2, <3>2, <3>4, <3>5, QuietStep
    <3>6. CASE new.dl[p].finished >= blocks_in_piece(p) /\ new.dl[p].passed_hash_check
      <4>1. picker' = we_have(new, p)
        BY <3>2, <3>6
      <4>2. ASSUME p \notin failed
            PROVE  Passing(picker', jobs', p) /\ PassedStep(picker, picker')
        <5>1. /\ p \notin new.have /\ new.num_passed = picker.num_passed
              /\ new.num_passed \in Nat
          BY <1>1, <3>2, <3>3, <4>2 DEF SameBut, PickerOk
        <5>2. /\ PassedPieces(picker') = PassedPieces(new)
              /\ picker'.num_passed = new.num_passed /\ Sane(picker', p)
          BY <1>1, <3>2, <3>6, <4>1, <5>1, HavePassed
        <5>3. PassedPieces(new) = PassedPieces(picker)
          <6>1. \A q \in Pieces : new.dl[q].passed_hash_check = picker.dl[q].passed_hash_check
            BY <3>2 DEF SameBut
          <6> QED BY <3>2, <6>1 DEF PassedPieces, Flagged, SameBut
        <5>4. Checks(jobs, p) = {}
          BY <2>3, <3>2, <3>6, <4>2 DEF Passing
        <5>5. Checks(jobs', p) = {}
          BY <1>1, <2>2, <5>4, ChecksFrom
        <5> QED BY <5>1, <5>2, <5>3, <5>5 DEF Passing, PassedStep
      <4> QED BY <1>1, <2>1, <4>2, CheckedStep
    <3> QED BY <3>5, <3>6
  <2> QED BY <2>5, <2>6
<1> QED BY <1>2, <1>3 DEF on_disk_write_complete

\* A job that is a check, as the invariant has it.
LEMMA CheckHandled ==
    ASSUME FlowOk, Checked, NEW i \in 1..Len(jobs), jobs[i].kind \in {"hash", "clear"},
           jobs[i].piece \notin failed
    PROVE  LET p == jobs[i].piece
           IN  /\ i \in Checks(jobs, p)
               /\ \A k, l \in Checks(jobs, p) : k = l
               /\ Complete(picker, p) /\ Downloading(picker, p) /\ p \notin picker.have
               /\ ~picker.dl[p].passed_hash_check
               /\ Sane(picker, p)
<1> DEFINE p == jobs[i].piece
<1>1. p \in Pieces
  BY JobAt DEF FlowOk
<1>2. i \in Checks(jobs, p) /\ Passing(picker, jobs, p)
  BY <1>1 DEF Checks, Checked
<1>3. Complete(picker, p) /\ Downloading(picker, p) /\ ~picker.dl[p].passed_hash_check /\ Sane(picker, p)
  BY <1>2 DEF Passing, Complete
<1>4. p \notin picker.have
  <2>1. NoDownload(p).queue = "open"
    BY DEF NoDownload
  <2> QED BY <1>3, <2>1 DEF Sane, Downloading
<1> QED BY <1>2, <1>3, <1>4 DEF Passing

\* piece_passed of a piece that has not passed yet: num_passed counts it now.
LEMMA PassedOnce ==
    ASSUME NEW pk, PickerOk(pk), NEW p \in Pieces, Sane(pk, p), Complete(pk, p),
           p \notin pk.have, ~pk.dl[p].passed_hash_check
    PROVE  PassedStep(pk, piece_passed(pk, p)) /\ Sane(piece_passed(pk, p), p)
<1> DEFINE new == MarkedPassed(pk, p)
<1>1. Downloading(pk, p) /\ pk.num_passed \in Nat
  BY DEF Complete, PickerOk
<1>2. CASE pk.dl[p].locked
  <2>1. piece_passed(pk, p) = pk
    BY <1>2 DEF piece_passed
  <2> QED BY <2>1 DEF PassedStep
<1>3. CASE ~pk.dl[p].locked
  <2>1. piece_passed(pk, p) \in {new, we_have(new, p)}
    BY <1>1, <1>3 DEF piece_passed, MarkedPassed
  <2>2. Passed(pk, p)
    BY MarkedEffect
  <2>3. /\ Shape(new) /\ SameButPassed(pk, new, p)
        /\ new.num_passed = pk.num_passed + 1
        /\ SameBlocks(pk.dl[p], new.dl[p])
        /\ new.dl[p].passed_hash_check = TRUE
    BY <2>2 DEF Passed
  <2> HIDE DEF new
  <2>4. Flagged(new) = Flagged(pk) \cup {p} /\ p \notin Flagged(pk)
    BY <2>3 DEF Flagged, SameButPassed
  <2>5. PassedPieces(new) = PassedPieces(pk) \cup {p} /\ p \notin PassedPieces(pk)
    BY <2>3, <2>4 DEF PassedPieces, SameButPassed
  <2>6. Sane(new, p)
    BY <2>3 DEF Sane, Complete, Downloading, SameBlocks, SameButPassed
  <2>7. /\ PassedPieces(we_have(new, p)) = PassedPieces(new)
        /\ we_have(new, p).num_passed = new.num_passed
        /\ Sane(we_have(new, p), p)
    <3>1. p \notin new.have /\ new.num_passed \in Nat
      BY <1>1, <2>3 DEF SameButPassed
    <3> QED BY <2>3, <3>1, HavePassed
  <2> QED BY <2>1, <2>3, <2>5, <2>6, <2>7 DEF PassedStep
<1> QED BY <1>2, <1>3

\* Hash jobs.
LEMMA CheckedVerified ==
    ASSUME FlowOk, Checked, NEW i \in 1..Len(jobs), call_job_handler(i), on_piece_verified(i)
    PROVE  Checked'
<1> DEFINE p == jobs[i].piece
           n == Len(jobs)
<1>1. /\ PickerOk(picker) /\ JobsOk /\ p \in Pieces /\ jobs[i].kind = "hash"
      /\ Frame(p, i) /\ i \in 0..Len(jobs) /\ From(jobs, jobs', i)
  BY JobAt, HandlerFrame DEF FlowOk, on_piece_verified, Frame
<1>2. n \in Nat /\ n >= 1 /\ Left(jobs, i) = n - 1
  BY <1>1 DEF JobsOk, Left
<1>3. p \notin failed =>
         /\ i \in Checks(jobs, p)
         /\ \A k, l \in Checks(jobs, p) : k = l
         /\ Complete(picker, p) /\ Downloading(picker, p) /\ p \notin picker.have
         /\ ~picker.dl[p].passed_hash_check
         /\ Sane(picker, p)
  BY <1>1, CheckHandled
<1>4. ASSUME Handled(i, <<>>) PROVE \A k \in 1..Len(jobs') : ~(k > Left(jobs, i))
  <2>1. <<>> \in Seq(AllJobs) /\ Len(<<>>) = 0
    OBVIOUS
  <2>2. Len(jobs') = n - 1 + Len(<<>>)
    BY <1>1, <1>4, <2>1, HandledFrom
  <2> QED BY <1>2, <2>1, <2>2
<1>5. CASE HashError(i)
  <2>1. p \in failed'
    BY <1>5 DEF HashError
  <2> QED BY <1>1, <2>1, CheckedStep
<1>6. CASE /\ picker' = picker /\ failed' = failed /\ Handled(i, <<>>)
  <2>1. p \notin failed => Quiet(picker, picker, p)
    BY <1>3 DEF Quiet, OnlyPiece, SamePiece, Sane
  <2> QED BY <1>1, <1>4, <1>6, <2>1, QuietStep
<1>7. CASE /\ picker' = piece_passed(picker, p) /\ failed' = failed /\ Handled(i, <<>>)
  <2>1. ASSUME p \notin failed PROVE Passing(picker', jobs', p) /\ PassedStep(picker, picker')
    <3>1. PassedStep(picker, picker') /\ Sane(picker', p)
      BY <1>1, <1>3, <1>7, <2>1, PassedOnce
    <3>2. Checks(jobs', p) = {}
      BY <1>1, <1>3, <1>4, <1>7, <2>1, ChecksFrom
    <3> QED BY <3>1, <3>2 DEF Passing
  <2> QED BY <1>1, <1>7, <2>1, CheckedStep
<1>8. CASE piece_failed(i) /\ failed' = failed
  <2>1. /\ picker' = lock_piece(picker, p) /\ Handled(i, <<PieceJob("clear", p)>>)
    BY <1>8 DEF piece_failed, Drop
  <2>2. Len(jobs') = n
    <3> DEFINE c == PieceJob("clear", p)
    <3>1. c \in AllJobs
      BY <1>1, NewJobs
    <3> HIDE DEF c
    <3>2. <<c>> \in Seq(AllJobs) /\ Len(<<c>>) = 1
      BY <3>1
    <3>3. Len(jobs') = n - 1 + Len(<<c>>)
      BY <1>1, <2>1, <3>2, HandledFrom DEF c
    <3> QED BY <1>2, <3>2, <3>3
  <2>3. ASSUME p \notin failed PROVE Passing(picker', jobs', p) /\ PassedStep(picker, picker')
    <3>1. Locked(picker, p)
      BY <1>1, <1>3, <2>3, LockEffect
    <3>2. /\ SameButPassed(picker, picker', p)
          /\ picker'.num_passed = picker.num_passed - One(picker.dl[p].passed_hash_check)
          /\ SameBlocks(picker.dl[p], picker'.dl[p])
          /\ picker'.dl[p].passed_hash_check = FALSE
      BY <2>1, <3>1 DEF Locked
    <3>3. picker.dl[p].passed_hash_check = FALSE /\ picker.num_passed \in Nat
      BY <1>1, <1>3, <2>3, OldEntry, EntryDomain DEF PickerOk
    <3>4. picker'.num_passed = picker.num_passed
      BY <3>2, <3>3 DEF One
    <3>5. Quiet(picker, picker', p)
      BY <1>3, <2>3, <3>2, <3>3, <3>4, SameButOnly
         DEF Quiet, Complete, Downloading, SameBlocks, SameButPassed
    <3>6. \A k \in Checks(jobs', p) : k = n
      <4>1. ASSUME NEW k \in Checks(jobs', p) PROVE k = n
        <5>1. k > Left(jobs, i)
          BY <1>1, <1>3, <2>3, OldCheck
        <5>2. k \in 1..n
          BY <2>2 DEF Checks
        <5> QED BY <1>2, <5>1, <5>2
      <4> QED BY <4>1
    <3>7. Complete(picker', p) /\ Sane(picker', p)
      BY <1>3, <2>3, <3>2, <3>5 DEF Quiet, Sane
    <3> QED BY <3>2, <3>5, <3>6, <3>7, QuietPassed DEF Passing
  <2> QED BY <1>1, <1>8, <2>3, CheckedStep
<1>9. HashResult(i) => \/ picker' = picker /\ failed' = failed /\ Handled(i, <<>>)
                       \/ picker' = piece_passed(picker, p) /\ failed' = failed /\ Handled(i, <<>>)
                       \/ piece_failed(i) /\ failed' = failed
  BY DEF HashResult
<1> QED BY <1>5, <1>6, <1>7, <1>8, <1>9 DEF on_piece_verified

\* Clear jobs.
LEMMA CheckedCleared ==
    ASSUME FlowOk, Checked, NEW i \in 1..Len(jobs), call_job_handler(i),
           on_piece_sync(i) \/ on_piece_fail_sync(i)
    PROVE  Checked'
<1> DEFINE p == jobs[i].piece
<1>1. /\ PickerOk(picker) /\ JobsOk /\ p \in Pieces
      /\ Frame(p, i) /\ i \in 0..Len(jobs) /\ From(jobs, jobs', i)
  BY JobAt, HandlerFrame DEF FlowOk, Frame
<1>2. Handled(i, <<>>) /\ failed' = failed
  BY DEF on_piece_sync, on_piece_fail_sync
<1>3. \A k \in 1..Len(jobs') : ~(k > Left(jobs, i))
  <2>1. <<>> \in Seq(AllJobs) /\ Len(<<>>) = 0 /\ Len(jobs) \in Nat
    BY <1>1 DEF JobsOk
  <2>2. Len(jobs') = Len(jobs) - 1 + Len(<<>>) /\ Left(jobs, i) = Len(jobs) - 1
    BY <1>1, <1>2, <2>1, HandledFrom
  <2> QED BY <2>1, <2>2
<1>4. CASE on_piece_fail_sync(i)
  <2>1. p \notin failed => Quiet(picker, picker, p)
    BY <1>1 DEF Quiet, OnlyPiece, SamePiece, Sane, Checked, Passing
  <2>2. picker' = picker
    BY <1>4 DEF on_piece_fail_sync
  <2> QED BY <1>1, <1>2, <1>3, <2>1, <2>2, QuietStep
<1>5. CASE on_piece_sync(i)
  <2>1. jobs[i].kind = "clear" /\ picker' = RestoreAndRequest(p)
    BY <1>5 DEF on_piece_sync
  <2>2. ASSUME p \notin failed PROVE Passing(picker', jobs', p) /\ PassedStep(picker, picker')
    <3>1. /\ i \in Checks(jobs, p)
          /\ \A k, l \in Checks(jobs, p) : k = l
          /\ p \notin picker.have /\ ~picker.dl[p].passed_hash_check
      BY <2>1, <2>2, CheckHandled
    <3>2. Restarted(p)
      BY <1>1, RestartedEntry
    <3>3. SameBut(picker, picker', p) /\ picker'.dl[p].passed_hash_check = FALSE
      BY <2>1, <3>2 DEF Restarted
    <3>4. Sane(picker', p)
      BY <3>1, <3>3 DEF Sane, SameBut
    <3>5. Checks(jobs', p) = {}
      BY <1>1, <1>3, <3>1, ChecksFrom
    <3>6. Flagged(picker') = Flagged(picker)
      BY <3>1, <3>3 DEF Flagged, SameBut
    <3>7. PassedStep(picker, picker')
      BY <3>3, <3>6 DEF PassedStep, PassedPieces, SameBut
    <3> QED BY <3>4, <3>5, <3>7 DEF Passing
  <2> QED BY <1>1, <1>2, <2>2, CheckedStep
<1> QED BY <1>4, <1>5

\* Steps that change neither picker nor jobs.
LEMMA CheckedSame ==
    ASSUME Checked, picker' = picker, jobs' = jobs, failed' = failed
    PROVE  Checked'
  BY DEF Checked

\* Every step keeps the invariant.
LEMMA CheckedNext == FlowOk /\ Checked /\ [Next]_vars => Checked'
<1> SUFFICES ASSUME FlowOk, Checked, [Next]_vars PROVE Checked'
  OBVIOUS
<1>1. ASSUME NEW w, NEW p \in Pieces, PrioritizePiece(w, p), jobs' = jobs, late' = late, failed' = failed
      PROVE  Checked'
  BY <1>1, CheckedPriority
<1>2. ASSUME NEW c \in Peers, disconnect(c) PROVE Checked'
  BY <1>2, CheckedSame DEF disconnect, Drop, history
<1>3. ASSUME NEW w \in SUBSET Pieces, prioritize_pieces(w) PROVE Checked'
  <2>1. 0 \in Pieces
    BY Layout DEF Pieces
  <2> QED BY <1>1, <1>3, <2>1 DEF prioritize_pieces, history
<1>4. CASE leave_upload_mode
  BY <1>4, CheckedSame DEF leave_upload_mode, history
<1>5. CASE Network
  BY <1>2, <1>3, <1>4, <1>5, CheckedPeers DEF Network, incoming_reject_request
<1>6. CASE Loops
  <2>1. ASSUME prioritize_next PROVE Checked'
    <3>1. setting.index \in Pieces
      BY <2>1 DEF prioritize_next, FlowOk, SettingOk
    <3> QED BY <1>1, <2>1, <3>1 DEF prioritize_next, history
  <2> QED BY <1>6, <2>1, CheckedPeers DEF Loops, empty_download_queue
<1>7. CASE Disk
  BY <1>7, CheckedDisk DEF Disk
<1>8. CASE Handlers
  <2>1. PICK i \in 1..Len(jobs) : call_job_handler(i)
    BY <1>8 DEF Handlers
  <2> QED BY <2>1, CheckedWritten, CheckedVerified, CheckedCleared DEF call_job_handler
<1>9. CASE UNCHANGED vars
  BY <1>9, CheckedSame DEF vars, history
<1> QED BY <1>5, <1>6, <1>7, <1>8, <1>9 DEF Next

\* It holds when nothing has happened.
LEMMA CheckedInit == Init => Checked
<1> SUFFICES ASSUME Init PROVE Checked
  OBVIOUS
<1>1. /\ picker.have = {} /\ picker.num_passed = 0 /\ \A p \in Pieces : picker.dl[p] = NoDownload(p)
  BY DEF Init, init
<1>2. ASSUME NEW p \in Pieces PROVE ~picker.dl[p].passed_hash_check
  <2>1. NoDownload(p).passed_hash_check = FALSE
    BY DEF NoDownload
  <2> QED BY <1>1, <2>1
<1>3. \A p : Checks(jobs, p) = {}
  BY DEF Init, Checks
<1>4. PassedAgrees(picker)
  <2>1. picker.have \cup {p \in Pieces : picker.dl[p].passed_hash_check} = {}
    BY <1>1, <1>2
  <2> QED BY <1>1, <2>1, FS_EmptySet DEF PassedAgrees
<1> QED BY <1>1, <1>2, <1>3, <1>4 DEF Checked, Passing, Sane

\* Types and checks, in every state.
LEMMA CheckedInvariant == Spec => [](FlowOk /\ Checked)
<1>1. Init => FlowOk /\ Checked
  BY InitFlow, CheckedInit
<1>2. (FlowOk /\ Checked) /\ [Next]_vars => (FlowOk /\ Checked)'
  BY NextFlow, CheckedNext
<1> QED BY <1>1, <1>2, PTL DEF Spec

\* The totals and cursors of the picker agree with its pieces in every state,
\* and num_passed does until a disk error: no interleaving of writes, hash jobs
\* and clear jobs lets piece_passed count a piece twice or forget one.
THEOREM PassedCounted == Spec => []CountsOk
<1>1. FlowOk /\ Checked => CountsOk
  BY PickerTypes DEF FlowOk, Checked, CountsOk
<1> QED BY <1>1, CheckedInvariant, PTL

-----------------------------------------------------------------------------
(***************************************************************************)
(* The blocks of a piece.  While neither a disk error nor a late report has *)
(* met it, its counters are exact, a block is writing exactly while one     *)
(* write of it is on the way, and its writes stand before its check.        *)
(***************************************************************************)
Exact(e) ==
    /\ e.requested = InStates(e, "requested")
    /\ e.writing = InStates(e, "writing")
    /\ e.finished = InStates(e, "finished")

\* Exactly the requested blocks have peers.
Owned(p, e) ==
    \A k \in 1..blocks_in_piece(p) : e.num_peers[k] > 0 <=> e.state[k] = "requested"

InQueue(pk, p, e) == e.queue = IF InUse(e) = 0 THEN "open" ELSE QueueFor(pk, p, e)

\* Every block is in one state.
LEMMA StateSum ==
    ASSUME NEW p \in Pieces, NEW e \in EntryType(p)
    PROVE  /\ \A s : InStates(e, s) \in Nat /\ (InStates(e, s) = 0 <=> InState(e, s) = {})
           /\ \A s : InState(e, s) = {k \in 1..blocks_in_piece(p) : e.state[k] = s}
           /\ InStates(e, "none") + InStates(e, "requested") + InStates(e, "writing")
                + InStates(e, "finished") = blocks_in_piece(p)
<1> DEFINE n == blocks_in_piece(p)
           A(s) == InState(e, s)
<1>1. e.state \in [1..n -> BlockStates]
  BY EntryDomain
<1>2. n \in Nat /\ n >= 1
  BY Layout
<1> HIDE DEF n
<1>3. \A s : A(s) = {k \in 1..n : e.state[k] = s}
  BY <1>1 DEF InState
<1>4. IsFiniteSet(1..n) /\ Cardinality(1..n) = n
  <2>1. 1 \in Int /\ n \in Int /\ ~(1 > n) /\ n - 1 + 1 = n
    BY <1>2
  <2> QED BY <2>1, FS_Interval
<1>5. ASSUME NEW s PROVE /\ IsFiniteSet(A(s)) /\ Cardinality(A(s)) \in Nat
                         /\ Cardinality(A(s)) = 0 <=> A(s) = {}
  <2>1. A(s) \in SUBSET (1..n)
    BY <1>3
  <2> HIDE DEF A
  <2>2. IsFiniteSet(A(s))
    BY <1>4, <2>1, FS_Subset
  <2> QED BY <2>2, FS_EmptySet, FS_CardinalityType
<1>6. /\ A("none") \cap A("requested") = {} /\ A("writing") \cap A("finished") = {}
      /\ (A("none") \cup A("requested")) \cap (A("writing") \cup A("finished")) = {}
      /\ (A("none") \cup A("requested")) \cup (A("writing") \cup A("finished")) = 1..n
  <2>1. /\ A("none") = {k \in 1..n : e.state[k] = "none"}
        /\ A("requested") = {k \in 1..n : e.state[k] = "requested"}
        /\ A("writing") = {k \in 1..n : e.state[k] = "writing"}
        /\ A("finished") = {k \in 1..n : e.state[k] = "finished"}
    BY <1>3
  <2>2. \A k \in 1..n : e.state[k] \in {"none", "requested", "writing", "finished"}
    BY <1>1 DEF BlockStates
  <2> HIDE DEF A
  <2> QED BY <2>1, <2>2
<1> HIDE DEF A
<1>7. ASSUME NEW S, NEW T, IsFiniteSet(S), IsFiniteSet(T), S \cap T = {}
      PROVE  IsFiniteSet(S \cup T) /\ Cardinality(S \cup T) = Cardinality(S) + Cardinality(T)
  <2>1. /\ IsFiniteSet(S \cup T)
        /\ Cardinality(S \cup T) = Cardinality(S) + Cardinality(T) - Cardinality(S \cap T)
        /\ Cardinality(S \cap T) = 0
    BY <1>7, FS_Union, FS_EmptySet
  <2>2. Cardinality(S) \in Nat /\ Cardinality(T) \in Nat
    BY <1>7, FS_CardinalityType
  <2> QED BY <2>1, <2>2
<1>8. /\ IsFiniteSet(A("none") \cup A("requested")) /\ IsFiniteSet(A("writing") \cup A("finished"))
      /\ Cardinality(A("none") \cup A("requested")) = Cardinality(A("none")) + Cardinality(A("requested"))
      /\ Cardinality(A("writing") \cup A("finished")) = Cardinality(A("writing")) + Cardinality(A("finished"))
  BY <1>5, <1>6, <1>7
<1>9. n = (Cardinality(A("none")) + Cardinality(A("requested")))
            + (Cardinality(A("writing")) + Cardinality(A("finished")))
  <2> DEFINE U == A("none") \cup A("requested")
             V == A("writing") \cup A("finished")
  <2>1. /\ IsFiniteSet(U) /\ IsFiniteSet(V) /\ U \cap V = {} /\ U \cup V = 1..n
        /\ Cardinality(U) = Cardinality(A("none")) + Cardinality(A("requested"))
        /\ Cardinality(V) = Cardinality(A("writing")) + Cardinality(A("finished"))
    BY <1>6, <1>8
  <2> HIDE DEF U, V
  <2>2. Cardinality(U \cup V) = Cardinality(U) + Cardinality(V)
    BY <1>7, <2>1
  <2>3. n = Cardinality(U) + Cardinality(V)
    BY <1>4, <2>1, <2>2
  <2> QED BY <2>1, <2>3
<1>10. \A s : InStates(e, s) = Cardinality(A(s))
  BY DEF InStates, A
<1>11. InStates(e, "none") + InStates(e, "requested") + InStates(e, "writing")
         + InStates(e, "finished") = n
  BY <1>5, <1>9, <1>10
<1> QED BY <1>3, <1>5, <1>10, <1>11 DEF n, A

\* What EntryAgrees says, in terms of the counters.
LEMMA AgreesMeaning ==
    ASSUME NEW pk, NEW p \in Pieces, pk.dl[p] \in EntryType(p)
    PROVE  EntryAgrees(pk, p) <=>
               Exact(pk.dl[p]) /\ Owned(p, pk.dl[p]) /\ InQueue(pk, p, pk.dl[p])
<1> DEFINE e == pk.dl[p]
           n == blocks_in_piece(p)
<1>1. /\ \A s : InStates(e, s) \in Nat /\ (InStates(e, s) = 0 <=> InState(e, s) = {})
      /\ InStates(e, "none") + InStates(e, "requested") + InStates(e, "writing")
           + InStates(e, "finished") = n
  BY StateSum
<1>2. n \in Nat
  BY Layout
<1>3. DOMAIN e.state = 1..n
  BY EntryDomain
<1> HIDE DEF n, e
<1>4. ASSUME Exact(e) PROVE InState(e, "none") # {} <=> InUse(e) < n
  <2>1. InUse(e) = InStates(e, "requested") + InStates(e, "finished") + InStates(e, "writing")
    BY <1>4 DEF Exact, InUse
  <2>2. /\ InStates(e, "none") \in Nat /\ InStates(e, "requested") \in Nat
        /\ InStates(e, "writing") \in Nat /\ InStates(e, "finished") \in Nat
        /\ InStates(e, "none") = 0 <=> InState(e, "none") = {}
    BY <1>1
  <2>3. InUse(e) < n <=> InStates(e, "none") # 0
    BY <1>1, <1>2, <2>1, <2>2
  <2> QED BY <2>2, <2>3
<1>5. EntryAgrees(pk, p) <=>
        /\ Exact(e) /\ Owned(p, e)
        /\ e.queue = IF InUse(e) = 0 THEN "open"
                     ELSE IF p \in pk.filtered THEN "zero_prio"
                     ELSE IF InState(e, "none") # {} THEN "downloading"
                     ELSE IF e.requested > 0 THEN "full" ELSE "finished"
  BY <1>3 DEF EntryAgrees, Exact, Owned, InStates, e, n
<1> QED BY <1>4, <1>5 DEF InQueue, QueueFor, e, n

\* The blocks of a piece that is complete, and of one that is all written.
LEMMA CompleteBlocks ==
    ASSUME NEW p \in Pieces, NEW e \in EntryType(p), Exact(e)
    PROVE  /\ e.finished + e.writing >= blocks_in_piece(p) =>
                \A k \in 1..blocks_in_piece(p) : e.state[k] \in {"writing", "finished"}
           /\ e.finished >= blocks_in_piece(p) =>
                \A k \in 1..blocks_in_piece(p) : e.state[k] = "finished"
<1> DEFINE n == blocks_in_piece(p)
<1>1. /\ \A s : InStates(e, s) \in Nat /\ (InStates(e, s) = 0 <=> InState(e, s) = {})
      /\ \A s : InState(e, s) = {k \in 1..n : e.state[k] = s}
      /\ InStates(e, "none") + InStates(e, "requested") + InStates(e, "writing")
           + InStates(e, "finished") = n
  BY StateSum
<1>2. n \in Nat /\ e.state \in [1..n -> BlockStates]
  BY Layout, EntryDomain
<1> HIDE DEF n
<1>3. /\ InStates(e, "none") \in Nat /\ InStates(e, "requested") \in Nat
      /\ InStates(e, "writing") \in Nat /\ InStates(e, "finished") \in Nat
      /\ e.finished = InStates(e, "finished") /\ e.writing = InStates(e, "writing")
  BY <1>1 DEF Exact
<1>4. ASSUME e.finished + e.writing >= n
      PROVE  \A k \in 1..n : e.state[k] \in {"writing", "finished"}
  <2>1. InStates(e, "none") = 0 /\ InStates(e, "requested") = 0
    BY <1>1, <1>2, <1>3, <1>4
  <2>2. InState(e, "none") = {} /\ InState(e, "requested") = {}
    BY <1>1, <2>1
  <2>3. ASSUME NEW k \in 1..n PROVE e.state[k] # "none" /\ e.state[k] # "requested"
    BY <1>1, <2>2
  <2> QED BY <1>2, <2>3 DEF BlockStates
<1>5. ASSUME e.finished >= n PROVE \A k \in 1..n : e.state[k] = "finished"
  <2>1. InStates(e, "none") = 0 /\ InStates(e, "requested") = 0 /\ InStates(e, "writing") = 0
    BY <1>1, <1>2, <1>3, <1>5
  <2>2. InState(e, "none") = {} /\ InState(e, "requested") = {} /\ InState(e, "writing") = {}
    BY <1>1, <2>1
  <2>3. ASSUME NEW k \in 1..n
        PROVE  e.state[k] # "none" /\ e.state[k] # "requested" /\ e.state[k] # "writing"
    BY <1>1, <2>2
  <2> QED BY <1>2, <2>3 DEF BlockStates
<1> QED BY <1>4, <1>5 DEF n

\* A piece without an entry.
LEMMA AgreesEmpty ==
    ASSUME NEW pk, NEW p \in Pieces, pk.dl[p] = NoDownload(p)
    PROVE  /\ EntryAgrees(pk, p)
           /\ \A b \in Blocks : b[1] = p => StateOf(pk, b) = "none"
<1> DEFINE e == NoDownload(p)
<1>1. /\ e \in EntryType(p) /\ InUse(e) = 0
      /\ \A s \in BlockStates \ {"none"} : InStates(e, s) = 0
  BY EmptyEntry DEF EntryOk
<1>2. /\ e.queue = "open" /\ e.requested = 0 /\ e.writing = 0 /\ e.finished = 0
      /\ \A k \in 1..blocks_in_piece(p) : e.state[k] = "none" /\ e.num_peers[k] = 0
  BY DEF NoDownload
<1> HIDE DEF e
<1>3. InStates(e, "requested") = 0 /\ InStates(e, "writing") = 0 /\ InStates(e, "finished") = 0
  BY <1>1 DEF BlockStates
<1>4. Exact(e) /\ InQueue(pk, p, e)
  BY <1>1, <1>2, <1>3 DEF Exact, InQueue
<1>5. Owned(p, e)
  BY <1>2 DEF Owned
<1>6. EntryAgrees(pk, p)
  BY <1>1, <1>4, <1>5, AgreesMeaning DEF e
<1>7. ASSUME NEW b \in Blocks, b[1] = p PROVE StateOf(pk, b) = "none"
  <2>1. b[2] \in 1..blocks_in_piece(p)
    BY <1>7, BlockParts
  <2> QED BY <1>2, <1>7, <2>1 DEF StateOf, e
<1> QED BY <1>6, <1>7

\* Block k of an entry goes to state v, and everything else follows.
BlockMoved(p, o, e, k, v) ==
    /\ e.state = [o.state EXCEPT ![k] = v]
    /\ \E n \in Nat : e.num_peers = [o.num_peers EXCEPT ![k] = n] /\ (n > 0 <=> v = "requested")
    /\ e.requested = o.requested - One(o.state[k] = "requested") + One(v = "requested")
    /\ e.writing = o.writing - One(o.state[k] = "writing") + One(v = "writing")
    /\ e.finished = o.finished - One(o.state[k] = "finished") + One(v = "finished")

\* Then the new entry agrees with its blocks.
LEMMA MovedAgrees ==
    ASSUME NEW p \in Pieces, NEW pk, NEW new, pk.dl[p] \in EntryType(p),
           new.dl[p] \in EntryType(p), EntryAgrees(pk, p),
           NEW k \in 1..blocks_in_piece(p), NEW v \in BlockStates,
           BlockMoved(p, pk.dl[p], new.dl[p], k, v), InQueue(new, p, new.dl[p])
    PROVE  EntryAgrees(new, p)
<1> DEFINE o == pk.dl[p]
           e == new.dl[p]
           n == blocks_in_piece(p)
<1>1. Exact(o) /\ Owned(p, o)
  BY AgreesMeaning
<1>2. /\ o.state \in [1..n -> BlockStates] /\ o.num_peers \in [1..n -> Nat]
      /\ o.requested \in Nat /\ o.writing \in Nat /\ o.finished \in Nat
  BY EntryDomain
<1>3. \A s : /\ InStates(e, s) \in Nat /\ InStates(o, s) \in Nat
             /\ InStates(e, s) = InStates(o, s) - One(o.state[k] = s) + One(v = s)
  BY StateCounts DEF BlockMoved
<1>4. BlockMoved(p, o, e, k, v)
  OBVIOUS
<1> HIDE DEF o, e, n
<1>5. Exact(e)
  BY <1>1, <1>3, <1>4 DEF Exact, BlockMoved
<1>6. Owned(p, e)
  <2>1. PICK m \in Nat : e.num_peers = [o.num_peers EXCEPT ![k] = m] /\ (m > 0 <=> v = "requested")
    BY <1>4 DEF BlockMoved
  <2>2. k \in 1..n
    BY DEF n
  <2>3. ASSUME NEW l \in 1..n PROVE e.num_peers[l] > 0 <=> e.state[l] = "requested"
    <3>1. e.state = [o.state EXCEPT ![k] = v]
      BY <1>4 DEF BlockMoved
    <3>2. CASE l = k
      BY <1>2, <2>1, <2>2, <3>1, <3>2
    <3>3. CASE l # k
      <4>1. e.state[l] = o.state[l] /\ e.num_peers[l] = o.num_peers[l]
        BY <1>2, <2>1, <2>2, <3>1, <3>3
      <4>2. o.num_peers[l] > 0 <=> o.state[l] = "requested"
        BY <1>1, <2>3 DEF Owned, n
      <4> QED BY <4>1, <4>2
    <3> QED BY <3>2, <3>3
  <2> QED BY <2>3 DEF Owned, n
<1> QED BY <1>5, <1>6, AgreesMeaning DEF e

\* No block of the piece begins or ends to be written.
Steady(pk, new, p) ==
    /\ EntryAgrees(new, p)
    /\ \A b \in Blocks : b[1] = p => (StateOf(new, b) = "writing" <=> StateOf(pk, b) = "writing")

\* One block goes from a state to another.
LEMMA SteadyMove ==
    ASSUME NEW pk, NEW new, NEW b \in Blocks, NEW v,
           pk.dl[b[1]] \in EntryType(b[1]),
           new.dl[b[1]].state = [pk.dl[b[1]].state EXCEPT ![b[2]] = v]
    PROVE  /\ StateOf(new, b) = v
           /\ \A a \in Blocks : a[1] = b[1] /\ a # b => StateOf(new, a) = StateOf(pk, a)
<1>1. /\ b[1] \in Pieces /\ b[2] \in 1..blocks_in_piece(b[1]) /\ b = <<b[1], b[2]>>
      /\ pk.dl[b[1]].state \in [1..blocks_in_piece(b[1]) -> BlockStates]
  BY BlockParts, EntryDomain
<1>2. ASSUME NEW a \in Blocks, a[1] = b[1], a # b PROVE StateOf(new, a) = StateOf(pk, a)
  <2>1. a = <<a[1], a[2]>> /\ a[2] \in 1..blocks_in_piece(b[1])
    BY <1>2, BlockParts
  <2>2. a[2] # b[2]
    BY <1>1, <1>2, <2>1
  <2> QED BY <1>1, <1>2, <2>1, <2>2 DEF StateOf
<1> QED BY <1>1, <1>2 DEF StateOf

\* A request, and the end of one.
LEMMA SteadyBlocks ==
    ASSUME NEW pk, PickerOk(pk), NEW b \in Blocks, EntryAgrees(pk, b[1])
    PROVE  /\ StateOf(pk, b) \notin {"writing", "finished"} =>
                Steady(pk, mark_as_downloading(pk, b), b[1])
           /\ Steady(pk, abort_download(pk, b), b[1])
<1> DEFINE p == b[1]
           k == b[2]
           o == pk.dl[p]
           n == blocks_in_piece(p)
           s == StateOf(pk, b)
<1>1. /\ p \in Pieces /\ Shape(pk) /\ o \in EntryType(p) /\ k \in 1..n
      /\ s = o.state[k] /\ s \in BlockStates
  BY BlockParts, OldEntry, StateType
<1>2. /\ o.state \in [1..n -> BlockStates] /\ o.num_peers \in [1..n -> Nat]
      /\ o.requested \in Nat /\ o.writing \in Nat /\ o.finished \in Nat
  BY <1>1, EntryDomain
<1>3. Exact(o) /\ Owned(p, o) /\ InQueue(pk, p, o)
  BY <1>1, AgreesMeaning
<1>4. n \in Nat /\ n >= 1
  BY <1>1, Layout
<1>5. s = "requested" => o.requested >= 1
  BY CountedBlock
<1> HIDE DEF o, n, s
<1>6. ASSUME s \notin {"writing", "finished"} PROVE Steady(pk, mark_as_downloading(pk, b), p)
  <2> DEFINE new == mark_as_downloading(pk, b)
             e == new.dl[p]
  <2>1. AskedFor(pk, b)
    BY <1>6, DownloadingEntry DEF s
  <2>2. /\ SameBut(pk, new, p) /\ e \in EntryType(p)
        /\ e.state = [o.state EXCEPT ![k] = "requested"]
        /\ e.num_peers = [o.num_peers EXCEPT ![k] = o.num_peers[k] + 1]
        /\ e.requested = o.requested + One(s = "none")
        /\ e.writing = o.writing /\ e.finished = o.finished
        /\ e.queue = IF s = "none" THEN QueueFor(pk, p, e)
                     ELSE IF o.queue = "open" THEN "downloading" ELSE o.queue
    BY <2>1 DEF AskedFor, o, s
  <2> HIDE DEF new, e
  <2>3. s \in {"none", "requested"}
    BY <1>1, <1>6 DEF BlockStates
  <2>4. BlockMoved(p, o, e, k, "requested")
    <3>1. /\ One(s = "none") = 1 - One(s = "requested") /\ One("requested" = "requested") = 1
          /\ One(s = "writing") = 0 /\ One("requested" = "writing") = 0
          /\ One(s = "finished") = 0 /\ One("requested" = "finished") = 0
          /\ One(s = "requested") \in {0, 1}
      BY <2>3 DEF One
    <3>2. o.num_peers[k] \in Nat
      BY <1>1, <1>2
    <3>3. o.num_peers[k] + 1 \in Nat /\ o.num_peers[k] + 1 > 0
      BY <3>2
    <3>4. \E m \in Nat : e.num_peers = [o.num_peers EXCEPT ![k] = m] /\ (m > 0 <=> "requested" = "requested")
      BY <2>2, <3>3
    <3>5. e.requested = o.requested - One(s = "requested") + One("requested" = "requested")
      BY <1>2, <2>2, <3>1
    <3>6. e.writing = o.writing - One(s = "writing") + One("requested" = "writing")
      BY <1>2, <2>2, <3>1
    <3>7. e.finished = o.finished - One(s = "finished") + One("requested" = "finished")
      BY <1>2, <2>2, <3>1
    <3> QED BY <1>1, <2>2, <3>4, <3>5, <3>6, <3>7 DEF BlockMoved
  <2>5. InQueue(new, p, e)
    <3>1. /\ e.requested \in Nat /\ e.requested > 0 /\ e.writing \in Nat /\ e.finished \in Nat
      BY <1>2, <1>5, <2>2, <2>3 DEF One
    <3>2. InUse(e) > 0 /\ InUse(e) # 0
      BY <3>1 DEF InUse
    <3>3. QueueFor(new, p, e) = QueueFor(pk, p, e)
      BY <2>2 DEF QueueFor, SameBut
    <3>4. CASE s = "none"
      BY <2>2, <3>2, <3>3, <3>4 DEF InQueue
    <3>5. CASE s = "requested"
      <4>1. e.requested = o.requested
        BY <1>2, <2>2, <3>5 DEF One
      <4>2. InUse(e) = InUse(o) /\ QueueFor(pk, p, e) = QueueFor(pk, p, o)
        BY <2>2, <4>1 DEF InUse, QueueFor
      <4>3. o.queue = QueueFor(pk, p, o) /\ o.queue # "open"
        BY <1>3, <3>2, <4>2 DEF InQueue, QueueFor
      <4> QED BY <2>2, <3>2, <3>3, <3>5, <4>2, <4>3 DEF InQueue
    <3> QED BY <2>3, <3>4, <3>5
  <2>6. EntryAgrees(new, p)
    <3>1. "requested" \in BlockStates
      BY DEF BlockStates
    <3> QED BY <1>1, <2>2, <2>4, <2>5, <3>1, MovedAgrees DEF o, e, n
  <2>7. /\ StateOf(new, b) = "requested"
        /\ \A a \in Blocks : a[1] = p /\ a # b => StateOf(new, a) = StateOf(pk, a)
    BY <1>1, <2>2, SteadyMove DEF o, e
  <2>8. Steady(pk, new, p)
    BY <1>6, <2>6, <2>7 DEF Steady, s
  <2> QED BY <2>8 DEF new
<1>7. Steady(pk, abort_download(pk, b), p)
  <2> DEFINE new == abort_download(pk, b)
             e == new.dl[p]
  <2>1. CASE ~is_requested(pk, b)
    <3>1. new = pk
      BY <2>1 DEF abort_download
    <3> HIDE DEF new
    <3>2. Steady(pk, new, p)
      BY <3>1 DEF Steady
    <3> QED BY <3>2 DEF new
  <2>2. CASE is_requested(pk, b) /\ num_peers(pk, b) > 1
    <3>0. num_peers(pk, b) = o.num_peers[k]
      BY StateType DEF o
    <3>1. LessAsked(pk, b)
      BY <2>2, SharedAbort
    <3>2. /\ SameBut(pk, new, p) /\ e \in EntryType(p) /\ e.state = o.state
          /\ e.num_peers = [o.num_peers EXCEPT ![k] = o.num_peers[k] - 1]
          /\ e.requested = o.requested /\ e.writing = o.writing
          /\ e.finished = o.finished /\ e.queue = o.queue
      BY <3>1 DEF LessAsked, o
    <3> HIDE DEF new, e
    <3>3. s = "requested"
      BY <2>2 DEF is_requested, s
    <3>4. Exact(e) /\ InQueue(new, p, e)
      <4>1. InState(e, "requested") = InState(o, "requested") /\ InState(e, "writing") = InState(o, "writing")
            /\ InState(e, "finished") = InState(o, "finished")
        BY <3>2 DEF InState
      <4>2. InUse(e) = InUse(o) /\ QueueFor(new, p, e) = QueueFor(pk, p, o)
        BY <3>2 DEF InUse, QueueFor, SameBut
      <4> QED BY <1>3, <3>2, <4>1, <4>2 DEF Exact, InStates, InQueue
    <3>5. Owned(p, e)
      <4>0. o.num_peers[k] \in Nat /\ o.num_peers[k] > 1
        <5>1. o.num_peers[k] \in Nat
          BY <1>1, <1>2
        <5> QED BY <2>2, <3>0, <5>1
      <4>1. o.num_peers[k] - 1 > 0
        <5> DEFINE m == o.num_peers[k]
        <5> HIDE DEF m
        <5>1. m \in Nat /\ m > 1
          BY <4>0 DEF m
        <5>2. m - 1 > 0
          BY <5>1
        <5> QED BY <5>2 DEF m
      <4>2. ASSUME NEW l \in 1..n PROVE e.num_peers[l] > 0 <=> e.state[l] = "requested"
        <5>1. CASE l = k
          BY <1>1, <1>2, <3>2, <3>3, <4>1, <5>1
        <5>2. CASE l # k
          <6>1. e.num_peers[l] = o.num_peers[l]
            BY <1>2, <3>2, <5>2
          <6>2. o.num_peers[l] > 0 <=> o.state[l] = "requested"
            BY <1>3 DEF Owned, n
          <6> QED BY <3>2, <6>1, <6>2
        <5> QED BY <5>1, <5>2
      <4> QED BY <4>2 DEF Owned, n
    <3>6. EntryAgrees(new, p)
      BY <1>1, <3>2, <3>4, <3>5, AgreesMeaning DEF e
    <3>7. Steady(pk, new, p)
      BY <3>2, <3>6 DEF Steady, StateOf, e, o
    <3> QED BY <3>7 DEF new
  <2>3. CASE is_requested(pk, b) /\ ~(num_peers(pk, b) > 1)
    <3> DEFINE x == FreedEntry(pk, b)
    <3>1. GivenFree(pk, b)
      BY <2>3, LastAbort
    <3>2. /\ new = KeepInUse(pk, p, x) /\ x \in EntryType(p)
          /\ x.state = [o.state EXCEPT ![k] = "none"]
          /\ x.num_peers = [o.num_peers EXCEPT ![k] = 0]
          /\ x.requested = o.requested - 1 /\ x.writing = o.writing
          /\ x.finished = o.finished
      BY <3>1 DEF GivenFree, o
    <3> HIDE DEF new, x
    <3>3. s = "requested"
      BY <2>3 DEF is_requested, s
    <3>4. /\ Shape(new) /\ SameBut(pk, new, p)
          /\ InUse(x) = 0 => e = NoDownload(p)
          /\ InUse(x) > 0 =>
               /\ e \in EntryType(p)
               /\ e.state = x.state /\ e.num_peers = x.num_peers
               /\ e.requested = x.requested /\ e.writing = x.writing
               /\ e.finished = x.finished
               /\ e.queue = QueueFor(pk, p, e)
          /\ InUse(x) \in Nat
      BY <1>1, <3>2, KeptEntry
    <3> HIDE DEF e
    <3>5. Exact(x)
      <4>1. "none" \in BlockStates
        BY DEF BlockStates
      <4>2. \A t : /\ InStates(x, t) \in Nat /\ InStates(o, t) \in Nat
                   /\ InStates(x, t) = InStates(o, t) - One(o.state[k] = t) + One("none" = t)
        BY <1>1, <3>2, <4>1, StateCounts DEF n
      <4>3. /\ One(s = "requested") = 1 /\ One("none" = "requested") = 0
            /\ One(s = "writing") = 0 /\ One("none" = "writing") = 0
            /\ One(s = "finished") = 0 /\ One("none" = "finished") = 0
        BY <3>3 DEF One
      <4>4. /\ InStates(x, "requested") = InStates(o, "requested") - 1 + 0
            /\ InStates(x, "writing") = InStates(o, "writing") - 0 + 0
            /\ InStates(x, "finished") = InStates(o, "finished") - 0 + 0
            /\ InStates(o, "requested") \in Nat /\ InStates(o, "writing") \in Nat
            /\ InStates(o, "finished") \in Nat
        BY <1>1, <4>2, <4>3
      <4> QED BY <1>2, <1>3, <3>2, <4>4 DEF Exact
    <3>6. Owned(p, x)
      <4>1. ASSUME NEW l \in 1..n PROVE x.num_peers[l] > 0 <=> x.state[l] = "requested"
        <5>1. CASE l = k
          <6>1. x.num_peers[l] = 0 /\ x.state[l] = "none"
            BY <1>2, <3>2, <5>1
          <6> QED BY <6>1
        <5>2. CASE l # k
          <6>1. x.num_peers[l] = o.num_peers[l] /\ x.state[l] = o.state[l]
            BY <1>2, <3>2, <5>2
          <6>2. o.num_peers[l] > 0 <=> o.state[l] = "requested"
            BY <1>3 DEF Owned, n
          <6> QED BY <6>1, <6>2
        <5> QED BY <5>1, <5>2
      <4> QED BY <4>1 DEF Owned, n
    <3>7. /\ StateOf(new, b) # "writing" /\ EntryAgrees(new, p)
          /\ \A a \in Blocks : a[1] = p /\ a # b =>
               (StateOf(new, a) = "writing" <=> StateOf(pk, a) = "writing")
      <4>1. CASE InUse(x) > 0
        <5>1. InUse(e) = InUse(x) /\ InUse(e) # 0 /\ QueueFor(new, p, e) = QueueFor(pk, p, e)
          BY <3>4, <4>1 DEF InUse, QueueFor, SameBut
        <5>2. InQueue(new, p, e)
          BY <3>4, <4>1, <5>1 DEF InQueue
        <5>3. Exact(e) /\ Owned(p, e)
          BY <3>4, <3>5, <3>6, <4>1 DEF Exact, InStates, InState, Owned
        <5>4. EntryAgrees(new, p)
          BY <1>1, <3>4, <4>1, <5>2, <5>3, AgreesMeaning DEF e
        <5>5. new.dl[b[1]].state = [pk.dl[b[1]].state EXCEPT ![b[2]] = "none"]
          BY <3>2, <3>4, <4>1 DEF e, o
        <5>6. pk.dl[b[1]] \in EntryType(b[1])
          BY <1>1 DEF o
        <5>7. /\ StateOf(new, b) = "none"
              /\ \A a \in Blocks : a[1] = b[1] /\ a # b => StateOf(new, a) = StateOf(pk, a)
          BY <5>5, <5>6, SteadyMove
        <5> QED BY <5>4, <5>7
      <4>2. CASE InUse(x) = 0
        <5>1. e = NoDownload(p)
          BY <3>4, <4>2
        <5>2. /\ EntryAgrees(new, p)
              /\ \A a \in Blocks : a[1] = p => StateOf(new, a) = "none"
          BY <1>1, <5>1, AgreesEmpty DEF e
        <5>3. x.requested \in Nat /\ x.writing \in Nat /\ x.finished \in Nat
          BY <3>2, EntryDomain
        <5>4. x.requested = 0 /\ x.writing = 0 /\ x.finished = 0
          BY <4>2, <5>3 DEF InUse
        <5>5. \A l \in 1..n : o.state[l] # "writing"
          <6>1. InStates(o, "writing") = 0
            BY <1>3, <3>2, <5>4 DEF Exact
          <6>2. InState(o, "writing") = {} /\ InState(o, "writing") = {l \in 1..n : o.state[l] = "writing"}
            BY <1>1, <6>1, StateSum DEF n
          <6> QED BY <6>2
        <5>6. \A a \in Blocks : a[1] = p => StateOf(pk, a) # "writing"
          BY <5>5, BlockParts DEF StateOf, o, n
        <5> QED BY <5>2, <5>6
      <4> QED BY <3>4, <4>1, <4>2
    <3>8. Steady(pk, new, p)
      BY <3>3, <3>7 DEF Steady, s
    <3> QED BY <3>8 DEF new
  <2> QED BY <2>1, <2>2, <2>3
<1> QED BY <1>6, <1>7 DEF s

\* Only flags of the entry change.
LEMMA SteadyFlags ==
    ASSUME NEW pk, NEW new, NEW p \in Pieces, pk.dl[p] \in EntryType(p),
           SameBlocks(pk.dl[p], new.dl[p]), p \in new.filtered <=> p \in pk.filtered,
           EntryAgrees(pk, p)
    PROVE  Steady(pk, new, p)
<1>1. EntryAgrees(new, p)
  BY DEF EntryAgrees, SameBlocks, InState, InUse
<1>2. new.dl[p].state = pk.dl[p].state
  BY DEF SameBlocks
<1> QED BY <1>1, <1>2 DEF Steady, StateOf

\* set_piece_priority.
LEMMA SteadyPriority ==
    ASSUME NEW pk, PickerOk(pk), NEW new, PickerOk(new), NEW p \in Pieces,
           Preferred(pk, new, p), EntryAgrees(pk, p)
    PROVE  Steady(pk, new, p)
<1> DEFINE o == pk.dl[p]
           e == new.dl[p]
<1>1. /\ o \in EntryType(p) /\ e \in EntryType(p)
      /\ o.queue = "open" => o = NoDownload(p)
      /\ e.queue # "open" => InUse(e) > 0
  BY OldEntry DEF Downloading
<1>2. CASE new = pk
  BY <1>2 DEF Steady
<1>3. CASE o.queue = "open" /\ e = o
  <2>1. o = NoDownload(p) /\ e = NoDownload(p)
    BY <1>3, OldEntry DEF Downloading
  <2> QED BY <2>1, AgreesEmpty DEF Steady
<1>4. CASE /\ o.queue # "open"
           /\ e.state = o.state /\ e.num_peers = o.num_peers
           /\ e.requested = o.requested /\ e.writing = o.writing /\ e.finished = o.finished
           /\ e.queue = QueueFor(new, p, e)
  <2>1. Exact(o) /\ Owned(p, o)
    BY <1>1, AgreesMeaning
  <2>2. InUse(o) > 0 /\ InUse(e) = InUse(o)
    BY <1>4, OldEntry DEF Downloading, InUse
  <2> HIDE DEF o, e
  <2>3. Exact(e) /\ Owned(p, e)
    BY <1>4, <2>1 DEF Exact, Owned, InStates, InState
  <2>4. InQueue(new, p, e)
    BY <1>4, <2>2 DEF InQueue
  <2>5. EntryAgrees(new, p)
    BY <1>1, <2>3, <2>4, AgreesMeaning DEF e
  <2> QED BY <1>4, <2>5 DEF Steady, StateOf, o, e
<1> QED BY <1>2, <1>3, <1>4 DEF Preferred

\* A piece that is there, or starts anew: none of its blocks was being written.
LEMMA SteadyGone ==
    ASSUME NEW pk, NEW new, NEW p \in Pieces, new.dl[p] = NoDownload(p),
           \A b \in Blocks : b[1] = p => StateOf(pk, b) # "writing"
    PROVE  Steady(pk, new, p)
  BY AgreesEmpty DEF Steady

\* on_piece_sync makes a new entry from the requests that are open.
LEMMA SteadyRestart ==
    ASSUME PickerOk(picker), NEW p \in Pieces,
           \A b \in Blocks : b[1] = p => StateOf(picker, b) # "writing"
    PROVE  Steady(picker, RestoreAndRequest(p), p)
<1> DEFINE new == RestoreAndRequest(p)
           e == new.dl[p]
           n == blocks_in_piece(p)
           open == {k \in 1..n : Holders(<<p, k>>) # {}}
<1>1. Restarted(p)
  BY RestartedEntry
<1>2. /\ SameBut(picker, new, p) /\ e \in EntryType(p)
      /\ \A k \in 1..n :
             /\ e.state[k] = IF k \in open THEN "requested" ELSE "none"
             /\ e.num_peers[k] = Cardinality(Holders(<<p, k>>))
      /\ e.requested = Cardinality(open) /\ e.writing = 0 /\ e.finished = 0
      /\ e.queue = IF open = {} THEN "open" ELSE QueueFor(picker, p, e)
  BY <1>1 DEF Restarted
<1>3. \A s : InState(e, s) = {k \in 1..n : e.state[k] = s}
  BY <1>2, StateSum
<1>4. \A k \in 1..n : k \in open <=> Holders(<<p, k>>) # {}
  OBVIOUS
<1>5. open \subseteq 1..n
  OBVIOUS
<1> HIDE DEF new, e, n, open
<1>6. Exact(e)
  <2>1. InState(e, "requested") = open
    BY <1>2, <1>3, <1>5
  <2>2. InState(e, "writing") = {} /\ InState(e, "finished") = {}
    BY <1>2, <1>3
  <2> QED BY <1>2, <2>1, <2>2, FS_EmptySet DEF Exact, InStates
<1>7. Owned(p, e)
  <2>1. ASSUME NEW k \in 1..n PROVE e.num_peers[k] > 0 <=> e.state[k] = "requested"
    <3> DEFINE H == Holders(<<p, k>>)
    <3>1. IsFiniteSet(H)
      BY FlowAssumption, FS_Subset DEF Holders
    <3>2. Cardinality(H) \in Nat /\ (Cardinality(H) = 0 <=> H = {})
      BY <3>1, FS_EmptySet, FS_CardinalityType
    <3> HIDE DEF H
    <3>3. Cardinality(H) > 0 <=> H # {}
      BY <3>2
    <3> QED BY <1>2, <1>4, <2>1, <3>3 DEF H
  <2> QED BY <2>1 DEF Owned, n
<1>8. InQueue(new, p, e)
  <2>1. IsFiniteSet(open)
    <3>1. n \in Nat
      BY Layout DEF n
    <3>2. IsFiniteSet(1..n)
      BY <3>1, FS_Interval
    <3> QED BY <1>5, <3>2, FS_Subset
  <2>2. Cardinality(open) \in Nat /\ (Cardinality(open) = 0 <=> open = {})
    BY <2>1, FS_EmptySet, FS_CardinalityType
  <2>3. InUse(e) = Cardinality(open)
    BY <1>2, <2>2 DEF InUse
  <2>4. QueueFor(new, p, e) = QueueFor(picker, p, e)
    BY <1>2 DEF QueueFor, SameBut
  <2> QED BY <1>2, <2>2, <2>3, <2>4 DEF InQueue
<1>9. EntryAgrees(new, p)
  BY <1>2, <1>6, <1>7, <1>8, AgreesMeaning DEF e
<1>10. \A b \in Blocks : b[1] = p => StateOf(new, b) # "writing"
  <2>1. \A k \in 1..n : e.state[k] # "writing"
    BY <1>2
  <2> QED BY <2>1, BlockParts DEF StateOf, e, n
<1>11. Steady(picker, new, p)
  BY <1>9, <1>10 DEF Steady
<1> QED BY <1>11 DEF new

\* Block b alone goes to state v.
BlockTo(pk, new, b, v) ==
    /\ EntryAgrees(new, b[1])
    /\ StateOf(new, b) = v
    /\ \A a \in Blocks : a[1] = b[1] /\ a # b => StateOf(new, a) = StateOf(pk, a)

\* A block that has come, and one that is written.
LEMMA StoredBlocks ==
    ASSUME NEW pk, PickerOk(pk), NEW b \in Blocks, EntryAgrees(pk, b[1]), b[1] \notin pk.have
    PROVE  /\ StateOf(pk, b) \notin {"writing", "finished"} =>
                BlockTo(pk, mark_as_writing(pk, b), b, "writing")
           /\ StateOf(pk, b) = "writing" => BlockTo(pk, FinishedBlock(pk, b), b, "finished")
<1> DEFINE p == b[1]
           k == b[2]
           o == pk.dl[p]
           n == blocks_in_piece(p)
           s == StateOf(pk, b)
<1>1. /\ p \in Pieces /\ Shape(pk) /\ o \in EntryType(p) /\ k \in 1..n
      /\ s = o.state[k] /\ s \in BlockStates
  BY BlockParts, OldEntry, StateType
<1>2. /\ o.state \in [1..n -> BlockStates] /\ o.num_peers \in [1..n -> Nat]
      /\ o.requested \in Nat /\ o.writing \in Nat /\ o.finished \in Nat
  BY <1>1, EntryDomain
<1>3. Exact(o) /\ Owned(p, o) /\ InQueue(pk, p, o)
  BY <1>1, AgreesMeaning
<1>4. (s = "requested" => o.requested >= 1) /\ (s = "writing" => o.writing >= 1)
  BY CountedBlock
<1> HIDE DEF o, n, s
<1>5. ASSUME NEW new, NEW v \in BlockStates, SameBut(pk, new, p), new.dl[p] \in EntryType(p),
             BlockMoved(p, o, new.dl[p], k, v),
             new.dl[p].queue = QueueFor(pk, p, new.dl[p]), InUse(new.dl[p]) # 0
      PROVE  BlockTo(pk, new, b, v)
  <2>1. InQueue(new, p, new.dl[p])
    BY <1>5 DEF InQueue, QueueFor, SameBut
  <2>2. EntryAgrees(new, p)
    BY <1>1, <1>5, <2>1, MovedAgrees DEF o, n
  <2>3. new.dl[b[1]].state = [pk.dl[b[1]].state EXCEPT ![b[2]] = v]
    BY <1>5 DEF BlockMoved, o
  <2>4. /\ StateOf(new, b) = v
        /\ \A a \in Blocks : a[1] = b[1] /\ a # b => StateOf(new, a) = StateOf(pk, a)
    BY <1>1, <2>3, SteadyMove DEF o
  <2> QED BY <2>2, <2>4 DEF BlockTo
<1>6. ASSUME s \notin {"writing", "finished"} PROVE BlockTo(pk, mark_as_writing(pk, b), b, "writing")
  <2> DEFINE new == mark_as_writing(pk, b)
             e == new.dl[p]
  <2>1. BeingWritten(pk, b)
    BY <1>6, WritingEntry DEF s
  <2>2. /\ SameBut(pk, new, p) /\ e \in EntryType(p)
        /\ e.state = [o.state EXCEPT ![k] = "writing"]
        /\ e.num_peers = [o.num_peers EXCEPT ![k] = 0]
        /\ e.requested = o.requested - One(s = "requested")
        /\ e.writing = o.writing + 1 /\ e.finished = o.finished
        /\ e.queue = QueueFor(pk, p, e)
    BY <2>1 DEF BeingWritten, o, s
  <2> HIDE DEF new, e
  <2>3. /\ One(s = "requested") \in {0, 1} /\ One("writing" = "requested") = 0
        /\ One(s = "writing") = 0 /\ One("writing" = "writing") = 1
        /\ One(s = "finished") = 0 /\ One("writing" = "finished") = 0
    BY <1>6 DEF One
  <2>4. BlockMoved(p, o, e, k, "writing")
    <3>1. 0 \in Nat /\ (0 > 0 <=> "writing" = "requested")
      OBVIOUS
    <3>2. \E m \in Nat : e.num_peers = [o.num_peers EXCEPT ![k] = m] /\ (m > 0 <=> "writing" = "requested")
      BY <2>2, <3>1
    <3>3. e.requested = o.requested - One(s = "requested") + One("writing" = "requested")
      BY <1>2, <2>2, <2>3
    <3>4. e.writing = o.writing - One(s = "writing") + One("writing" = "writing")
      BY <1>2, <2>2, <2>3
    <3>5. e.finished = o.finished - One(s = "finished") + One("writing" = "finished")
      BY <1>2, <2>2, <2>3
    <3> QED BY <1>1, <2>2, <3>2, <3>3, <3>4, <3>5 DEF BlockMoved
  <2>5. InUse(e) # 0
    <3>1. e.requested \in Nat /\ e.writing \in Nat /\ e.finished \in Nat
      BY <2>2, EntryDomain
    <3>2. e.writing >= 1
      BY <1>2, <2>2
    <3> QED BY <3>1, <3>2 DEF InUse
  <2>6. "writing" \in BlockStates
    BY DEF BlockStates
  <2>7. BlockTo(pk, new, b, "writing")
    BY <1>5, <2>2, <2>4, <2>5, <2>6 DEF e
  <2> QED BY <2>7 DEF new
<1>7. ASSUME s = "writing" PROVE BlockTo(pk, FinishedBlock(pk, b), b, "finished")
  <2> DEFINE new == FinishedBlock(pk, b)
             e == new.dl[p]
  <2>1. Written(pk, b)
    BY <1>7, FinishedEntry DEF s
  <2>2. /\ SameBut(pk, new, p) /\ e \in EntryType(p)
        /\ e.state = [o.state EXCEPT ![k] = "finished"]
        /\ e.num_peers = o.num_peers /\ e.requested = o.requested
        /\ e.writing = o.writing - One(s = "writing")
        /\ e.finished = o.finished + 1
        /\ e.queue = QueueFor(pk, p, e)
    BY <2>1 DEF Written, o, s
  <2> HIDE DEF new, e
  <2>3. /\ One(s = "requested") = 0 /\ One("finished" = "requested") = 0
        /\ One(s = "writing") = 1 /\ One("finished" = "writing") = 0
        /\ One(s = "finished") = 0 /\ One("finished" = "finished") = 1
    BY <1>7 DEF One
  <2>4. BlockMoved(p, o, e, k, "finished")
    <3>1. /\ o.num_peers[k] \in Nat /\ o.num_peers = [o.num_peers EXCEPT ![k] = o.num_peers[k]]
          /\ o.num_peers[k] > 0 <=> s = "requested"
      BY <1>1, <1>2, <1>3 DEF Owned, n
    <3>2. \E m \in Nat : e.num_peers = [o.num_peers EXCEPT ![k] = m] /\ (m > 0 <=> "finished" = "requested")
      BY <1>7, <2>2, <3>1
    <3>3. e.requested = o.requested - One(s = "requested") + One("finished" = "requested")
      BY <1>2, <2>2, <2>3
    <3>4. e.writing = o.writing - One(s = "writing") + One("finished" = "writing")
      BY <1>2, <1>4, <1>7, <2>2, <2>3
    <3>5. e.finished = o.finished - One(s = "finished") + One("finished" = "finished")
      BY <1>2, <2>2, <2>3
    <3> QED BY <1>1, <2>2, <3>2, <3>3, <3>4, <3>5 DEF BlockMoved
  <2>5. InUse(e) # 0
    <3>1. e.requested \in Nat /\ e.writing \in Nat /\ e.finished \in Nat
      BY <2>2, EntryDomain
    <3>2. e.finished >= 1
      BY <1>2, <2>2
    <3> QED BY <3>1, <3>2 DEF InUse
  <2>6. "finished" \in BlockStates
    BY DEF BlockStates
  <2>7. BlockTo(pk, new, b, "finished")
    BY <1>5, <2>2, <2>4, <2>5, <2>6 DEF e
  <2> QED BY <2>7 DEF new
<1> QED BY <1>6, <1>7 DEF s

\* The writes of block b that are on the way.
WritesOf(js, b) ==
    {k \in 1..Len(js) : js[k].kind = "write" /\ js[k].piece = b[1] /\ js[k].block = b}

\* The check of piece p stands behind its writes.
Ordered(js, p) ==
    \A k \in Checks(js, p) : \A l \in 1..Len(js) :
        js[l].kind = "write" /\ js[l].piece = p => l < k

Tracked(pk, js, p) ==
    /\ EntryAgrees(pk, p)
    /\ \A b \in Blocks : b[1] = p =>
         /\ StateOf(pk, b) = "writing" <=> WritesOf(js, b) # {}
         /\ \A k, l \in WritesOf(js, b) : k = l
    /\ Ordered(js, p)

AllTracked == \A p \in Pieces : p \notin late /\ p \notin failed => Tracked(picker, jobs, p)

\* The writes of a block that are left when job i is handled.
LEMMA WritesFrom ==
    ASSUME JobsOk, NEW i \in 0..Len(jobs), From(jobs, jobs', i), NEW b,
           \A k \in 1..Len(jobs') : k > Left(jobs, i) => k \notin WritesOf(jobs', b)
    PROVE  /\ WritesOf(jobs', b) # {} <=> WritesOf(jobs, b) \ {i} # {}
           /\ (\A k, l \in WritesOf(jobs, b) : k = l) => \A k, l \in WritesOf(jobs', b) : k = l
<1>1. /\ Left(jobs, i) \in Nat
      /\ \A k \in 1..Left(jobs, i) : Was(i, k) \in 1..Len(jobs) /\ Was(i, k) # i
      /\ \A k, l \in 1..Left(jobs, i) : k # l => Was(i, k) # Was(i, l)
      /\ \A m \in 1..Len(jobs) : m # i => \E k \in 1..Left(jobs, i) : Was(i, k) = m
  BY WasOrder DEF JobsOk
<1>2. Left(jobs, i) <= Len(jobs') /\ \A k \in 1..Left(jobs, i) : SameJob(jobs'[k], jobs[Was(i, k)])
  BY DEF From
<1>3. ASSUME NEW k \in WritesOf(jobs', b)
      PROVE  k \in 1..Left(jobs, i) /\ Was(i, k) \in WritesOf(jobs, b) \ {i}
  <2>1. k \in 1..Len(jobs') /\ jobs'[k].kind = "write" /\ jobs'[k].piece = b[1] /\ jobs'[k].block = b
    BY DEF WritesOf
  <2>2. k \in 1..Left(jobs, i)
    BY <1>1, <2>1
  <2>3. /\ jobs[Was(i, k)].kind = "write" /\ jobs[Was(i, k)].piece = b[1]
        /\ jobs[Was(i, k)].block = b
    BY <1>2, <2>1, <2>2 DEF SameJob
  <2> QED BY <1>1, <2>2, <2>3 DEF WritesOf
<1>4. ASSUME NEW m \in WritesOf(jobs, b), m # i
      PROVE  WritesOf(jobs', b) # {}
  <2>1. m \in 1..Len(jobs) /\ jobs[m].kind = "write" /\ jobs[m].piece = b[1] /\ jobs[m].block = b
    BY DEF WritesOf
  <2>2. PICK k \in 1..Left(jobs, i) : Was(i, k) = m
    BY <1>1, <1>4, <2>1
  <2>3. jobs'[k].kind = "write" /\ jobs'[k].piece = b[1] /\ jobs'[k].block = b
    BY <1>2, <2>1, <2>2 DEF SameJob
  <2>4. k \in 1..Len(jobs')
    BY <1>1, <1>2, <2>2
  <2> QED BY <2>3, <2>4 DEF WritesOf
<1>5. ASSUME \A k, l \in WritesOf(jobs, b) : k = l,
             NEW k \in WritesOf(jobs', b), NEW l \in WritesOf(jobs', b)
      PROVE  k = l
  <2>1. Was(i, k) = Was(i, l) /\ k \in 1..Left(jobs, i) /\ l \in 1..Left(jobs, i)
    BY <1>3, <1>5
  <2> QED BY <1>1, <2>1
<1> QED BY <1>3, <1>4, <1>5

\* A check that comes stands behind all writes.
LEMMA OrderFrom ==
    ASSUME JobsOk, NEW i \in 0..Len(jobs), From(jobs, jobs', i), NEW p,
           \A k \in 1..Len(jobs') :
               k > Left(jobs, i) => ~(jobs'[k].kind = "write" /\ jobs'[k].piece = p),
           Ordered(jobs, p)
    PROVE  Ordered(jobs', p)
<1> SUFFICES ASSUME NEW k \in Checks(jobs', p), NEW l \in 1..Len(jobs'),
                    jobs'[l].kind = "write", jobs'[l].piece = p
             PROVE  l < k
  BY DEF Ordered
<1>1. /\ Left(jobs, i) \in Nat
      /\ \A m \in 1..Left(jobs, i) : Was(i, m) \in 1..Len(jobs)
      /\ \A m, n \in 1..Left(jobs, i) : m < n <=> Was(i, m) < Was(i, n)
  BY WasOrder DEF JobsOk
<1>2. k \in 1..Len(jobs')
  BY DEF Checks
<1>3. l \in 1..Left(jobs, i)
  BY <1>1
<1>4. CASE k > Left(jobs, i)
  BY <1>1, <1>2, <1>3, <1>4
<1>5. CASE ~(k > Left(jobs, i))
  <2>1. k \in 1..Left(jobs, i) /\ Was(i, k) \in Checks(jobs, p)
    BY <1>5, OldCheck
  <2>2. jobs[Was(i, l)].kind = "write" /\ jobs[Was(i, l)].piece = p
    BY <1>3 DEF From, SameJob
  <2>3. Was(i, l) < Was(i, k)
    BY <1>1, <1>3, <2>1, <2>2 DEF Ordered
  <2> QED BY <1>1, <1>3, <2>1, <2>3
<1> QED BY <1>4, <1>5

\* No block begins or ends to be written, no write comes or is handled.
LEMMA TrackedSteady ==
    ASSUME JobsOk, NEW i \in 0..Len(jobs), From(jobs, jobs', i), NEW p \in Pieces,
           \A k \in 1..Len(jobs') :
               k > Left(jobs, i) => ~(jobs'[k].kind = "write" /\ jobs'[k].piece = p),
           i # 0 => ~(jobs[i].kind = "write" /\ jobs[i].piece = p),
           Steady(picker, picker', p), Tracked(picker, jobs, p)
    PROVE  Tracked(picker', jobs', p)
<1>1. Ordered(jobs', p)
  BY OrderFrom DEF Tracked
<1>2. ASSUME NEW b \in Blocks, b[1] = p
      PROVE  /\ StateOf(picker', b) = "writing" <=> WritesOf(jobs', b) # {}
             /\ \A k, l \in WritesOf(jobs', b) : k = l
  <2>1. \A k \in 1..Len(jobs') : k > Left(jobs, i) => k \notin WritesOf(jobs', b)
    BY <1>2 DEF WritesOf
  <2>2. i \notin WritesOf(jobs, b)
    BY <1>2 DEF WritesOf
  <2>3. /\ WritesOf(jobs', b) # {} <=> WritesOf(jobs, b) \ {i} # {}
        /\ (\A k, l \in WritesOf(jobs, b) : k = l) => \A k, l \in WritesOf(jobs', b) : k = l
    BY <2>1, WritesFrom
  <2>4. WritesOf(jobs, b) \ {i} = WritesOf(jobs, b)
    BY <2>2
  <2>5. /\ StateOf(picker, b) = "writing" <=> WritesOf(jobs, b) # {}
        /\ \A k, l \in WritesOf(jobs, b) : k = l
    BY <1>2 DEF Tracked
  <2>6. StateOf(picker', b) = "writing" <=> StateOf(picker, b) = "writing"
    BY <1>2 DEF Steady
  <2> QED BY <2>3, <2>4, <2>5, <2>6
<1>3. EntryAgrees(picker', p)
  BY DEF Steady
<1> QED BY <1>1, <1>2, <1>3 DEF Tracked

\* It is enough to look at the piece the step concerns.
LEMMA TrackedStep ==
    ASSUME FlowOk, AllTracked, NEW q, NEW i, Frame(q, i),
           q \notin late' /\ q \notin failed' => Tracked(picker', jobs', q)
    PROVE  AllTracked'
<1>1. /\ late \subseteq late' /\ failed \subseteq failed' /\ JobsOk
      /\ i \in 0..Len(jobs) /\ From(jobs, jobs', i)
  BY DEF Frame, FlowOk
<1>2. ASSUME NEW p \in Pieces, p \notin late', p \notin failed', p # q
      PROVE  Tracked(picker', jobs', p)
  <2>1. Tracked(picker, jobs, p)
    BY <1>1, <1>2 DEF AllTracked
  <2>2. SamePiece(picker, picker', p)
    BY <1>2 DEF Frame, OnlyPiece
  <2>3. Steady(picker, picker', p)
    <3>1. EntryAgrees(picker', p)
      BY <2>1, <2>2 DEF Tracked, EntryAgrees, SamePiece
    <3> QED BY <2>2, <3>1 DEF Steady, StateOf, SamePiece
  <2>4. /\ \A k \in 1..Len(jobs') :
               k > Left(jobs, i) => ~(jobs'[k].kind = "write" /\ jobs'[k].piece = p)
        /\ i # 0 => ~(jobs[i].kind = "write" /\ jobs[i].piece = p)
    BY <1>2 DEF Frame
  <2> QED BY <1>1, <2>1, <2>3, <2>4, TrackedSteady
<1> QED BY <1>2 DEF AllTracked

\* A step without writes.
LEMMA TrackedQuiet ==
    ASSUME FlowOk, AllTracked, NEW q, NEW i, Frame(q, i),
           \A k \in 1..Len(jobs') : k > Left(jobs, i) => jobs'[k].kind # "write",
           i # 0 => jobs[i].kind # "write",
           q \notin late' /\ q \notin failed' => Steady(picker, picker', q)
    PROVE  AllTracked'
<1>1. /\ late \subseteq late' /\ failed \subseteq failed' /\ JobsOk
      /\ i \in 0..Len(jobs) /\ From(jobs, jobs', i) /\ q \in Pieces
  BY DEF Frame, FlowOk
<1>2. ASSUME q \notin late', q \notin failed' PROVE Tracked(picker', jobs', q)
  <2>1. Tracked(picker, jobs, q) /\ Steady(picker, picker', q)
    BY <1>1, <1>2 DEF AllTracked
  <2> QED BY <1>1, <2>1, TrackedSteady
<1> QED BY <1>2, TrackedStep

\* A block that has come is the only new write of its piece, and its hash job,
\* if it completes the piece, stands behind it.
LEMMA TrackedReceived ==
    ASSUME FlowOk, Checked, AllTracked, NEW c \in Peers, NEW b \in Blocks, NEW data \in Data,
           Received(c, b, data), Frame(b[1], 0)
    PROVE  AllTracked'
<1> DEFINE p == b[1]
           n == Len(jobs)
           pk == mark_as_writing(picker, b)
           complete == is_piece_finished(pk, b[1]) /\ ~is_piece_finished(picker, b[1])
<1>1. /\ PickerOk(picker) /\ JobsOk /\ p \in Pieces /\ n \in Nat
      /\ picker.dl[p] \in EntryType(p)
  BY BlockParts, OldEntry DEF FlowOk, JobsOk
<1>2. /\ jobs' = Append(jobs, WriteJob(b, data)) \o VerifyIfComplete(b[1], pk)
      /\ late' = late /\ failed' = failed /\ picker' = pk
      /\ p \notin picker.have /\ StateOf(picker, b) \notin {"writing", "finished"}
  BY DEF Received, history, is_downloaded
<1> HIDE DEF pk
<1>3. /\ Len(jobs') = n + 1 + One(complete)
      /\ \A k \in 1..n : jobs'[k] = jobs[k]
      /\ jobs'[n + 1] = WriteJob(b, data)
      /\ complete => jobs'[n + 2] = PieceJob("hash", p)
  BY <1>1, <1>2, ReceivedFrom
<1> HIDE DEF complete
<1>4. /\ WriteJob(b, data).kind = "write" /\ WriteJob(b, data).piece = p
      /\ WriteJob(b, data).block = b /\ PieceJob("hash", p).kind = "hash"
  BY DEF WriteJob, PieceJob
<1>5. /\ n + 1 \in 1..Len(jobs') /\ \A k \in 1..n : k \in 1..Len(jobs')
      /\ \A k \in 1..Len(jobs') : k \in 1..n \/ k = n + 1 \/ (complete /\ k = n + 2)
  <2>1. CASE complete
    <3>1. Len(jobs') = n + 2
      BY <1>1, <1>3, <2>1 DEF One
    <3> QED BY <1>1, <2>1, <3>1
  <2>2. CASE ~complete
    <3>1. Len(jobs') = n + 1
      BY <1>1, <1>3, <2>2 DEF One
    <3> QED BY <1>1, <3>1
  <2> QED BY <2>1, <2>2
<1>6. ASSUME NEW k \in 1..Len(jobs'), jobs'[k].kind = "write"
      PROVE  k = n + 1 \/ (k \in 1..n /\ jobs'[k] = jobs[k])
  BY <1>3, <1>4, <1>5, <1>6
<1>7. ASSUME p \notin late, p \notin failed PROVE Tracked(picker', jobs', p)
  <2>1. Tracked(picker, jobs, p) /\ Passing(picker, jobs, p)
    BY <1>1, <1>7 DEF AllTracked, Checked
  <2>2. BlockTo(picker, picker', b, "writing")
    BY <1>1, <1>2, <2>1, StoredBlocks DEF Tracked, pk
  <2>3. Checks(jobs, p) = {}
    <3>1. Exact(picker.dl[p])
      BY <1>1, <2>1, AgreesMeaning DEF Tracked
    <3>2. ~Complete(picker, p)
      <4>1. b[2] \in 1..blocks_in_piece(p) /\ picker.dl[p].state[b[2]] \notin {"writing", "finished"}
        BY <1>2, BlockParts DEF StateOf
      <4> QED BY <1>1, <3>1, <4>1, CompleteBlocks DEF Complete
    <3> QED BY <2>1, <3>2 DEF Passing
  <2>4. Ordered(jobs', p)
    <3>1. ASSUME NEW k \in Checks(jobs', p), NEW l \in 1..Len(jobs'), jobs'[l].kind = "write"
          PROVE  l < k
      <4>1. k \in 1..Len(jobs') /\ jobs'[k].piece = p /\ jobs'[k].kind \in {"hash", "clear"}
        BY DEF Checks
      <4>2. k \notin 1..n
        <5>1. ASSUME k \in 1..n PROVE FALSE
          <6>1. k \in Checks(jobs, p)
            BY <1>3, <4>1, <5>1 DEF Checks
          <6> QED BY <2>3, <6>1
        <5> QED BY <5>1
      <4>3. k # n + 1
        BY <1>3, <1>4, <4>1
      <4>4. k = n + 2
        BY <1>5, <4>1, <4>2, <4>3
      <4>5. l = n + 1 \/ l \in 1..n
        BY <1>6, <3>1
      <4> QED BY <1>1, <4>4, <4>5
    <3> QED BY <3>1 DEF Ordered
  <2>5. ASSUME NEW a \in Blocks, a[1] = p
        PROVE  /\ StateOf(picker', a) = "writing" <=> WritesOf(jobs', a) # {}
               /\ \A k, l \in WritesOf(jobs', a) : k = l
    <3>1. /\ StateOf(picker, a) = "writing" <=> WritesOf(jobs, a) # {}
          /\ \A k, l \in WritesOf(jobs, a) : k = l
      BY <2>1, <2>5 DEF Tracked
    <3>2. CASE a = b
      <4>1. WritesOf(jobs, b) = {}
        BY <1>2, <3>1, <3>2
      <4>2. WritesOf(jobs', b) = {n + 1}
        <5>1. n + 1 \in WritesOf(jobs', b)
          BY <1>3, <1>4, <1>5 DEF WritesOf
        <5>2. ASSUME NEW k \in WritesOf(jobs', b) PROVE k = n + 1
          <6>1. k \in 1..Len(jobs') /\ jobs'[k].kind = "write" /\ jobs'[k].piece = b[1] /\ jobs'[k].block = b
            BY DEF WritesOf
          <6>2. ASSUME k \in 1..n, jobs'[k] = jobs[k] PROVE FALSE
            <7>1. k \in WritesOf(jobs, b)
              BY <6>1, <6>2 DEF WritesOf
            <7> QED BY <4>1, <7>1
          <6> QED BY <1>6, <6>1, <6>2
        <5> QED BY <5>1, <5>2
      <4>3. StateOf(picker', b) = "writing"
        BY <2>2 DEF BlockTo
      <4> QED BY <3>2, <4>2, <4>3
    <3>3. CASE a # b
      <4>1. WritesOf(jobs', a) = WritesOf(jobs, a)
        <5>1. ASSUME NEW k \in WritesOf(jobs', a) PROVE k \in WritesOf(jobs, a)
          <6>1. k \in 1..Len(jobs') /\ jobs'[k].kind = "write" /\ jobs'[k].piece = a[1] /\ jobs'[k].block = a
            BY DEF WritesOf
          <6>2. k # n + 1
            BY <1>3, <1>4, <3>3, <6>1
          <6>3. k \in 1..n /\ jobs'[k] = jobs[k]
            BY <1>6, <6>1, <6>2
          <6> QED BY <6>1, <6>3 DEF WritesOf
        <5>2. ASSUME NEW k \in WritesOf(jobs, a) PROVE k \in WritesOf(jobs', a)
          BY <1>3, <1>5 DEF WritesOf
        <5> QED BY <5>1, <5>2
      <4>2. StateOf(picker', a) = StateOf(picker, a)
        BY <2>2, <2>5, <3>3 DEF BlockTo
      <4> QED BY <3>1, <4>1, <4>2
    <3> QED BY <3>2, <3>3
  <2>6. EntryAgrees(picker', p)
    BY <2>2 DEF BlockTo
  <2> QED BY <2>4, <2>5, <2>6 DEF Tracked
<1> QED BY <1>2, <1>7, TrackedStep

\* Steps of the peers.
LEMMA TrackedPeers ==
    ASSUME FlowOk, Checked, AllTracked, NEW c \in Peers, NEW b \in Blocks
    PROVE  /\ add_request(c, b) => AllTracked'
           /\ incoming_piece(c, b) => AllTracked'
           /\ GiveUp(c, b) => AllTracked'
           /\ snub_peer(c, b) => AllTracked'
<1> DEFINE p == b[1]
<1>1. /\ PickerOk(picker) /\ JobsOk /\ p \in Pieces
      /\ p \notin late /\ p \notin failed => EntryAgrees(picker, p)
  BY BlockParts DEF FlowOk, AllTracked, Tracked
<1>2. ASSUME jobs' = jobs, late' = late, failed' = failed, Frame(p, 0),
             p \notin late /\ p \notin failed => Steady(picker, picker', p)
      PROVE  AllTracked'
  <2>1. \A k \in 1..Len(jobs') : ~(k > Left(jobs, 0))
    BY <1>1, <1>2, SameJobs
  <2> QED BY <1>2, <2>1, TrackedQuiet
<1>3. ASSUME add_request(c, b) PROVE AllTracked'
  <2>1. /\ jobs' = jobs /\ late' = late /\ failed' = failed
        /\ picker' = mark_as_downloading(picker, b)
        /\ StateOf(picker, b) \notin {"writing", "finished"}
    BY <1>3 DEF add_request, history, is_requested
  <2> QED BY <1>1, <1>2, <1>3, <2>1, PeerFrames, SteadyBlocks
<1>4. ASSUME incoming_piece(c, b) PROVE AllTracked'
  <2>1. Frame(p, 0)
    BY <1>4, PeerFrames
  <2>2. CASE Redundant(c, b)
    BY <1>1, <1>2, <2>1, <2>2 DEF Redundant, history, Steady
  <2>3. ASSUME NEW data \in Data, Received(c, b, data) PROVE AllTracked'
    BY <2>1, <2>3, TrackedReceived
  <2> QED BY <1>4, <2>2, <2>3 DEF incoming_piece
<1>5. ASSUME GiveUp(c, b) PROVE AllTracked'
  <2>1. /\ jobs' = jobs /\ late' = late /\ failed' = failed
        /\ picker' \in {picker, abort_download(picker, b)}
    BY <1>5 DEF GiveUp, history
  <2>2. p \notin late /\ p \notin failed => Steady(picker, picker', p)
    BY <1>1, <2>1, SteadyBlocks DEF Steady
  <2> QED BY <1>2, <1>5, <2>1, <2>2, PeerFrames
<1>6. ASSUME snub_peer(c, b) PROVE AllTracked'
  <2>1. /\ jobs' = jobs /\ late' = late /\ failed' = failed
        /\ picker' = abort_download(picker, b)
    BY <1>6 DEF snub_peer, history
  <2> QED BY <1>1, <1>2, <1>6, <2>1, PeerFrames, SteadyBlocks
<1> QED BY <1>3, <1>4, <1>5, <1>6

\* A change of priority.
LEMMA TrackedPriority ==
    ASSUME FlowOk, AllTracked, PickerOk(picker'), NEW w, NEW p \in Pieces, PrioritizePiece(w, p),
           jobs' = jobs, late' = late, failed' = failed
    PROVE  AllTracked'
<1>1. PickerOk(picker) /\ JobsOk
  BY DEF FlowOk
<1>2. Frame(p, 0) /\ Preferred(picker, picker', p)
  BY PriorityFrame
<1>3. \A k \in 1..Len(jobs') : ~(k > Left(jobs, 0))
  BY <1>1, SameJobs
<1>4. p \notin late /\ p \notin failed => Steady(picker, picker', p)
  BY <1>1, <1>2, SteadyPriority DEF AllTracked, Tracked
<1> QED BY <1>2, <1>3, <1>4, TrackedQuiet

\* The disk threads.
LEMMA TrackedDisk ==
    ASSUME FlowOk, AllTracked, NEW i \in 1..Len(jobs), perform_job(i)
    PROVE  AllTracked'
<1>1. JobsOk /\ Len(jobs) \in Nat /\ 0 \in Pieces
  BY Layout DEF FlowOk, JobsOk, Pieces
<1>2. Len(jobs') = Len(jobs) /\ picker' = picker /\ late' = late /\ failed' = failed
  BY <1>1, PerformedFrom DEF perform_job, history
<1>3. Frame(0, 0)
  BY <1>1, DiskFrame
<1>4. \A k \in 1..Len(jobs') : ~(k > Left(jobs, 0))
  BY <1>1, <1>2 DEF Left
<1>5. 0 \notin late /\ 0 \notin failed => Steady(picker, picker', 0)
  BY <1>1, <1>2 DEF AllTracked, Tracked, Steady
<1> QED BY <1>2, <1>3, <1>4, <1>5, TrackedQuiet

\* No handler issues a write.
LEMMA HandlerIssues ==
    ASSUME FlowOk, NEW i \in 1..Len(jobs), call_job_handler(i)
    PROVE  \A k \in 1..Len(jobs') : k > Left(jobs, i) => jobs'[k].kind # "write"
<1> DEFINE p == jobs[i].piece
<1>1. JobsOk /\ p \in Pieces /\ Len(jobs) \in Nat
  BY JobAt DEF FlowOk, JobsOk
<1>2. PICK new \in {<<>>, <<PieceJob("clear", p)>>, <<PieceJob("clear_failed", p)>>} : Handled(i, new)
  BY DEF call_job_handler, on_disk_write_complete, WriteOk, WriteError, on_piece_verified,
         HashError, HashResult, piece_failed, on_piece_sync, on_piece_fail_sync
<1>3. /\ PieceJob("clear", p) \in AllJobs /\ PieceJob("clear_failed", p) \in AllJobs
      /\ PieceJob("clear", p).kind # "write" /\ PieceJob("clear_failed", p).kind # "write"
  BY <1>1, NewJobs DEF PieceJob
<1>4. new \in Seq(AllJobs) /\ Len(new) \in Nat /\ \A k \in 1..Len(new) : new[k].kind # "write"
  <2>1. ASSUME NEW j \in AllJobs, j.kind # "write"
        PROVE  /\ <<j>> \in Seq(AllJobs) /\ Len(<<j>>) \in Nat
               /\ \A k \in 1..Len(<<j>>) : <<j>>[k].kind # "write"
    <3>1. Len(<<j>>) = 1 /\ \A k \in 1..1 : k = 1 /\ <<j>>[1] = j
      OBVIOUS
    <3> QED BY <2>1, <3>1
  <2>2. CASE new = <<>>
    BY <2>2
  <2> QED BY <1>2, <1>3, <2>1, <2>2
<1>5. /\ Len(jobs') = Len(jobs) - 1 + Len(new)
      /\ Left(jobs, i) = Len(jobs) - 1
      /\ \A k \in 1..Len(new) : jobs'[Len(jobs) - 1 + k] = new[k]
  BY <1>1, <1>2, <1>4, HandledFrom
<1>6. ASSUME NEW k \in 1..Len(jobs'), k > Left(jobs, i) PROVE jobs'[k].kind # "write"
  <2> DEFINE m == k - (Len(jobs) - 1)
  <2>1. m \in 1..Len(new) /\ Len(jobs) - 1 + m = k
    BY <1>1, <1>4, <1>5, <1>6
  <2> HIDE DEF m
  <2> QED BY <1>4, <1>5, <2>1
<1> QED BY <1>6

\* All blocks of a piece are written: none is being written.
LEMMA AllWritten ==
    ASSUME NEW pk, NEW p \in Pieces, pk.dl[p] \in EntryType(p), EntryAgrees(pk, p),
           pk.dl[p].finished >= blocks_in_piece(p)
    PROVE  \A b \in Blocks : b[1] = p => StateOf(pk, b) = "finished"
<1>1. Exact(pk.dl[p])
  BY AgreesMeaning
<1>2. \A k \in 1..blocks_in_piece(p) : pk.dl[p].state[k] = "finished"
  BY <1>1, CompleteBlocks
<1> QED BY <1>2, BlockParts DEF StateOf

\* Write jobs: the block is not writing any more, and no other write of it is left.
LEMMA TrackedWritten ==
    ASSUME FlowOk, Checked, AllTracked, NEW i \in 1..Len(jobs), call_job_handler(i),
           on_disk_write_complete(i)
    PROVE  AllTracked'
<1> DEFINE b == jobs[i].block
           p == jobs[i].piece
<1>1. /\ PickerOk(picker) /\ JobsOk /\ p \in Pieces /\ b \in Blocks /\ b[1] = p
      /\ jobs[i].kind = "write"
      /\ Frame(p, i) /\ i \in 0..Len(jobs) /\ From(jobs, jobs', i)
      /\ picker.dl[p] \in EntryType(p)
  BY JobAt, HandlerFrame, OldEntry DEF FlowOk, on_disk_write_complete, Frame
<1>2. CASE WriteError(i)
  <2>1. p \in failed'
    BY <1>2 DEF WriteError
  <2> QED BY <1>1, <2>1, TrackedStep
<1>3. CASE WriteOk(i)
  <2>1. picker' = mark_as_finished(picker, b) /\ failed' = failed /\ late \subseteq late'
    BY <1>1, <1>3 DEF WriteOk, Frame
  <2>2. \A k \in 1..Len(jobs') : k > Left(jobs, i) => jobs'[k].kind # "write"
    BY HandlerIssues
  <2>3. ASSUME p \notin late', p \notin failed PROVE Tracked(picker', jobs', p)
    <3>1. Tracked(picker, jobs, p) /\ Sane(picker, p)
      BY <1>1, <2>1, <2>3 DEF AllTracked, Checked, Passing
    <3>2. i \in WritesOf(jobs, b)
      BY <1>1 DEF WritesOf
    <3>3. StateOf(picker, b) = "writing" /\ \A k \in WritesOf(jobs, b) : k = i
      BY <1>1, <3>1, <3>2 DEF Tracked
    <3>4. p \notin picker.have
      <4>1. ASSUME p \in picker.have PROVE FALSE
        <5>1. StateOf(picker, b) = "none"
          BY <1>1, <3>1, <4>1, AgreesEmpty DEF Sane
        <5> QED BY <3>3, <5>1
      <4> QED BY <4>1
    <3> DEFINE new == FinishedBlock(picker, b)
    <3>5. BlockTo(picker, new, b, "finished")
      BY <1>1, <3>1, <3>3, <3>4, StoredBlocks DEF Tracked
    <3>6. Written(picker, b)
      BY <1>1, <3>3, <3>4, FinishedEntry
    <3>7. /\ SameBut(picker, new, p) /\ Shape(new) /\ new.dl[p] \in EntryType(p)
          /\ picker' = IF new.dl[p].finished >= blocks_in_piece(p) /\ new.dl[p].passed_hash_check
                       THEN we_have(new, p) ELSE new
      BY <1>1, <2>1, <3>6 DEF Written
    <3> HIDE DEF new
    <3>8. EntryAgrees(new, p) /\ StateOf(new, b) = "finished"
          /\ \A a \in Blocks : a[1] = p /\ a # b => StateOf(new, a) = StateOf(picker, a)
      BY <1>1, <3>5 DEF BlockTo
    <3>9. /\ EntryAgrees(picker', p) /\ StateOf(picker', b) # "writing"
          /\ \A a \in Blocks : a[1] = p /\ a # b =>
               (StateOf(picker', a) = "writing" <=> StateOf(picker, a) = "writing")
      <4>1. CASE new.dl[p].finished >= blocks_in_piece(p) /\ new.dl[p].passed_hash_check
        <5>1. picker' = we_have(new, p) /\ p \notin new.have
          BY <3>4, <3>7, <4>1 DEF SameBut
        <5>2. HadPiece(new, p)
          BY <1>1, <3>7, <5>1, HaveEffect
        <5>3. picker'.dl[p] = NoDownload(p)
          BY <5>1, <5>2 DEF HadPiece
        <5>4. \A a \in Blocks : a[1] = p => StateOf(new, a) = "finished"
          BY <1>1, <3>7, <3>8, <4>1, AllWritten
        <5>5. EntryAgrees(picker', p) /\ \A a \in Blocks : a[1] = p => StateOf(picker', a) = "none"
          BY <1>1, <5>3, AgreesEmpty
        <5> QED BY <1>1, <3>8, <5>4, <5>5
      <4>2. CASE ~(new.dl[p].finished >= blocks_in_piece(p) /\ new.dl[p].passed_hash_check)
        <5>1. picker' = new
          BY <3>7, <4>2
        <5> QED BY <3>8, <5>1
      <4> QED BY <4>1, <4>2
    <3>10. Ordered(jobs', p)
      BY <1>1, <2>2, <3>1, OrderFrom DEF Tracked
    <3>11. ASSUME NEW a \in Blocks, a[1] = p
           PROVE  /\ StateOf(picker', a) = "writing" <=> WritesOf(jobs', a) # {}
                  /\ \A k, l \in WritesOf(jobs', a) : k = l
      <4>1. \A k \in 1..Len(jobs') : k > Left(jobs, i) => k \notin WritesOf(jobs', a)
        BY <2>2 DEF WritesOf
      <4>2. /\ WritesOf(jobs', a) # {} <=> WritesOf(jobs, a) \ {i} # {}
            /\ (\A k, l \in WritesOf(jobs, a) : k = l) => \A k, l \in WritesOf(jobs', a) : k = l
        BY <1>1, <4>1, WritesFrom
      <4>3. /\ StateOf(picker, a) = "writing" <=> WritesOf(jobs, a) # {}
            /\ \A k, l \in WritesOf(jobs, a) : k = l
        BY <3>1, <3>11 DEF Tracked
      <4>4. CASE a = b
        <5>1. WritesOf(jobs, a) \ {i} = {}
          BY <3>3, <4>4
        <5> QED BY <3>9, <4>2, <4>3, <4>4, <5>1
      <4>5. CASE a # b
        <5>1. i \notin WritesOf(jobs, a)
          BY <4>5 DEF WritesOf
        <5>2. WritesOf(jobs, a) \ {i} = WritesOf(jobs, a)
          BY <5>1
        <5> QED BY <3>9, <3>11, <4>2, <4>3, <4>5, <5>2
      <4> QED BY <4>4, <4>5
    <3> QED BY <3>9, <3>10, <3>11 DEF Tracked
  <2> QED BY <1>1, <2>1, <2>3, TrackedStep
<1> QED BY <1>2, <1>3 DEF on_disk_write_complete

\* Hash jobs.
LEMMA TrackedVerified ==
    ASSUME FlowOk, Checked, AllTracked, NEW i \in 1..Len(jobs), call_job_handler(i),
           on_piece_verified(i)
    PROVE  AllTracked'
<1> DEFINE p == jobs[i].piece
<1>1. /\ PickerOk(picker) /\ JobsOk /\ p \in Pieces /\ jobs[i].kind = "hash" /\ Frame(p, i)
      /\ picker.dl[p] \in EntryType(p) /\ Shape(picker)
      /\ late \subseteq late' /\ failed \subseteq failed'
  BY JobAt, HandlerFrame, OldEntry DEF FlowOk, on_piece_verified, Frame
<1>2. \A k \in 1..Len(jobs') : k > Left(jobs, i) => jobs'[k].kind # "write"
  BY HandlerIssues
<1>3. CASE HashError(i)
  <2>1. p \in failed'
    BY <1>3 DEF HashError
  <2> QED BY <1>1, <2>1, TrackedStep
<1>4. CASE HashResult(i)
  <2>1. picker' \in {picker, piece_passed(picker, p), lock_piece(picker, p)}
    BY <1>4 DEF HashResult, piece_failed, Drop
  <2>2. ASSUME p \notin late', p \notin failed' PROVE Steady(picker, picker', p)
    <3>1. EntryAgrees(picker, p)
      BY <1>1, <2>2 DEF AllTracked, Tracked
    <3>2. /\ Downloading(picker, p) /\ p \notin picker.have
      BY <1>1, <2>2, CheckHandled
    <3>3. CASE picker' = picker
      BY <3>1, <3>3 DEF Steady
    <3>4. CASE picker' = lock_piece(picker, p)
      <4>1. Locked(picker, p)
        BY <1>1, <3>2, LockEffect
      <4>2. SameButPassed(picker, picker', p) /\ SameBlocks(picker.dl[p], picker'.dl[p])
        BY <3>4, <4>1 DEF Locked
      <4>3. picker'.filtered = picker.filtered
        BY <4>2 DEF SameButPassed
      <4> QED BY <1>1, <3>1, <4>2, <4>3, SteadyFlags
    <3>5. CASE picker' = piece_passed(picker, p) /\ ~picker.dl[p].locked
      <4> DEFINE new == MarkedPassed(picker, p)
      <4>1. picker' = IF picker.dl[p].finished < blocks_in_piece(p) THEN new ELSE we_have(new, p)
        BY <3>2, <3>5 DEF piece_passed, MarkedPassed
      <4>2. Passed(picker, p)
        BY <1>1, MarkedEffect
      <4>3. Shape(new) /\ SameButPassed(picker, new, p) /\ SameBlocks(picker.dl[p], new.dl[p])
        BY <4>2 DEF Passed
      <4>4. new.filtered = picker.filtered /\ new.have = picker.have
        BY <4>3 DEF SameButPassed
      <4>5. Steady(picker, new, p)
        BY <1>1, <3>1, <4>3, <4>4, SteadyFlags
      <4> HIDE DEF new
      <4>6. CASE picker.dl[p].finished < blocks_in_piece(p)
        BY <4>1, <4>5, <4>6
      <4>7. CASE ~(picker.dl[p].finished < blocks_in_piece(p))
        <5>1. picker' = we_have(new, p)
          BY <4>1, <4>7
        <5>2. HadPiece(new, p)
          BY <1>1, <3>2, <4>3, <4>4, HaveEffect
        <5>3. picker'.dl[p] = NoDownload(p)
          BY <5>1, <5>2 DEF HadPiece
        <5>4. picker.dl[p].finished >= blocks_in_piece(p)
          <6>1. picker.dl[p].finished \in Nat
            BY <1>1, EntryDomain
          <6>2. blocks_in_piece(p) \in Nat
            BY <1>1, Layout
          <6> QED BY <4>7, <6>1, <6>2
        <5>5. \A b \in Blocks : b[1] = p => StateOf(picker, b) = "finished"
          BY <1>1, <3>1, <5>4, AllWritten
        <5>6. \A b \in Blocks : b[1] = p => StateOf(picker, b) # "writing"
          BY <5>5
        <5> QED BY <1>1, <5>3, <5>6, SteadyGone
      <4> QED BY <4>6, <4>7
    <3>6. CASE picker' = piece_passed(picker, p) /\ picker.dl[p].locked
      <4>1. picker' = picker
        BY <3>6 DEF piece_passed
      <4> QED BY <3>3, <4>1
    <3> QED BY <2>1, <3>3, <3>4, <3>5, <3>6
  <2> QED BY <1>1, <1>2, <2>2, TrackedQuiet
<1> QED BY <1>3, <1>4 DEF on_piece_verified

\* Clear jobs: one that is handled in order is the only job of its piece.
LEMMA TrackedCleared ==
    ASSUME FlowOk, Checked, AllTracked, NEW i \in 1..Len(jobs), call_job_handler(i),
           on_piece_sync(i) \/ on_piece_fail_sync(i)
    PROVE  AllTracked'
<1> DEFINE p == jobs[i].piece
<1>1. /\ PickerOk(picker) /\ JobsOk /\ p \in Pieces /\ Frame(p, i)
      /\ late \subseteq late' /\ failed \subseteq failed' /\ jobs[i].kind # "write"
  BY JobAt, HandlerFrame DEF FlowOk, on_piece_sync, on_piece_fail_sync, Frame
<1>2. \A k \in 1..Len(jobs') : k > Left(jobs, i) => jobs'[k].kind # "write"
  BY HandlerIssues
<1>3. ASSUME p \notin late', p \notin failed' PROVE Steady(picker, picker', p)
  <2>1. Tracked(picker, jobs, p)
    BY <1>1, <1>3 DEF AllTracked
  <2>2. CASE on_piece_fail_sync(i)
    BY <2>1, <2>2 DEF on_piece_fail_sync, Steady, Tracked
  <2>3. CASE on_piece_sync(i)
    <3>1. jobs[i].kind = "clear" /\ picker' = RestoreAndRequest(p)
      BY <2>3 DEF on_piece_sync
    <3>2. ~OutOfOrder(i)
      BY <1>3 DEF call_job_handler, NoteOrder
    <3>3. i \in Checks(jobs, p)
      BY <3>1 DEF Checks
    <3>4. ASSUME NEW b \in Blocks, b[1] = p PROVE StateOf(picker, b) # "writing"
      <4>1. ASSUME NEW k \in WritesOf(jobs, b) PROVE FALSE
        <5>1. k \in 1..Len(jobs) /\ jobs[k].kind = "write" /\ jobs[k].piece = p
          BY <3>4 DEF WritesOf
        <5>2. k < i
          BY <2>1, <3>3, <5>1 DEF Tracked, Ordered
        <5>3. k \in 1..(i - 1)
          BY <5>1, <5>2
        <5> QED BY <3>1, <3>2, <5>1, <5>3 DEF OutOfOrder
      <4> QED BY <2>1, <3>4, <4>1 DEF Tracked
    <3> QED BY <1>1, <3>1, <3>4, SteadyRestart
  <2> QED BY <2>2, <2>3
<1> QED BY <1>1, <1>2, <1>3, TrackedQuiet

\* Steps that change neither picker nor jobs.
LEMMA TrackedSame ==
    ASSUME AllTracked, picker' = picker, jobs' = jobs, late' = late, failed' = failed
    PROVE  AllTracked'
  BY DEF AllTracked

\* Every step keeps the invariant.
LEMMA TrackedNext == FlowOk /\ FlowOk' /\ Checked /\ AllTracked /\ [Next]_vars => AllTracked'
<1> SUFFICES ASSUME FlowOk, FlowOk', Checked, AllTracked, [Next]_vars PROVE AllTracked'
  OBVIOUS
<1>0. PickerOk(picker')
  BY DEF FlowOk
<1>1. ASSUME NEW w, NEW p \in Pieces, PrioritizePiece(w, p), jobs' = jobs, late' = late, failed' = failed
      PROVE  AllTracked'
  BY <1>0, <1>1, TrackedPriority
<1>2. ASSUME NEW c \in Peers, disconnect(c) PROVE AllTracked'
  BY <1>2, TrackedSame DEF disconnect, Drop, history
<1>3. ASSUME NEW w \in SUBSET Pieces, prioritize_pieces(w) PROVE AllTracked'
  <2>1. 0 \in Pieces
    BY Layout DEF Pieces
  <2> QED BY <1>1, <1>3, <2>1 DEF prioritize_pieces, history
<1>4. CASE leave_upload_mode
  BY <1>4, TrackedSame DEF leave_upload_mode, history
<1>5. CASE Network
  BY <1>2, <1>3, <1>4, <1>5, TrackedPeers DEF Network, incoming_reject_request
<1>6. CASE Loops
  <2>1. ASSUME prioritize_next PROVE AllTracked'
    <3>1. setting.index \in Pieces
      BY <2>1 DEF prioritize_next, FlowOk, SettingOk
    <3> QED BY <1>1, <2>1, <3>1 DEF prioritize_next, history
  <2> QED BY <1>6, <2>1, TrackedPeers DEF Loops, empty_download_queue
<1>7. CASE Disk
  BY <1>7, TrackedDisk DEF Disk
<1>8. CASE Handlers
  <2>1. PICK i \in 1..Len(jobs) : call_job_handler(i)
    BY <1>8 DEF Handlers
  <2> QED BY <2>1, TrackedWritten, TrackedVerified, TrackedCleared DEF call_job_handler
<1>9. CASE UNCHANGED vars
  BY <1>9, TrackedSame DEF vars, history
<1> QED BY <1>5, <1>6, <1>7, <1>8, <1>9 DEF Next

\* It holds when nothing has happened.
LEMMA TrackedInit == Init => AllTracked
<1> SUFFICES ASSUME Init, NEW p \in Pieces PROVE Tracked(picker, jobs, p)
  BY DEF AllTracked
<1>1. picker.dl[p] = NoDownload(p)
  BY DEF Init, init
<1>2. EntryAgrees(picker, p) /\ \A b \in Blocks : b[1] = p => StateOf(picker, b) = "none"
  BY <1>1, AgreesEmpty
<1>3. Checks(jobs, p) = {} /\ \A b : WritesOf(jobs, b) = {}
  BY DEF Init, Checks, WritesOf
<1> QED BY <1>2, <1>3 DEF Tracked, Ordered

\* Types, checks and blocks, in every state.
LEMMA TrackedInvariant == Spec => [](FlowOk /\ Checked /\ AllTracked)
<1>1. Init => FlowOk /\ Checked /\ AllTracked
  BY InitFlow, CheckedInit, TrackedInit
<1>2. (FlowOk /\ Checked /\ AllTracked) /\ [Next]_vars => (FlowOk /\ Checked /\ AllTracked)'
  BY NextFlow, CheckedNext, TrackedNext
<1> QED BY <1>1, <1>2, PTL DEF Spec

\* check_invariant of the picker holds for every piece that met neither a disk
\* error nor a late report: whatever peers, time-outs, priorities and restored
\* pieces do, counters and queue are those of the blocks.
THEOREM EntriesCounted == Spec => []EntriesAgree
<1>1. AllTracked => EntriesAgree
  BY DEF AllTracked, Tracked, EntriesAgree, Undisturbed
<1> QED BY <1>1, TrackedInvariant, PTL

\* For such a piece, mark_as_writing and mark_as_finished bracket the write job
\* of a block exactly: none waits for a write that is gone.
THEOREM WritesFollowed == Spec => []WritingIsWritten
<1>1. FlowOk /\ AllTracked => WritingIsWritten
  <2> SUFFICES ASSUME FlowOk, AllTracked, NEW b \in Blocks, b[1] \in Undisturbed
               PROVE  StateOf(picker, b) = "writing" <=>
                        \E i \in 1..Len(jobs) : jobs[i].kind = "write" /\ jobs[i].block = b
    BY DEF WritingIsWritten
  <2>1. Tracked(picker, jobs, b[1])
    BY DEF AllTracked, Undisturbed
  <2>2. StateOf(picker, b) = "writing" <=> WritesOf(jobs, b) # {}
    BY <2>1 DEF Tracked
  <2>3. \A i \in 1..Len(jobs) : jobs[i].kind = "write" /\ jobs[i].block = b => jobs[i].piece = b[1]
    BY JobAt DEF FlowOk
  <2> QED BY <2>2, <2>3 DEF WritesOf
<1> QED BY <1>1, TrackedInvariant, PTL

-----------------------------------------------------------------------------
(***************************************************************************)
(* What is on disk.  A piece that is there, has passed, or whose hash job   *)
(* is back, was seen with good data by the disk threads: while neither a    *)
(* disk error nor a late report has met it, what they saw stays.            *)
(***************************************************************************)
Verified(pk, js, p) ==
    \/ p \in pk.have
    \/ pk.dl[p].passed_hash_check
    \/ \E k \in Checks(js, p) : js[k].kind = "hash" /\ js[k].ret = "ok"

\* Data that are in the cache only belong to a write that has failed, of which
\* the handler is still to run.
Ghosts(js, d, b) ==
    d[b] = "ghost" => \E k \in WritesOf(js, b) : js[k].ret = "error"

\* What is on disk, or will be, is good.
Sound(js, d, b) ==
    /\ \A k \in WritesOf(js, b) : js[k].ret = "pending" => js[k].data = "good"
    /\ (\A k \in WritesOf(js, b) : js[k].ret # "pending") => d[b] \in {"good", "ghost"}

Stored(pk, js, d, p) ==
    /\ \A k \in 1..Len(js) : js[k].piece = p => js[k].kind # "clear_failed"
    /\ \A b \in Blocks : b[1] = p =>
         Ghosts(js, d, b) /\ (Verified(pk, js, p) => Sound(js, d, b))

AllStored == \A p \in Pieces : p \notin late /\ p \notin failed => Stored(picker, jobs, disk, p)

\* The jobs of js but job i, and more jobs behind.
Rest(js, new, i) ==
    /\ Left(js, i) <= Len(new)
    /\ \A k \in 1..Left(js, i) : new[k] = js[Was(i, k)]

\* The writes of a block that are left.
LEMMA WritesRest ==
    ASSUME JobsOk, NEW i \in 0..Len(jobs), Rest(jobs, jobs', i), NEW b,
           \A k \in 1..Len(jobs') : k > Left(jobs, i) => k \notin WritesOf(jobs', b)
    PROVE  /\ \A k \in WritesOf(jobs', b) :
                Was(i, k) \in WritesOf(jobs, b) \ {i} /\ jobs'[k] = jobs[Was(i, k)]
           /\ \A m \in WritesOf(jobs, b) \ {i} :
                \E k \in WritesOf(jobs', b) : jobs'[k] = jobs[m]
<1>1. /\ Left(jobs, i) \in Nat
      /\ \A k \in 1..Left(jobs, i) : Was(i, k) \in 1..Len(jobs) /\ Was(i, k) # i
      /\ \A m \in 1..Len(jobs) : m # i => \E k \in 1..Left(jobs, i) : Was(i, k) = m
  BY WasOrder DEF JobsOk
<1>2. Left(jobs, i) <= Len(jobs') /\ \A k \in 1..Left(jobs, i) : jobs'[k] = jobs[Was(i, k)]
  BY DEF Rest
<1>3. ASSUME NEW k \in WritesOf(jobs', b)
      PROVE  Was(i, k) \in WritesOf(jobs, b) \ {i} /\ jobs'[k] = jobs[Was(i, k)]
  <2>1. k \in 1..Len(jobs') /\ jobs'[k].kind = "write" /\ jobs'[k].piece = b[1] /\ jobs'[k].block = b
    BY DEF WritesOf
  <2>2. k \in 1..Left(jobs, i)
    BY <1>1, <2>1
  <2>3. jobs'[k] = jobs[Was(i, k)]
    BY <1>2, <2>2
  <2> QED BY <1>1, <2>1, <2>2, <2>3 DEF WritesOf
<1>4. ASSUME NEW m \in WritesOf(jobs, b) \ {i}
      PROVE  \E k \in WritesOf(jobs', b) : jobs'[k] = jobs[m]
  <2>1. m \in 1..Len(jobs) /\ jobs[m].kind = "write" /\ jobs[m].piece = b[1] /\ jobs[m].block = b
    BY DEF WritesOf
  <2>2. PICK k \in 1..Left(jobs, i) : Was(i, k) = m
    BY <1>1, <2>1
  <2>3. jobs'[k] = jobs[m]
    BY <1>2, <2>2
  <2>4. k \in 1..Len(jobs')
    BY <1>1, <1>2, <2>2
  <2> QED BY <2>1, <2>3, <2>4 DEF WritesOf
<1> QED BY <1>3, <1>4

\* A step that leaves the disk alone and issues no write: what was stored is,
\* if nothing is taken for good that was not.
LEMMA StoredKept ==
    ASSUME JobsOk, NEW i \in 0..Len(jobs), Rest(jobs, jobs', i), NEW p \in Pieces, disk' = disk,
           \A k \in 1..Len(jobs') :
               k > Left(jobs, i) /\ jobs'[k].piece = p => jobs'[k].kind = "clear",
           i # 0 => /\ jobs[i].ret # "pending"
                    /\ ~(jobs[i].kind = "write" /\ jobs[i].piece = p /\ jobs[i].ret = "error"),
           p \in picker'.have \/ picker'.dl[p].passed_hash_check => Verified(picker, jobs, p),
           Stored(picker, jobs, disk, p)
    PROVE  Stored(picker', jobs', disk', p)
<1>1. /\ Left(jobs, i) \in Nat
      /\ \A k \in 1..Left(jobs, i) : Was(i, k) \in 1..Len(jobs) /\ Was(i, k) # i
  BY WasOrder DEF JobsOk
<1>2. \A k \in 1..Left(jobs, i) : jobs'[k] = jobs[Was(i, k)]
  BY DEF Rest
<1>3. ASSUME NEW k \in 1..Len(jobs'), jobs'[k].piece = p, jobs'[k].kind # "clear"
      PROVE  Was(i, k) \in 1..Len(jobs) /\ jobs'[k] = jobs[Was(i, k)]
  <2>1. k \in 1..Left(jobs, i)
    BY <1>1, <1>3
  <2> QED BY <1>1, <1>2, <2>1
<1>4. ASSUME NEW k \in 1..Len(jobs'), jobs'[k].piece = p PROVE jobs'[k].kind # "clear_failed"
  <2>1. ASSUME jobs'[k].kind = "clear_failed" PROVE FALSE
    <3>1. Was(i, k) \in 1..Len(jobs) /\ jobs'[k] = jobs[Was(i, k)]
      BY <1>3, <1>4, <2>1
    <3> QED BY <1>4, <2>1, <3>1 DEF Stored
  <2> QED BY <2>1
<1>5. ASSUME Verified(picker', jobs', p) PROVE Verified(picker, jobs, p)
  <2>1. CASE p \in picker'.have \/ picker'.dl[p].passed_hash_check
    BY <2>1
  <2>2. ASSUME NEW k \in Checks(jobs', p), jobs'[k].kind = "hash", jobs'[k].ret = "ok"
        PROVE  Verified(picker, jobs, p)
    <3>1. k \in 1..Len(jobs') /\ jobs'[k].piece = p
      BY DEF Checks
    <3>2. Was(i, k) \in 1..Len(jobs) /\ jobs'[k] = jobs[Was(i, k)]
      BY <1>3, <2>2, <3>1
    <3>3. Was(i, k) \in Checks(jobs, p)
      BY <2>2, <3>1, <3>2 DEF Checks
    <3> QED BY <2>2, <3>2, <3>3 DEF Verified
  <2> QED BY <1>5, <2>1, <2>2 DEF Verified
<1>6. ASSUME NEW b \in Blocks, b[1] = p
      PROVE  Ghosts(jobs', disk', b) /\ (Verified(picker', jobs', p) => Sound(jobs', disk', b))
  <2>1. /\ \A k \in WritesOf(jobs', b) :
             Was(i, k) \in WritesOf(jobs, b) \ {i} /\ jobs'[k] = jobs[Was(i, k)]
        /\ \A m \in WritesOf(jobs, b) \ {i} :
             \E k \in WritesOf(jobs', b) : jobs'[k] = jobs[m]
    <3>1. \A k \in 1..Len(jobs') : k > Left(jobs, i) => k \notin WritesOf(jobs', b)
      BY <1>6 DEF WritesOf
    <3> QED BY <3>1, WritesRest
  <2>2. Ghosts(jobs, disk, b) /\ (Verified(picker, jobs, p) => Sound(jobs, disk, b))
    BY <1>6 DEF Stored
  <2>3. i \in WritesOf(jobs, b) => jobs[i].ret \notin {"pending", "error"}
    <3>1. ASSUME i \in WritesOf(jobs, b)
          PROVE  i \in 1..Len(jobs) /\ jobs[i].kind = "write" /\ jobs[i].piece = p
      BY <1>6, <3>1 DEF WritesOf
    <3> QED BY <3>1
  <2>4. Ghosts(jobs', disk', b)
    <3>1. ASSUME disk[b] = "ghost" PROVE \E k \in WritesOf(jobs', b) : jobs'[k].ret = "error"
      <4>1. PICK m \in WritesOf(jobs, b) : jobs[m].ret = "error"
        BY <2>2, <3>1 DEF Ghosts
      <4>2. m \in WritesOf(jobs, b) \ {i}
        BY <2>3, <4>1
      <4> QED BY <2>1, <4>1, <4>2
    <3> QED BY <3>1 DEF Ghosts
  <2>5. ASSUME Sound(jobs, disk, b) PROVE Sound(jobs', disk', b)
    <3>1. \A k \in WritesOf(jobs', b) : jobs'[k].ret = "pending" => jobs'[k].data = "good"
      BY <2>1, <2>5 DEF Sound
    <3>2. ASSUME \A k \in WritesOf(jobs', b) : jobs'[k].ret # "pending"
          PROVE  disk[b] \in {"good", "ghost"}
      <4>1. \A m \in WritesOf(jobs, b) : jobs[m].ret # "pending"
        BY <2>1, <2>3, <3>2
      <4> QED BY <2>5, <4>1 DEF Sound
    <3> QED BY <3>1, <3>2 DEF Sound
  <2> QED BY <1>5, <2>2, <2>4, <2>5
<1> QED BY <1>4, <1>6 DEF Stored

\* It is enough to look at the piece the step concerns.
LEMMA StoredStep ==
    ASSUME FlowOk, AllStored, NEW q, NEW i, Frame(q, i), Rest(jobs, jobs', i), disk' = disk,
           i # 0 => jobs[i].ret # "pending",
           q \notin late' /\ q \notin failed' => Stored(picker', jobs', disk', q)
    PROVE  AllStored'
<1>1. /\ late \subseteq late' /\ failed \subseteq failed' /\ JobsOk /\ i \in 0..Len(jobs)
  BY DEF Frame, FlowOk
<1>2. ASSUME NEW p \in Pieces, p \notin late', p \notin failed', p # q
      PROVE  Stored(picker', jobs', disk', p)
  <2>1. Stored(picker, jobs, disk, p)
    BY <1>1, <1>2 DEF AllStored
  <2>2. SamePiece(picker, picker', p)
    BY <1>2 DEF Frame, OnlyPiece
  <2>3. p \in picker'.have \/ picker'.dl[p].passed_hash_check => Verified(picker, jobs, p)
    BY <2>2 DEF SamePiece, Verified
  <2>4. /\ \A k \in 1..Len(jobs') : k > Left(jobs, i) => jobs'[k].piece # p
        /\ i # 0 => jobs[i].piece # p
    BY <1>2 DEF Frame
  <2> QED BY <1>1, <2>1, <2>3, <2>4, StoredKept
<1> QED BY <1>2 DEF AllStored

\* A step without writes and hash jobs.
LEMMA StoredQuiet ==
    ASSUME FlowOk, AllStored, NEW q, NEW i, Frame(q, i), Rest(jobs, jobs', i), disk' = disk,
           i # 0 => jobs[i].ret # "pending",
           q \notin late' /\ q \notin failed' =>
              /\ \A k \in 1..Len(jobs') : k > Left(jobs, i) => jobs'[k].kind = "clear"
              /\ i # 0 => ~(jobs[i].kind = "write" /\ jobs[i].ret = "error")
              /\ q \in picker'.have \/ picker'.dl[q].passed_hash_check => Verified(picker, jobs, q)
    PROVE  AllStored'
<1>1. /\ late \subseteq late' /\ failed \subseteq failed' /\ JobsOk /\ i \in 0..Len(jobs)
      /\ q \in Pieces
  BY DEF Frame, FlowOk
<1>2. ASSUME q \notin late', q \notin failed' PROVE Stored(picker', jobs', disk', q)
  <2>1. Stored(picker, jobs, disk, q)
    BY <1>1, <1>2 DEF AllStored
  <2> QED BY <1>1, <1>2, <2>1, StoredKept
<1> QED BY <1>2, StoredStep

\* No job is issued, none is handled.
LEMMA SameRest ==
    ASSUME JobsOk, jobs' = jobs
    PROVE  Rest(jobs, jobs', 0) /\ \A k \in 1..Len(jobs') : ~(k > Left(jobs, 0))
<1>1. Len(jobs) \in Nat
  BY DEF JobsOk
<1> QED BY <1>1 DEF Rest, Left, Was

\* A handler issues nothing but the clearing of a piece.
LEMMA HandlerRest ==
    ASSUME FlowOk, NEW i \in 1..Len(jobs), call_job_handler(i)
    PROVE  /\ Rest(jobs, jobs', i) /\ disk' = disk /\ jobs[i].ret # "pending"
           /\ jobs[i].piece \notin failed' =>
                \A k \in 1..Len(jobs') : k > Left(jobs, i) => jobs'[k].kind = "clear"
<1> DEFINE p == jobs[i].piece
<1>1. JobsOk /\ p \in Pieces /\ Len(jobs) \in Nat
  BY JobAt DEF FlowOk, JobsOk
<1>2. disk' = disk /\ jobs[i].ret # "pending"
  BY DEF call_job_handler, Pending
<1>3. PICK new \in {<<>>, <<PieceJob("clear", p)>>, <<PieceJob("clear_failed", p)>>} :
        Handled(i, new) /\ (new = <<PieceJob("clear_failed", p)>> => p \in failed')
  <2>1. \/ Handled(i, <<>>) \/ Handled(i, <<PieceJob("clear", p)>>)
        \/ Handled(i, <<PieceJob("clear_failed", p)>>) /\ p \in failed'
    BY DEF call_job_handler, on_disk_write_complete, WriteOk, WriteError, on_piece_verified,
           HashError, HashResult, piece_failed, on_piece_sync, on_piece_fail_sync
  <2> DEFINE c == PieceJob("clear", p)
             f == PieceJob("clear_failed", p)
  <2>2. c # f
    BY DEF PieceJob
  <2> HIDE DEF c, f
  <2>3. <<>> # <<f>> /\ <<c>> # <<f>>
    <3>1. <<c>>[1] = c /\ <<f>>[1] = f /\ Len(<<f>>) = 1 /\ Len(<<>>) = 0
      OBVIOUS
    <3> QED BY <2>2, <3>1
  <2>4. \/ Handled(i, <<>>) \/ Handled(i, <<c>>)
        \/ Handled(i, <<f>>) /\ p \in failed'
    BY <2>1 DEF c, f
  <2>5. \E new \in {<<>>, <<c>>, <<f>>} : Handled(i, new) /\ (new = <<f>> => p \in failed')
    BY <2>3, <2>4
  <2> QED BY <2>5 DEF c, f
<1>4. /\ PieceJob("clear", p) \in AllJobs /\ PieceJob("clear_failed", p) \in AllJobs
      /\ PieceJob("clear", p).kind = "clear"
  BY <1>1, NewJobs DEF PieceJob
<1>5. /\ new \in Seq(AllJobs) /\ Len(new) \in Nat
      /\ p \notin failed' => \A k \in 1..Len(new) : new[k].kind = "clear"
  <2>1. ASSUME NEW j \in AllJobs
        PROVE  /\ <<j>> \in Seq(AllJobs) /\ Len(<<j>>) \in Nat
               /\ j.kind = "clear" => \A k \in 1..Len(<<j>>) : <<j>>[k].kind = "clear"
    <3>1. Len(<<j>>) = 1 /\ \A k \in 1..1 : k = 1 /\ <<j>>[1] = j
      OBVIOUS
    <3> QED BY <2>1, <3>1
  <2>2. CASE new = <<>>
    BY <2>2
  <2>3. CASE new = <<PieceJob("clear", p)>>
    BY <1>4, <2>1, <2>3
  <2>4. CASE new = <<PieceJob("clear_failed", p)>>
    BY <1>3, <1>4, <2>1, <2>4
  <2> QED BY <1>3, <2>2, <2>3, <2>4
<1>6. /\ Len(jobs') = Len(jobs) - 1 + Len(new)
      /\ Left(jobs, i) = Len(jobs) - 1
      /\ \A k \in 1..(Len(jobs) - 1) : jobs'[k] = jobs[Was(i, k)]
      /\ \A k \in 1..Len(new) : jobs'[Len(jobs) - 1 + k] = new[k]
  BY <1>1, <1>3, <1>5, HandledFrom
<1>7. Rest(jobs, jobs', i)
  BY <1>1, <1>5, <1>6 DEF Rest
<1>8. ASSUME p \notin failed', NEW k \in 1..Len(jobs'), k > Left(jobs, i)
      PROVE  jobs'[k].kind = "clear"
  <2> DEFINE m == k - (Len(jobs) - 1)
  <2>1. m \in 1..Len(new) /\ Len(jobs) - 1 + m = k
    BY <1>1, <1>5, <1>6, <1>8
  <2> HIDE DEF m
  <2> QED BY <1>5, <1>6, <1>8, <2>1
<1> QED BY <1>2, <1>7, <1>8

\* A block that has come: its piece is not complete, so nothing is known of it.
LEMMA StoredReceived ==
    ASSUME FlowOk, Checked, AllTracked, AllStored,
           NEW c \in Peers, NEW b \in Blocks, NEW data \in Data,
           Received(c, b, data), Frame(b[1], 0)
    PROVE  AllStored'
<1> DEFINE p == b[1]
           n == Len(jobs)
           pk == mark_as_writing(picker, b)
           complete == is_piece_finished(pk, b[1]) /\ ~is_piece_finished(picker, b[1])
<1>1. /\ PickerOk(picker) /\ JobsOk /\ p \in Pieces /\ n \in Nat
      /\ picker.dl[p] \in EntryType(p)
  BY BlockParts, OldEntry DEF FlowOk, JobsOk
<1>2. /\ jobs' = Append(jobs, WriteJob(b, data)) \o VerifyIfComplete(b[1], pk)
      /\ late' = late /\ failed' = failed /\ picker' = pk /\ disk' = disk
      /\ p \notin picker.have /\ StateOf(picker, b) \notin {"writing", "finished"}
  BY DEF Received, history, is_downloaded
<1>3. p \notin failed => Quiet(picker, pk, p)
  BY <1>1, <1>2, QuietBlocks DEF Checked, Passing
<1> HIDE DEF pk
<1>4. /\ Len(jobs') = n + 1 + One(complete)
      /\ \A k \in 1..n : jobs'[k] = jobs[k]
      /\ jobs'[n + 1] = WriteJob(b, data)
      /\ complete => jobs'[n + 2] = PieceJob("hash", p)
  BY <1>1, <1>2, ReceivedFrom
<1> HIDE DEF complete
<1>5. /\ WriteJob(b, data).kind = "write"
      /\ PieceJob("hash", p).kind = "hash" /\ PieceJob("hash", p).ret = "pending"
  BY DEF WriteJob, PieceJob
<1>6. /\ \A k \in 1..n : k \in 1..Len(jobs')
      /\ \A k \in 1..Len(jobs') : k \in 1..n \/ k = n + 1 \/ (complete /\ k = n + 2)
  <2>1. CASE complete
    <3>1. Len(jobs') = n + 2
      BY <1>1, <1>4, <2>1 DEF One
    <3> QED BY <1>1, <2>1, <3>1
  <2>2. CASE ~complete
    <3>1. Len(jobs') = n + 1
      BY <1>1, <1>4, <2>2 DEF One
    <3> QED BY <1>1, <3>1
  <2> QED BY <2>1, <2>2
<1>7. Rest(jobs, jobs', 0)
  <2>1. Left(jobs, 0) = n /\ \A k \in 1..n : Was(0, k) = k
    BY DEF Left, Was
  <2>2. n <= Len(jobs')
    BY <1>1, <1>4 DEF One
  <2> QED BY <1>4, <2>1, <2>2 DEF Rest
<1>8. ASSUME p \notin late, p \notin failed PROVE Stored(picker', jobs', disk', p)
  <2>1. Tracked(picker, jobs, p) /\ Passing(picker, jobs, p) /\ Stored(picker, jobs, disk, p)
    BY <1>1, <1>8 DEF AllTracked, Checked, AllStored
  <2>2. Exact(picker.dl[p])
    BY <1>1, <2>1, AgreesMeaning DEF Tracked
  <2>3. ~Complete(picker, p)
    <3>1. b[2] \in 1..blocks_in_piece(p) /\ picker.dl[p].state[b[2]] \notin {"writing", "finished"}
      BY <1>2, BlockParts DEF StateOf
    <3> QED BY <1>1, <2>2, <3>1, CompleteBlocks DEF Complete
  <2>4. Checks(jobs, p) = {} /\ ~picker.dl[p].passed_hash_check
    BY <2>1, <2>3 DEF Passing, Sane
  <2>5. ~Verified(picker', jobs', p)
    <3>1. p \notin picker'.have /\ ~picker'.dl[p].passed_hash_check
      BY <1>2, <1>3, <1>8, <2>4 DEF Quiet
    <3>2. ASSUME NEW k \in Checks(jobs', p), jobs'[k].kind = "hash", jobs'[k].ret = "ok"
          PROVE  FALSE
      <4>1. k \in 1..Len(jobs') /\ jobs'[k].piece = p
        BY DEF Checks
      <4>2. CASE k \in 1..n
        <5>1. k \in Checks(jobs, p)
          BY <1>4, <3>2, <4>1, <4>2 DEF Checks
        <5> QED BY <2>4, <5>1
      <4>3. CASE k = n + 1
        BY <1>4, <1>5, <3>2, <4>3
      <4>4. CASE complete /\ k = n + 2
        BY <1>4, <1>5, <3>2, <4>4
      <4> QED BY <1>6, <4>1, <4>2, <4>3, <4>4
    <3> QED BY <3>1, <3>2 DEF Verified
  <2>6. ASSUME NEW a \in Blocks, a[1] = p PROVE Ghosts(jobs', disk', a)
    <3>1. Ghosts(jobs, disk, a)
      BY <2>1, <2>6 DEF Stored
    <3>2. ASSUME NEW k \in WritesOf(jobs, a) PROVE k \in WritesOf(jobs', a) /\ jobs'[k] = jobs[k]
      BY <1>4, <1>6 DEF WritesOf
    <3> QED BY <1>2, <3>1, <3>2 DEF Ghosts
  <2>7. ASSUME NEW k \in 1..Len(jobs'), jobs'[k].piece = p PROVE jobs'[k].kind # "clear_failed"
    <3>1. CASE k \in 1..n
      BY <1>4, <2>1, <2>7, <3>1 DEF Stored
    <3>2. CASE k = n + 1
      BY <1>4, <1>5, <3>2
    <3>3. CASE complete /\ k = n + 2
      BY <1>4, <1>5, <3>3
    <3> QED BY <1>6, <3>1, <3>2, <3>3
  <2> QED BY <2>5, <2>6, <2>7 DEF Stored
<1> QED BY <1>2, <1>7, <1>8, StoredStep

\* Steps of the peers.
LEMMA StoredPeers ==
    ASSUME FlowOk, Checked, AllTracked, AllStored, NEW c \in Peers, NEW b \in Blocks,
           add_request(c, b) \/ incoming_piece(c, b) \/ GiveUp(c, b) \/ snub_peer(c, b)
    PROVE  AllStored'
<1> DEFINE p == b[1]
<1>1. PickerOk(picker) /\ JobsOk /\ p \in Pieces /\ Frame(p, 0)
  BY BlockParts, PeerFrames DEF FlowOk
<1>2. p \notin failed => Sane(picker, p)
  BY <1>1 DEF Checked, Passing
<1>3. ASSUME jobs' = jobs, failed' = failed, disk' = disk, p \notin failed => Quiet(picker, picker', p)
      PROVE  AllStored'
  <2>1. Rest(jobs, jobs', 0) /\ \A k \in 1..Len(jobs') : ~(k > Left(jobs, 0))
    BY <1>1, <1>3, SameRest
  <2>2. p \notin failed =>
          (p \in picker'.have \/ picker'.dl[p].passed_hash_check => Verified(picker, jobs, p))
    BY <1>3 DEF Quiet, Verified
  <2> QED BY <1>1, <1>3, <2>1, <2>2, StoredQuiet
<1>4. p \notin failed => Quiet(picker, picker, p)
  BY <1>2 DEF Quiet, OnlyPiece, SamePiece, Sane
<1>5. CASE add_request(c, b)
  <2>1. /\ jobs' = jobs /\ failed' = failed /\ disk' = disk
        /\ picker' = mark_as_downloading(picker, b)
        /\ StateOf(picker, b) \notin {"writing", "finished"} /\ p \notin picker.have
    BY <1>5 DEF add_request, history, is_requested, Pickable, Settled
  <2> QED BY <1>1, <1>2, <1>3, <2>1, QuietBlocks
<1>6. CASE Redundant(c, b)
  BY <1>3, <1>4, <1>6 DEF Redundant, history
<1>7. ASSUME NEW data \in Data, Received(c, b, data) PROVE AllStored'
  BY <1>1, <1>7, StoredReceived
<1>8. CASE GiveUp(c, b)
  <2>1. /\ jobs' = jobs /\ failed' = failed /\ disk' = disk
        /\ picker' \in {picker, abort_download(picker, b)}
    BY <1>8 DEF GiveUp, history
  <2> QED BY <1>1, <1>2, <1>3, <1>4, <2>1, QuietBlocks
<1>9. CASE snub_peer(c, b)
  <2>1. /\ jobs' = jobs /\ failed' = failed /\ disk' = disk
        /\ picker' = abort_download(picker, b)
    BY <1>9 DEF snub_peer, history
  <2> QED BY <1>1, <1>2, <1>3, <2>1, QuietBlocks
<1> QED BY <1>5, <1>6, <1>7, <1>8, <1>9 DEF incoming_piece

\* A change of priority.
LEMMA StoredPriority ==
    ASSUME FlowOk, AllStored, NEW w, NEW p \in Pieces, PrioritizePiece(w, p),
           jobs' = jobs, late' = late, failed' = failed, disk' = disk
    PROVE  AllStored'
<1>1. JobsOk /\ Frame(p, 0) /\ Preferred(picker, picker', p)
  BY PriorityFrame DEF FlowOk
<1>2. Rest(jobs, jobs', 0) /\ \A k \in 1..Len(jobs') : ~(k > Left(jobs, 0))
  BY <1>1, SameRest
<1>3. p \in picker'.have \/ picker'.dl[p].passed_hash_check => Verified(picker, jobs, p)
  BY <1>1 DEF Preferred, Verified
<1> QED BY <1>1, <1>2, <1>3, StoredQuiet

\* Write jobs.
LEMMA StoredWritten ==
    ASSUME FlowOk, AllStored, NEW i \in 1..Len(jobs), call_job_handler(i),
           on_disk_write_complete(i)
    PROVE  AllStored'
<1> DEFINE b == jobs[i].block
           p == jobs[i].piece
<1>1. /\ PickerOk(picker) /\ p \in Pieces /\ b \in Blocks /\ b[1] = p /\ Frame(p, i)
  BY JobAt, HandlerFrame DEF FlowOk, on_disk_write_complete
<1>2. /\ Rest(jobs, jobs', i) /\ disk' = disk /\ jobs[i].ret # "pending"
      /\ p \notin failed' =>
           \A k \in 1..Len(jobs') : k > Left(jobs, i) => jobs'[k].kind = "clear"
  BY HandlerRest
<1>3. CASE WriteError(i)
  <2>1. p \in failed'
    BY <1>3 DEF WriteError
  <2> QED BY <1>1, <1>2, <2>1, StoredStep
<1>4. CASE WriteOk(i)
  <2>1. jobs[i].ret = "ok" /\ picker' = mark_as_finished(picker, b)
    BY <1>4 DEF WriteOk
  <2>2. p \in picker'.have \/ picker'.dl[p].passed_hash_check => Verified(picker, jobs, p)
    <3>1. CASE (~Downloading(picker, p) /\ p \in picker.have) \/ StateOf(picker, b) = "finished"
      <4>1. picker' = picker
        BY <1>1, <2>1, <3>1 DEF mark_as_finished
      <4> QED BY <4>1 DEF Verified
    <3>2. CASE ~((~Downloading(picker, p) /\ p \in picker.have) \/ StateOf(picker, b) = "finished")
      <4> DEFINE new == FinishedBlock(picker, b)
      <4>1. Written(picker, b)
        BY <1>1, <3>2, FinishedEntry
      <4>2. /\ SameBut(picker, new, p)
            /\ new.dl[p].passed_hash_check = picker.dl[p].passed_hash_check
            /\ picker' = IF new.dl[p].finished >= blocks_in_piece(p) /\ new.dl[p].passed_hash_check
                         THEN we_have(new, p) ELSE new
        BY <1>1, <2>1, <4>1 DEF Written
      <4> HIDE DEF new
      <4>3. CASE picker' = new
        BY <4>2, <4>3 DEF SameBut, Verified
      <4>4. CASE new.dl[p].passed_hash_check
        BY <4>2, <4>4 DEF Verified
      <4> QED BY <4>2, <4>3, <4>4
    <3> QED BY <3>1, <3>2
  <2> QED BY <1>1, <1>2, <2>1, <2>2, StoredQuiet
<1> QED BY <1>3, <1>4 DEF on_disk_write_complete

\* Hash jobs: a piece that passes now was seen to be good when its job came back.
LEMMA StoredVerified ==
    ASSUME FlowOk, Checked, AllStored, NEW i \in 1..Len(jobs), call_job_handler(i),
           on_piece_verified(i)
    PROVE  AllStored'
<1> DEFINE p == jobs[i].piece
<1>1. /\ PickerOk(picker) /\ p \in Pieces /\ jobs[i].kind = "hash" /\ Frame(p, i)
  BY JobAt, HandlerFrame DEF FlowOk, on_piece_verified
<1>2. /\ Rest(jobs, jobs', i) /\ disk' = disk /\ jobs[i].ret # "pending"
      /\ p \notin failed' =>
           \A k \in 1..Len(jobs') : k > Left(jobs, i) => jobs'[k].kind = "clear"
  BY HandlerRest
<1>3. CASE HashError(i)
  <2>1. p \in failed'
    BY <1>3 DEF HashError
  <2> QED BY <1>1, <1>2, <2>1, StoredStep
<1>4. CASE HashResult(i)
  <2>1. \/ picker' = picker
        \/ picker' = piece_passed(picker, p) /\ jobs[i].ret = "ok"
        \/ picker' = lock_piece(picker, p)
    BY <1>4 DEF HashResult, piece_failed, Drop
  <2>2. ASSUME p \notin failed'
        PROVE  p \in picker'.have \/ picker'.dl[p].passed_hash_check => Verified(picker, jobs, p)
    <3>1. p \notin failed
      BY <1>1, <2>2 DEF Frame
    <3>2. i \in Checks(jobs, p) /\ Downloading(picker, p)
      BY <1>1, <3>1, CheckHandled
    <3>3. CASE picker' = picker
      BY <3>3 DEF Verified
    <3>4. CASE jobs[i].ret = "ok"
      BY <1>1, <3>2, <3>4 DEF Verified
    <3>5. CASE picker' = lock_piece(picker, p)
      <4>1. Locked(picker, p)
        BY <1>1, <3>2, LockEffect
      <4>2. SameButPassed(picker, picker', p) /\ picker'.dl[p].passed_hash_check = FALSE
        BY <3>5, <4>1 DEF Locked
      <4> QED BY <4>2 DEF SameButPassed, Verified
    <3> QED BY <2>1, <3>3, <3>4, <3>5
  <2> QED BY <1>1, <1>2, <2>2, StoredQuiet
<1> QED BY <1>3, <1>4 DEF on_piece_verified

\* Clear jobs.
LEMMA StoredCleared ==
    ASSUME FlowOk, AllStored, NEW i \in 1..Len(jobs), call_job_handler(i),
           on_piece_sync(i) \/ on_piece_fail_sync(i)
    PROVE  AllStored'
<1> DEFINE p == jobs[i].piece
<1>1. /\ PickerOk(picker) /\ p \in Pieces /\ Frame(p, i) /\ jobs[i].kind # "write"
  BY JobAt, HandlerFrame DEF FlowOk, on_piece_sync, on_piece_fail_sync
<1>2. /\ Rest(jobs, jobs', i) /\ disk' = disk /\ jobs[i].ret # "pending"
      /\ p \notin failed' =>
           \A k \in 1..Len(jobs') : k > Left(jobs, i) => jobs'[k].kind = "clear"
  BY HandlerRest
<1>3. p \in picker'.have \/ picker'.dl[p].passed_hash_check => Verified(picker, jobs, p)
  <2>1. CASE on_piece_fail_sync(i)
    BY <2>1 DEF on_piece_fail_sync, Verified
  <2>2. CASE on_piece_sync(i)
    <3>1. Restarted(p) /\ picker' = RestoreAndRequest(p)
      BY <1>1, <2>2, RestartedEntry DEF on_piece_sync
    <3>2. SameBut(picker, picker', p) /\ picker'.dl[p].passed_hash_check = FALSE
      BY <3>1 DEF Restarted
    <3> QED BY <3>2 DEF SameBut, Verified
  <2> QED BY <2>1, <2>2
<1> QED BY <1>1, <1>2, <1>3, StoredQuiet

\* The disk threads change results only: the jobs of a block and of a piece stay.
LEMMA DiskJobs ==
    ASSUME JobsOk, NEW i \in 1..Len(jobs), perform_job(i)
    PROVE  /\ Len(jobs') = Len(jobs)
           /\ \A b : WritesOf(jobs', b) = WritesOf(jobs, b)
           /\ \A b : \A k \in WritesOf(jobs, b) : jobs'[k].data = jobs[k].data
           /\ \A p : Checks(jobs', p) = Checks(jobs, p)
           /\ \A k \in 1..Len(jobs) : jobs'[k].kind = jobs[k].kind /\ jobs'[k].piece = jobs[k].piece
<1>1. /\ Len(jobs') = Len(jobs)
      /\ \A k \in 1..Len(jobs) : SameJob(jobs'[k], jobs[k])
  BY PerformedFrom
<1>2. \A k \in 1..Len(jobs) :
         /\ jobs'[k].kind = jobs[k].kind /\ jobs'[k].piece = jobs[k].piece
         /\ jobs[k].kind = "write" => jobs'[k].block = jobs[k].block /\ jobs'[k].data = jobs[k].data
  BY <1>1 DEF SameJob
<1>3. \A b : WritesOf(jobs', b) = WritesOf(jobs, b)
  BY <1>1, <1>2 DEF WritesOf
<1>4. \A b : \A k \in WritesOf(jobs, b) : jobs'[k].data = jobs[k].data
  BY <1>2 DEF WritesOf
<1>5. \A p : Checks(jobs', p) = Checks(jobs, p)
  BY <1>1, <1>2 DEF Checks
<1> QED BY <1>1, <1>2, <1>3, <1>4, <1>5

\* Job i comes back with result r.
LEMMA ReturnedJob ==
    ASSUME JobsOk, NEW i \in 1..Len(jobs), NEW r \in Rets, Return(i, r)
    PROVE  jobs'[i].ret = r /\ \A k \in 1..Len(jobs) : k # i => jobs'[k] = jobs[k]
<1>1. jobs[i] \in AllJobs /\ jobs \in Seq(AllJobs)
  BY DEF JobsOk
<1>2. jobs' = [jobs EXCEPT ![i] = [jobs[i] EXCEPT !.ret = r]]
  BY <1>1 DEF Return
<1>3. [jobs[i] EXCEPT !.ret = r].ret = r
  BY <1>1, JobReturns
<1> QED BY <1>1, <1>2, <1>3

\* A block of which neither the data nor the writes have changed.
LEMMA BlockKept ==
    ASSUME JobsOk, NEW i \in 1..Len(jobs), perform_job(i), NEW b, disk'[b] = disk[b],
           \A k \in WritesOf(jobs, b) : jobs'[k].ret = jobs[k].ret
    PROVE  /\ Ghosts(jobs, disk, b) => Ghosts(jobs', disk', b)
           /\ Sound(jobs, disk, b) => Sound(jobs', disk', b)
<1>1. /\ WritesOf(jobs', b) = WritesOf(jobs, b)
      /\ \A k \in WritesOf(jobs, b) : jobs'[k].data = jobs[k].data
  BY DiskJobs
<1>2. Ghosts(jobs, disk, b) => Ghosts(jobs', disk', b)
  BY <1>1 DEF Ghosts
<1>3. Sound(jobs, disk, b) => Sound(jobs', disk', b)
  BY <1>1 DEF Sound
<1> QED BY <1>2, <1>3

\* No hash job has come back: what was not known to be good is not now.
LEMMA VerifiedKept ==
    ASSUME JobsOk, NEW i \in 1..Len(jobs), perform_job(i), NEW p,
           \A k \in Checks(jobs, p) : jobs[k].kind = "hash" /\ jobs'[k].ret = "ok" => jobs[k].ret = "ok",
           Verified(picker', jobs', p)
    PROVE  Verified(picker, jobs, p)
<1>1. picker' = picker
  BY DEF perform_job
<1>2. Checks(jobs', p) = Checks(jobs, p) /\ \A k \in Checks(jobs, p) : jobs'[k].kind = jobs[k].kind
  BY DiskJobs DEF Checks
<1> QED BY <1>1, <1>2 DEF Verified

\* The one write of a block.
LEMMA OnlyWrite ==
    ASSUME JobsOk, NEW S, NEW k \in 1..Len(jobs), k \in S, \A l \in S : l = k
    PROVE  Max(S) = k
<1>1. k \in Nat
  BY DEF JobsOk
<1>2. S \subseteq 0..k /\ S # {}
  BY <1>1
<1>3. Max(S) \in S
  BY <1>1, <1>2, GreatestExists
<1> QED BY <1>3

\* A block is written.
LEMMA StoredWrite ==
    ASSUME JobsOk, NEW i \in 1..Len(jobs), perform_job(i), DoWrite(i),
           NEW p \in Pieces, Tracked(picker, jobs, p), Stored(picker, jobs, disk, p),
           NEW b \in Blocks, b[1] = p
    PROVE  /\ Ghosts(jobs', disk', b)
           /\ Verified(picker', jobs', p) => Sound(jobs', disk', b)
<1>1. /\ jobs[i].kind = "write" /\ jobs[i].block \in Blocks /\ jobs[i].data \in Data
      /\ jobs[i].block[1] = jobs[i].piece
      /\ jobs[i].ret = "pending"
      /\ disk' = [disk EXCEPT ![jobs[i].block] = jobs[i].data]
      /\ disk \in [Blocks -> Contents]
  BY JobAt DEF DoWrite, perform_job, MayRun, Pending, JobsOk
<1>2. jobs'[i].ret = "ok" /\ \A k \in 1..Len(jobs) : k # i => jobs'[k] = jobs[k]
  BY ReturnedJob DEF DoWrite, Rets
<1>3. Ghosts(jobs, disk, b) /\ (Verified(picker, jobs, p) => Sound(jobs, disk, b))
  BY DEF Stored
<1>4. Verified(picker', jobs', p) => Verified(picker, jobs, p)
  <2>1. \A k \in Checks(jobs, p) : jobs[k].kind = "hash" /\ jobs'[k].ret = "ok" => jobs[k].ret = "ok"
    BY <1>1, <1>2 DEF Checks
  <2> QED BY <2>1, VerifiedKept
<1>5. CASE b = jobs[i].block
  <2>1. i \in WritesOf(jobs, b)
    BY <1>1, <1>5 DEF WritesOf
  <2>2. \A k \in WritesOf(jobs, b) : k = i
    BY <2>1 DEF Tracked
  <2>3. WritesOf(jobs', b) = WritesOf(jobs, b) /\ disk'[b] = jobs[i].data
    BY <1>1, <1>5, DiskJobs
  <2>4. Ghosts(jobs', disk', b)
    BY <1>1, <2>3 DEF Ghosts, Data
  <2>5. ASSUME Sound(jobs, disk, b) PROVE Sound(jobs', disk', b)
    <3>1. jobs[i].data = "good"
      BY <1>1, <2>1, <2>5 DEF Sound
    <3> QED BY <1>2, <2>2, <2>3, <3>1 DEF Sound
  <2> QED BY <1>3, <1>4, <2>4, <2>5
<1>6. CASE b # jobs[i].block
  <2>1. disk'[b] = disk[b]
    BY <1>1, <1>6
  <2>2. \A k \in WritesOf(jobs, b) : jobs'[k].ret = jobs[k].ret
    <3>1. i \notin WritesOf(jobs, b)
      BY <1>6 DEF WritesOf
    <3> QED BY <1>2, <3>1 DEF WritesOf
  <2> QED BY <1>3, <1>4, <2>1, <2>2, BlockKept
<1> QED BY <1>5, <1>6

\* The writes of a piece fail: good data become ghosts.
LEMMA StoredFailure ==
    ASSUME JobsOk, NEW i \in 1..Len(jobs), perform_job(i), FailWrites(i),
           NEW p \in Pieces, Tracked(picker, jobs, p), Stored(picker, jobs, disk, p),
           NEW b \in Blocks, b[1] = p
    PROVE  /\ Ghosts(jobs', disk', b)
           /\ Verified(picker', jobs', p) => Sound(jobs', disk', b)
<1> DEFINE fails == {k \in 1..Len(jobs) :
                       /\ jobs[k].kind = "write" /\ jobs[k].piece = jobs[i].piece
                       /\ MayRun(k)}
           ks == {k \in fails : jobs[k].block = b}
<1>1. /\ jobs' = [k \in 1..Len(jobs) |->
                    IF k \in fails THEN [jobs[k] EXCEPT !.ret = "error"] ELSE jobs[k]]
      /\ disk'[b] = IF ks = {} THEN disk[b]
                    ELSE IF jobs[Max(ks)].data = "good" THEN "ghost" ELSE "bad"
  BY DEF FailWrites
<1>2. \A k \in fails : /\ k \in 1..Len(jobs) /\ jobs[k].kind = "write"
                       /\ jobs[k].piece = jobs[i].piece /\ jobs[k].ret = "pending"
  BY DEF MayRun, Pending
<1>3. \A k \in ks : k \in fails /\ jobs[k].block = b
  OBVIOUS
<1>4. \A k \in fails : jobs[k].block = b => k \in ks
  OBVIOUS
<1> HIDE DEF fails, ks
<1>5. /\ \A k \in fails : jobs'[k].ret = "error"
      /\ \A k \in 1..Len(jobs) : k \notin fails => jobs'[k] = jobs[k]
  <2>1. ASSUME NEW k \in fails PROVE jobs'[k].ret = "error"
    <3>1. k \in 1..Len(jobs) /\ jobs[k] \in AllJobs /\ "error" \in Rets
      BY <1>2, JobAt DEF Rets
    <3>2. [jobs[k] EXCEPT !.ret = "error"].ret = "error"
      BY <3>1, JobReturns
    <3> QED BY <1>1, <3>1, <3>2
  <2> QED BY <1>1, <2>1
<1>6. Ghosts(jobs, disk, b) /\ (Verified(picker, jobs, p) => Sound(jobs, disk, b))
  BY DEF Stored
<1>7. Verified(picker', jobs', p) => Verified(picker, jobs, p)
  <2>1. \A k \in Checks(jobs, p) : jobs[k].kind = "hash" /\ jobs'[k].ret = "ok" => jobs[k].ret = "ok"
    BY <1>2, <1>5 DEF Checks
  <2> QED BY <2>1, VerifiedKept
<1>8. CASE ks = {}
  <2>1. \A k \in WritesOf(jobs, b) : jobs'[k].ret = jobs[k].ret
    <3>1. \A k \in WritesOf(jobs, b) : k \notin fails
      BY <1>4, <1>8 DEF WritesOf
    <3> QED BY <1>5, <3>1 DEF WritesOf
  <2> QED BY <1>1, <1>6, <1>7, <1>8, <2>1, BlockKept
<1>9. CASE ks # {}
  <2>1. PICK k \in ks : TRUE
    BY <1>9
  <2>2. k \in 1..Len(jobs) /\ jobs[k].kind = "write" /\ jobs[k].block = b /\ jobs[k].piece = b[1]
    BY <1>2, <1>3, <2>1, JobAt
  <2>3. k \in WritesOf(jobs, b)
    BY <2>2 DEF WritesOf
  <2>4. \A l \in WritesOf(jobs, b) : l = k
    BY <2>3 DEF Tracked
  <2>5. \A l \in ks : l = k
    <3>1. \A l \in ks : l \in WritesOf(jobs, b)
      BY <1>2, <1>3, JobAt DEF WritesOf
    <3> QED BY <2>4, <3>1
  <2>6. Max(ks) = k
    BY <2>2, <2>5, OnlyWrite
  <2>7. disk'[b] = IF jobs[k].data = "good" THEN "ghost" ELSE "bad"
    BY <1>1, <1>9, <2>6
  <2>8. WritesOf(jobs', b) = WritesOf(jobs, b) /\ jobs'[k].ret = "error"
    BY <1>3, <1>5, DiskJobs
  <2>9. Ghosts(jobs', disk', b)
    BY <2>3, <2>8 DEF Ghosts
  <2>10. ASSUME Sound(jobs, disk, b) PROVE Sound(jobs', disk', b)
    <3>1. jobs[k].data = "good"
      BY <1>2, <1>3, <2>3, <2>10 DEF Sound
    <3> QED BY <2>4, <2>7, <2>8, <3>1 DEF Sound
  <2> QED BY <1>6, <1>7, <2>9, <2>10
<1> QED BY <1>8, <1>9

\* A piece is hashed: what the job sees of a block is its write, if there is one,
\* because a write that stands before the job may run when the job may.
LEMMA StoredHash ==
    ASSUME JobsOk, NEW i \in 1..Len(jobs), perform_job(i), do_hash(i),
           NEW p \in Pieces, Tracked(picker, jobs, p), Stored(picker, jobs, disk, p),
           NEW b \in Blocks, b[1] = p
    PROVE  /\ Ghosts(jobs', disk', b)
           /\ Verified(picker', jobs', p) => Sound(jobs', disk', b)
<1>1. jobs[i].kind = "hash" /\ MayRun(i) /\ disk' = disk
  BY DEF do_hash, perform_job
<1>2. PICK r \in Rets : Return(i, r)
  BY DEF do_hash, Rets
<1>3. jobs'[i].ret = r /\ \A k \in 1..Len(jobs) : k # i => jobs'[k] = jobs[k]
  BY <1>2, ReturnedJob
<1>4. \A k \in WritesOf(jobs, b) : k # i /\ jobs'[k] = jobs[k]
  BY <1>1, <1>3 DEF WritesOf
<1>5. /\ Ghosts(jobs, disk, b) => Ghosts(jobs', disk', b)
      /\ Sound(jobs, disk, b) => Sound(jobs', disk', b)
  BY <1>1, <1>4, BlockKept
<1>6. Ghosts(jobs, disk, b) /\ (Verified(picker, jobs, p) => Sound(jobs, disk, b))
  BY DEF Stored
<1>7. CASE ~(jobs[i].piece = p /\ r = "ok")
  <2>1. \A k \in Checks(jobs, p) : jobs[k].kind = "hash" /\ jobs'[k].ret = "ok" => jobs[k].ret = "ok"
    BY <1>3, <1>7 DEF Checks
  <2>2. Verified(picker', jobs', p) => Verified(picker, jobs, p)
    BY <2>1, VerifiedKept
  <2> QED BY <1>5, <1>6, <2>2
<1>8. CASE jobs[i].piece = p /\ r = "ok"
  <2>1. Visible(b) \in {"good", "ghost"}
    <3> DEFINE seen == {Visible(<<jobs[i].piece, k>>) : k \in 1..blocks_in_piece(jobs[i].piece)}
    <3>1. \/ seen \subseteq {"good", "ghost"}
          \/ Return(i, "mismatch") \/ Return(i, "error")
      BY DEF do_hash
    <3>2. ~Return(i, "mismatch") /\ ~Return(i, "error")
      <4>1. ASSUME NEW s \in Rets, Return(i, s) PROVE s = "ok"
        BY <1>3, <1>8, <4>1, ReturnedJob
      <4> QED BY <4>1 DEF Rets
    <3>3. Visible(<<p, b[2]>>) \in seen /\ b = <<p, b[2]>>
      BY <1>8, BlockParts
    <3> QED BY <3>1, <3>2, <3>3
  <2> DEFINE ws == {k \in 1..Len(jobs) :
                      jobs[k].kind = "write" /\ jobs[k].block = b /\ MayRun(k)}
  <2>2. Visible(b) = IF ws = {} THEN disk[b] ELSE jobs[Max(ws)].data
    BY DEF Visible
  <2>3. \A k \in ws : k \in WritesOf(jobs, b)
    BY JobAt DEF WritesOf
  <2>4. ASSUME NEW k \in WritesOf(jobs, b), jobs[k].ret = "pending" PROVE k \in ws
    <3>1. k \in 1..Len(jobs) /\ jobs[k].kind = "write" /\ jobs[k].piece = p /\ jobs[k].block = b
      BY DEF WritesOf
    <3>2. i \in Checks(jobs, p)
      BY <1>1, <1>8 DEF Checks
    <3>3. k < i
      BY <3>1, <3>2 DEF Tracked, Ordered
    <3>4. ~IsFence(jobs[k]) /\ Pending(k)
      BY <2>4, <3>1 DEF IsFence, Pending
    <3>5. ASSUME NEW l \in 1..(k - 1), IsFence(jobs[l]) PROVE ~Pending(l)
      <4>1. l \in 1..(i - 1)
        BY <3>1, <3>3
      <4> QED BY <1>1, <3>5, <4>1 DEF MayRun
    <3>6. MayRun(k)
      BY <3>4, <3>5 DEF MayRun
    <3> QED BY <3>1, <3>6
  <2>5. \A k \in ws : jobs[k].ret = "pending"
    BY DEF MayRun, Pending
  <2> HIDE DEF ws
  <2>6. Sound(jobs, disk, b)
    <3>1. CASE ws = {}
      BY <2>1, <2>2, <2>4, <3>1 DEF Sound
    <3>2. CASE ws # {}
      <4>1. PICK k \in ws : TRUE
        BY <3>2
      <4>2. k \in WritesOf(jobs, b) /\ k \in 1..Len(jobs) /\ jobs[k].data \in Data
        BY <2>3, JobAt DEF WritesOf
      <4>3. \A l \in WritesOf(jobs, b) : l = k
        BY <4>2 DEF Tracked
      <4>4. Max(ws) = k
        BY <2>3, <4>2, <4>3, OnlyWrite
      <4>5. jobs[k].data = "good"
        BY <2>1, <2>2, <3>2, <4>2, <4>4 DEF Data
      <4> QED BY <2>5, <4>2, <4>3, <4>5 DEF Sound
    <3> QED BY <3>1, <3>2
  <2> QED BY <1>5, <1>6, <2>6
<1> QED BY <1>7, <1>8

\* A piece is cleared: it is not one that is known to be good.
LEMMA StoredClear ==
    ASSUME FlowOk, Checked, NEW i \in 1..Len(jobs), perform_job(i), do_clear_piece(i),
           NEW p \in Pieces, p \notin failed, Stored(picker, jobs, disk, p),
           NEW b \in Blocks, b[1] = p
    PROVE  /\ Ghosts(jobs', disk', b)
           /\ Verified(picker', jobs', p) => Sound(jobs', disk', b)
<1>1. /\ JobsOk /\ jobs[i].kind \in {"clear", "clear_failed"}
      /\ disk'[b] = IF b[1] = jobs[i].piece /\ disk[b] = "ghost" THEN "none" ELSE disk[b]
  BY DEF FlowOk, do_clear_piece, IsFence
<1>2. \A k \in 1..Len(jobs) : k # i => jobs'[k] = jobs[k]
  BY <1>1, ReturnedJob DEF do_clear_piece, Rets
<1>3. \A k \in WritesOf(jobs, b) : jobs'[k] = jobs[k]
  BY <1>1, <1>2 DEF WritesOf
<1>4. Ghosts(jobs, disk, b) /\ (Verified(picker, jobs, p) => Sound(jobs, disk, b))
  BY DEF Stored
<1>5. Verified(picker', jobs', p) => Verified(picker, jobs, p)
  <2>1. \A k \in Checks(jobs, p) : jobs[k].kind = "hash" /\ jobs'[k].ret = "ok" => jobs[k].ret = "ok"
    BY <1>1, <1>2 DEF Checks
  <2> QED BY <1>1, <2>1, VerifiedKept
<1>6. CASE disk'[b] = disk[b]
  BY <1>1, <1>3, <1>4, <1>5, <1>6, BlockKept
<1>7. CASE jobs[i].piece = p /\ disk'[b] = "none"
  <2>1. jobs[i].kind = "clear"
    BY <1>1, <1>7 DEF Stored
  <2>2. /\ i \in Checks(jobs, p) /\ \A k, l \in Checks(jobs, p) : k = l
        /\ p \notin picker.have /\ ~picker.dl[p].passed_hash_check
    BY <1>7, <2>1, CheckHandled
  <2>3. ~Verified(picker, jobs, p)
    BY <2>1, <2>2 DEF Verified
  <2> QED BY <1>5, <1>7, <2>3 DEF Ghosts
<1> QED BY <1>1, <1>6, <1>7

\* The disk threads.
LEMMA StoredDisk ==
    ASSUME FlowOk, Checked, AllTracked, AllStored, NEW i \in 1..Len(jobs), perform_job(i)
    PROVE  AllStored'
<1>1. JobsOk /\ late' = late /\ failed' = failed
  BY DEF FlowOk, perform_job, history
<1>2. ASSUME NEW p \in Pieces, p \notin late, p \notin failed
      PROVE  Stored(picker', jobs', disk', p)
  <2>1. Tracked(picker, jobs, p) /\ Stored(picker, jobs, disk, p)
    BY <1>2 DEF AllTracked, AllStored
  <2>2. \A k \in 1..Len(jobs') : jobs'[k].piece = p => jobs'[k].kind # "clear_failed"
    BY <1>1, <2>1, DiskJobs DEF Stored
  <2>3. ASSUME NEW b \in Blocks, b[1] = p
        PROVE  /\ Ghosts(jobs', disk', b)
               /\ Verified(picker', jobs', p) => Sound(jobs', disk', b)
    <3>1. CASE DoWrite(i)
      BY <1>1, <2>1, <2>3, <3>1, StoredWrite
    <3>2. CASE FailWrites(i)
      BY <1>1, <2>1, <2>3, <3>2, StoredFailure
    <3>3. CASE do_hash(i)
      BY <1>1, <2>1, <2>3, <3>3, StoredHash
    <3>4. CASE do_clear_piece(i)
      BY <1>2, <2>1, <2>3, <3>4, StoredClear
    <3> QED BY <3>1, <3>2, <3>3, <3>4 DEF perform_job
  <2> QED BY <2>2, <2>3 DEF Stored
<1> QED BY <1>1, <1>2 DEF AllStored

\* Steps that change neither picker, jobs nor disk.
LEMMA StoredSame ==
    ASSUME AllStored, picker' = picker, jobs' = jobs, disk' = disk, late' = late, failed' = failed
    PROVE  AllStored'
  BY DEF AllStored

\* Every step keeps the invariant.
LEMMA StoredNext == FlowOk /\ Checked /\ AllTracked /\ AllStored /\ [Next]_vars => AllStored'
<1> SUFFICES ASSUME FlowOk, Checked, AllTracked, AllStored, [Next]_vars PROVE AllStored'
  OBVIOUS
<1>1. ASSUME NEW w, NEW p \in Pieces, PrioritizePiece(w, p), jobs' = jobs, late' = late,
             failed' = failed, disk' = disk
      PROVE  AllStored'
  BY <1>1, StoredPriority
<1>2. ASSUME NEW c \in Peers, disconnect(c) PROVE AllStored'
  BY <1>2, StoredSame DEF disconnect, Drop, history
<1>3. ASSUME NEW w \in SUBSET Pieces, prioritize_pieces(w) PROVE AllStored'
  <2>1. 0 \in Pieces
    BY Layout DEF Pieces
  <2> QED BY <1>1, <1>3, <2>1 DEF prioritize_pieces, history
<1>4. CASE leave_upload_mode
  BY <1>4, StoredSame DEF leave_upload_mode, history
<1>5. CASE Network
  BY <1>2, <1>3, <1>4, <1>5, StoredPeers DEF Network, incoming_reject_request
<1>6. CASE Loops
  <2>1. ASSUME prioritize_next PROVE AllStored'
    <3>1. setting.index \in Pieces
      BY <2>1 DEF prioritize_next, FlowOk, SettingOk
    <3> QED BY <1>1, <2>1, <3>1 DEF prioritize_next, history
  <2> QED BY <1>6, <2>1, StoredPeers DEF Loops, empty_download_queue
<1>7. CASE Disk
  BY <1>7, StoredDisk DEF Disk
<1>8. CASE Handlers
  <2>1. PICK i \in 1..Len(jobs) : call_job_handler(i)
    BY <1>8 DEF Handlers
  <2> QED BY <2>1, StoredWritten, StoredVerified, StoredCleared DEF call_job_handler
<1>9. CASE UNCHANGED vars
  BY <1>9, StoredSame DEF vars, history
<1> QED BY <1>5, <1>6, <1>7, <1>8, <1>9 DEF Next

\* It holds when nothing has happened.
LEMMA StoredInit == Init => AllStored
<1> SUFFICES ASSUME Init, NEW p \in Pieces PROVE Stored(picker, jobs, disk, p)
  BY DEF AllStored
<1>1. /\ picker.have = {} /\ picker.dl[p] = NoDownload(p) /\ Len(jobs) = 0
      /\ \A b \in Blocks : disk[b] = "none"
  BY DEF Init, init
<1>2. NoDownload(p).passed_hash_check = FALSE
  BY DEF NoDownload
<1>3. Checks(jobs, p) = {}
  BY <1>1 DEF Checks
<1> QED BY <1>1, <1>2, <1>3 DEF Stored, Verified, Ghosts

\* Types, checks, blocks and disk, in every state.
LEMMA StoredInvariant == Spec => [](FlowOk /\ Checked /\ AllTracked /\ AllStored)
<1>1. Init => AllStored
  BY StoredInit
<1>2. (FlowOk /\ Checked /\ AllTracked) /\ AllStored /\ [Next]_vars => AllStored'
  BY StoredNext
<1> QED BY <1>1, <1>2, TrackedInvariant, PTL DEF Spec

\* we_have tells the truth: every block of a piece that the picker calls there
\* is on disk as it should be, unless a disk error or a late report met the
\* piece.  No order of writes, hash and clear jobs, no end game and no second
\* download of a piece lets a hash pass for data that are not written.
THEOREM HavesAreOnDisk == Spec => []HaveIsOnDisk
<1>1. FlowOk /\ Checked /\ AllTracked /\ AllStored => HaveIsOnDisk
  <2> SUFFICES ASSUME FlowOk, Checked, AllTracked, AllStored,
                      NEW b \in Blocks, b[1] \in picker.have, b[1] \in Undisturbed
               PROVE  disk[b] = "good"
    BY DEF HaveIsOnDisk
  <2> DEFINE p == b[1]
  <2>1. /\ p \in Pieces /\ Sane(picker, p) /\ Tracked(picker, jobs, p)
        /\ Stored(picker, jobs, disk, p)
    BY DEF Undisturbed, Checked, Passing, AllTracked, AllStored
  <2>2. StateOf(picker, b) = "none"
    BY <2>1, AgreesEmpty DEF Sane
  <2>3. WritesOf(jobs, b) = {}
    BY <2>1, <2>2 DEF Tracked
  <2>4. Ghosts(jobs, disk, b) /\ Sound(jobs, disk, b)
    BY <2>1 DEF Stored, Verified
  <2> QED BY <2>3, <2>4 DEF Ghosts, Sound
<1> QED BY <1>1, StoredInvariant, PTL

-----------------------------------------------------------------------------
(***************************************************************************)
(* Who owes the blocks.  While neither a disk error nor a late report has   *)
(* met a piece that is not there, num_peers of a block that has not come is *)
(* the number of peers that were asked for it and still owe it.             *)
(***************************************************************************)
HoldersIn(q, st, b) == {c \in Peers : b \in q[c] \ st[c]}

Owes(pk, b, H) ==
    StateOf(pk, b) \in {"none", "requested"} => num_peers(pk, b) = Cardinality(H)

AllOwed ==
    \A b \in Blocks : b[1] \notin late /\ b[1] \notin failed /\ b[1] \notin picker.have =>
        Owes(picker, b, HoldersIn(queue, stale, b))

\* Block a is as it was.
Alike(pk, new, a) ==
    StateOf(new, a) = StateOf(pk, a) /\ num_peers(new, a) = num_peers(pk, a)

\* Every block of its piece but b is.
OthersAlike(pk, new, b) == \A a \in Blocks : a[1] = b[1] /\ a # b => Alike(pk, new, a)

\* One block gets another state and another number of peers.
LEMMA AlikeMove ==
    ASSUME NEW pk, NEW new, NEW b \in Blocks, NEW v, NEW m,
           pk.dl[b[1]] \in EntryType(b[1]),
           new.dl[b[1]].state = [pk.dl[b[1]].state EXCEPT ![b[2]] = v],
           new.dl[b[1]].num_peers = [pk.dl[b[1]].num_peers EXCEPT ![b[2]] = m]
    PROVE  StateOf(new, b) = v /\ num_peers(new, b) = m /\ OthersAlike(pk, new, b)
<1>1. /\ b[1] \in Pieces /\ b[2] \in 1..blocks_in_piece(b[1]) /\ b = <<b[1], b[2]>>
      /\ pk.dl[b[1]].num_peers \in [1..blocks_in_piece(b[1]) -> Nat]
  BY BlockParts, EntryDomain
<1>2. ASSUME NEW a \in Blocks, a[1] = b[1], a # b PROVE num_peers(new, a) = num_peers(pk, a)
  <2>1. a = <<a[1], a[2]>> /\ a[2] \in 1..blocks_in_piece(b[1])
    BY <1>2, BlockParts
  <2>2. a[2] # b[2]
    BY <1>1, <1>2, <2>1
  <2> QED BY <1>1, <1>2, <2>1, <2>2 DEF num_peers
<1>3. num_peers(new, b) = m
  BY <1>1 DEF num_peers
<1>4. /\ StateOf(new, b) = v
      /\ \A a \in Blocks : a[1] = b[1] /\ a # b => StateOf(new, a) = StateOf(pk, a)
  BY SteadyMove
<1> QED BY <1>2, <1>3, <1>4 DEF OthersAlike, Alike

\* mark_as_downloading: one more peer.
LEMMA AskedPeers ==
    ASSUME NEW pk, PickerOk(pk), NEW b \in Blocks, StateOf(pk, b) \notin {"writing", "finished"}
    PROVE  LET new == mark_as_downloading(pk, b)
           IN  num_peers(new, b) = num_peers(pk, b) + 1 /\ OthersAlike(pk, new, b)
<1> DEFINE new == mark_as_downloading(pk, b)
           o == pk.dl[b[1]]
           m == o.num_peers[b[2]] + 1
<1>1. b[1] \in Pieces /\ o \in EntryType(b[1]) /\ b[2] \in 1..blocks_in_piece(b[1])
  BY BlockParts, OldEntry
<1>2. AskedFor(pk, b)
  BY DownloadingEntry
<1>3. /\ new.dl[b[1]].state = [o.state EXCEPT ![b[2]] = "requested"]
      /\ new.dl[b[1]].num_peers = [o.num_peers EXCEPT ![b[2]] = @ + 1]
  BY <1>2 DEF AskedFor
<1>4. new.dl[b[1]].num_peers = [o.num_peers EXCEPT ![b[2]] = m]
  BY <1>3
<1> HIDE DEF new, m, o
<1>5. num_peers(new, b) = m /\ OthersAlike(pk, new, b)
  <2> DEFINE v == "requested"
  <2> HIDE DEF v
  <2>1. new.dl[b[1]].state = [o.state EXCEPT ![b[2]] = v]
    BY <1>3 DEF v
  <2>2. /\ pk.dl[b[1]] \in EntryType(b[1])
        /\ new.dl[b[1]].state = [pk.dl[b[1]].state EXCEPT ![b[2]] = v]
        /\ new.dl[b[1]].num_peers = [pk.dl[b[1]].num_peers EXCEPT ![b[2]] = m]
    BY <1>1, <1>4, <2>1 DEF o
  <2> QED BY ONLY b \in Blocks, <2>2, AlikeMove
<1> QED BY <1>5 DEF new, m, o, num_peers

\* mark_as_writing and mark_as_finished leave the other blocks alone.
LEMMA StoredPeersAlike ==
    ASSUME NEW pk, PickerOk(pk), NEW b \in Blocks, b[1] \notin pk.have
    PROVE  /\ StateOf(pk, b) \notin {"writing", "finished"} =>
                /\ StateOf(mark_as_writing(pk, b), b) = "writing"
                /\ OthersAlike(pk, mark_as_writing(pk, b), b)
           /\ StateOf(pk, b) # "finished" =>
                /\ StateOf(FinishedBlock(pk, b), b) = "finished"
                /\ OthersAlike(pk, FinishedBlock(pk, b), b)
<1> DEFINE o == pk.dl[b[1]]
<1>1. b[1] \in Pieces /\ o \in EntryType(b[1]) /\ b[2] \in 1..blocks_in_piece(b[1])
  BY BlockParts, OldEntry
<1>2. ASSUME StateOf(pk, b) \notin {"writing", "finished"}
      PROVE  /\ StateOf(mark_as_writing(pk, b), b) = "writing"
             /\ OthersAlike(pk, mark_as_writing(pk, b), b)
  <2> DEFINE new == mark_as_writing(pk, b)
  <2>1. BeingWritten(pk, b)
    BY <1>2, WritingEntry
  <2>2. /\ new.dl[b[1]].state = [o.state EXCEPT ![b[2]] = "writing"]
        /\ new.dl[b[1]].num_peers = [o.num_peers EXCEPT ![b[2]] = 0]
    BY <2>1 DEF BeingWritten
  <2> HIDE DEF new
  <2>3. StateOf(new, b) = "writing" /\ OthersAlike(pk, new, b)
    BY <1>1, <2>2, AlikeMove
  <2> QED BY <2>3 DEF new
<1>3. ASSUME StateOf(pk, b) # "finished"
      PROVE  /\ StateOf(FinishedBlock(pk, b), b) = "finished"
             /\ OthersAlike(pk, FinishedBlock(pk, b), b)
  <2> DEFINE new == FinishedBlock(pk, b)
             m == o.num_peers[b[2]]
  <2>1. Written(pk, b)
    BY <1>3, FinishedEntry
  <2>2. /\ new.dl[b[1]].state = [o.state EXCEPT ![b[2]] = "finished"]
        /\ new.dl[b[1]].num_peers = o.num_peers
    BY <2>1 DEF Written
  <2>3. o.num_peers \in [1..blocks_in_piece(b[1]) -> Nat]
    BY <1>1, EntryDomain
  <2>4. new.dl[b[1]].num_peers = [o.num_peers EXCEPT ![b[2]] = m]
    BY <1>1, <2>2, <2>3
  <2> HIDE DEF new, m
  <2>5. StateOf(new, b) = "finished" /\ OthersAlike(pk, new, b)
    BY <1>1, <2>2, <2>4, AlikeMove
  <2> QED BY <2>5 DEF new
<1> QED BY <1>2, <1>3

\* abort_download: one peer less, and nothing else of the piece changes even if
\* its entry goes with the last request.
LEMMA AbortPeers ==
    ASSUME NEW pk, PickerOk(pk), NEW b \in Blocks, EntryAgrees(pk, b[1]), is_requested(pk, b)
    PROVE  LET new == abort_download(pk, b)
           IN  num_peers(new, b) = num_peers(pk, b) - 1 /\ OthersAlike(pk, new, b)
<1> DEFINE p == b[1]
           k == b[2]
           o == pk.dl[p]
           n == blocks_in_piece(p)
           new == abort_download(pk, b)
           x == FreedEntry(pk, b)
<1>1. /\ p \in Pieces /\ o \in EntryType(p) /\ k \in 1..n /\ Shape(pk)
      /\ o.state[k] = "requested" /\ num_peers(pk, b) = o.num_peers[k]
  BY BlockParts, OldEntry DEF is_requested, StateOf, num_peers
<1>2. o.num_peers \in [1..n -> Nat] /\ o.state \in [1..n -> BlockStates]
  BY <1>1, EntryDomain
<1>3. Exact(o) /\ Owned(p, o)
  BY <1>1, AgreesMeaning
<1>4. o.num_peers[k] \in Nat /\ o.num_peers[k] > 0
  BY <1>1, <1>2, <1>3 DEF Owned
<1>5. CASE num_peers(pk, b) > 1
  <2> DEFINE m == o.num_peers[k] - 1
             s == o.state[k]
  <2>1. LessAsked(pk, b)
    BY <1>5, SharedAbort
  <2>2. new.dl[p].state = o.state /\ new.dl[p].num_peers = [o.num_peers EXCEPT ![k] = m]
    BY <2>1 DEF LessAsked
  <2>3. new.dl[p].state = [o.state EXCEPT ![k] = s]
    BY <1>1, <1>2, <2>2
  <2> HIDE DEF m, s, new
  <2>4. num_peers(new, b) = m /\ OthersAlike(pk, new, b)
    BY <1>1, <2>2, <2>3, AlikeMove
  <2> QED BY <1>1, <2>4 DEF new, m
<1>6. CASE ~(num_peers(pk, b) > 1)
  <2>1. o.num_peers[k] - 1 = 0
    BY <1>1, <1>4, <1>6
  <2>2. GivenFree(pk, b)
    BY <1>6, LastAbort
  <2>3. /\ new = KeepInUse(pk, p, x)
        /\ x \in EntryType(p)
        /\ x.state = [o.state EXCEPT ![k] = "none"]
        /\ x.num_peers = [o.num_peers EXCEPT ![k] = 0]
        /\ x.requested = o.requested - 1 /\ x.writing = o.writing /\ x.finished = o.finished
    BY <2>2 DEF GivenFree
  <2> HIDE DEF new, x
  <2>4. /\ InUse(x) = 0 => new.dl[p] = NoDownload(p)
        /\ InUse(x) > 0 => new.dl[p].state = x.state /\ new.dl[p].num_peers = x.num_peers
        /\ InUse(x) \in Nat
    BY <1>1, <2>3, KeptEntry
  <2>5. CASE InUse(x) > 0
    <3>1. /\ new.dl[p].state = [o.state EXCEPT ![k] = "none"]
          /\ new.dl[p].num_peers = [o.num_peers EXCEPT ![k] = 0]
      BY <2>3, <2>4, <2>5
    <3>2. num_peers(new, b) = 0 /\ OthersAlike(pk, new, b)
      BY <1>1, <3>1, AlikeMove
    <3> QED BY <1>1, <2>1, <3>2 DEF new
  <2>6. CASE InUse(x) = 0
    <3>1. /\ InStates(x, "requested") = InStates(o, "requested") - One(o.state[k] = "requested") + One("none" = "requested")
          /\ InStates(x, "writing") = InStates(o, "writing") - One(o.state[k] = "writing") + One("none" = "writing")
          /\ InStates(x, "finished") = InStates(o, "finished") - One(o.state[k] = "finished") + One("none" = "finished")
          /\ InStates(o, "writing") \in Nat /\ InStates(o, "finished") \in Nat
      <4>1. "none" \in BlockStates
        BY DEF BlockStates
      <4> QED BY <1>1, <2>3, <4>1, StateCounts
    <3>2. /\ One(o.state[k] = "requested") = 1 /\ One(o.state[k] = "writing") = 0
          /\ One(o.state[k] = "finished") = 0 /\ One("none" = "requested") = 0
          /\ One("none" = "writing") = 0 /\ One("none" = "finished") = 0
      BY <1>1 DEF One
    <3>3. x.requested \in Nat /\ x.writing \in Nat /\ x.finished \in Nat
      BY <2>3, EntryDomain
    <3>4. x.requested = 0 /\ x.writing = 0 /\ x.finished = 0
      BY <2>6, <3>3 DEF InUse
    <3>5. InStates(x, "requested") = 0 /\ InStates(x, "writing") = 0 /\ InStates(x, "finished") = 0
      BY <1>3, <2>3, <3>1, <3>2, <3>4, <3>3 DEF Exact
    <3>6. \A l \in 1..n : x.state[l] = "none"
      <4>1. /\ InState(x, "requested") = {} /\ InState(x, "writing") = {}
            /\ InState(x, "finished") = {}
            /\ \A s : InState(x, s) = {l \in 1..n : x.state[l] = s}
        BY <1>1, <2>3, <3>5, StateSum
      <4>2. ASSUME NEW l \in 1..n
            PROVE  x.state[l] # "requested" /\ x.state[l] # "writing" /\ x.state[l] # "finished"
        BY <4>1
      <4>3. x.state \in [1..n -> BlockStates]
        BY <2>3, EntryDomain
      <4> QED BY <4>2, <4>3 DEF BlockStates
    <3>7. \A l \in 1..n : new.dl[p].state[l] = "none" /\ new.dl[p].num_peers[l] = 0
      <4>1. new.dl[p] = NoDownload(p)
        BY <2>4, <2>6
      <4>2. \A l \in 1..n : NoDownload(p).state[l] = "none" /\ NoDownload(p).num_peers[l] = 0
        BY DEF NoDownload
      <4> QED BY <4>1, <4>2
    <3>8. ASSUME NEW a \in Blocks, a[1] = b[1], a # b PROVE Alike(pk, new, a)
      <4>1. a[2] \in 1..n /\ a[2] # k
        <5>1. a = <<a[1], a[2]>> /\ b = <<b[1], b[2]>> /\ a[2] \in 1..n
          BY <3>8, BlockParts
        <5> QED BY <3>8, <5>1
      <4>2. x.state[a[2]] = o.state[a[2]]
        BY <1>1, <1>2, <2>3, <4>1
      <4>3. o.state[a[2]] = "none"
        BY <3>6, <4>1, <4>2
      <4>4. o.num_peers[a[2]] \in Nat /\ ~(o.num_peers[a[2]] > 0)
        BY <1>2, <1>3, <4>1, <4>3 DEF Owned
      <4>5. o.num_peers[a[2]] = 0
        BY <4>4
      <4> QED BY <3>7, <3>8, <4>1, <4>3, <4>5 DEF Alike, StateOf, num_peers
    <3>9. num_peers(new, b) = 0
      BY <1>1, <3>7 DEF num_peers
    <3> QED BY <1>1, <2>1, <3>8, <3>9 DEF new, OthersAlike
  <2> QED BY <2>4, <2>5, <2>6
<1> QED BY <1>5, <1>6

\* Who owes block b after a request of peer c for it is made, or is over.
LEMMA HoldersStep ==
    ASSUME PeersOk, NEW c \in Peers, NEW b
    PROVE  /\ IsFiniteSet(HoldersIn(queue, stale, b))
           /\ queue' = [queue EXCEPT ![c] = @ \cup {b}] /\ stale' = stale =>
                HoldersIn(queue', stale', b) = HoldersIn(queue, stale, b) \cup (IF b \in stale[c] THEN {} ELSE {c})
           /\ Unqueue(c, b) => HoldersIn(queue', stale', b) = HoldersIn(queue, stale, b) \ {c}
           /\ queue' = queue /\ stale' = [stale EXCEPT ![c] = @ \cup {b}] =>
                HoldersIn(queue', stale', b) = HoldersIn(queue, stale, b) \ {c}
<1>1. queue \in [Peers -> SUBSET Blocks] /\ stale \in [Peers -> SUBSET Blocks]
  BY DEF PeersOk
<1>2. IsFiniteSet(HoldersIn(queue, stale, b))
  BY FlowAssumption, FS_Subset DEF HoldersIn
<1>3. ASSUME queue' = [queue EXCEPT ![c] = @ \cup {b}], stale' = stale
      PROVE  HoldersIn(queue', stale', b) = HoldersIn(queue, stale, b) \cup (IF b \in stale[c] THEN {} ELSE {c})
  BY <1>1, <1>3 DEF HoldersIn
<1>4. ASSUME Unqueue(c, b)
      PROVE  HoldersIn(queue', stale', b) = HoldersIn(queue, stale, b) \ {c}
  BY <1>1, <1>4 DEF HoldersIn, Unqueue
<1>5. ASSUME queue' = queue, stale' = [stale EXCEPT ![c] = @ \cup {b}]
      PROVE  HoldersIn(queue', stale', b) = HoldersIn(queue, stale, b) \ {c}
  BY <1>1, <1>5 DEF HoldersIn
<1> QED BY <1>2, <1>3, <1>4, <1>5

\* Nothing happens to the requests for any block but b.
OnlyRequests(b) ==
    \A a \in Blocks : a # b => HoldersIn(queue', stale', a) = HoldersIn(queue, stale, a)

\* A step that touches the requests for one block.
LEMMA OtherHolders ==
    ASSUME PeersOk, NEW c \in Peers, NEW b
    PROVE  /\ queue' = [queue EXCEPT ![c] = @ \cup {b}] /\ stale' = stale => OnlyRequests(b)
           /\ Unqueue(c, b) => OnlyRequests(b)
           /\ queue' = queue /\ stale' = [stale EXCEPT ![c] = @ \cup {b}] => OnlyRequests(b)
<1>1. queue \in [Peers -> SUBSET Blocks] /\ stale \in [Peers -> SUBSET Blocks]
  BY DEF PeersOk
<1>2. ASSUME NEW a, a # b, queue' = [queue EXCEPT ![c] = @ \cup {b}], stale' = stale
      PROVE  HoldersIn(queue', stale', a) = HoldersIn(queue, stale, a)
  BY <1>1, <1>2 DEF HoldersIn
<1>3. ASSUME NEW a, a # b, Unqueue(c, b)
      PROVE  HoldersIn(queue', stale', a) = HoldersIn(queue, stale, a)
  BY <1>1, <1>3 DEF HoldersIn, Unqueue
<1>4. ASSUME NEW a, a # b, queue' = queue, stale' = [stale EXCEPT ![c] = @ \cup {b}]
      PROVE  HoldersIn(queue', stale', a) = HoldersIn(queue, stale, a)
  BY <1>1, <1>4 DEF HoldersIn
<1> QED BY <1>2, <1>3, <1>4 DEF OnlyRequests

\* cancel_block looks at one block only.
LEMMA CancelHolders ==
    ASSUME NEW pk, NEW b, NEW a, a # b, NEW q, NEW st
    PROVE  HoldersIn(q, cancel_block(pk, b, q, st), a) = HoldersIn(q, st, a)
<1>1. \A c \in Peers : a \in cancel_block(pk, b, q, st)[c] <=> a \in st[c]
  BY DEF cancel_block
<1> QED BY <1>1 DEF HoldersIn

\* It is enough to look at the piece the step concerns.
LEMMA OwedStep ==
    ASSUME FlowOk, AllOwed, NEW q, NEW i, Frame(q, i),
           \A a \in Blocks : a[1] # q => HoldersIn(queue', stale', a) = HoldersIn(queue, stale, a),
           \A a \in Blocks : a[1] = q /\ q \notin late' /\ q \notin failed' /\ q \notin picker'.have =>
               Owes(picker', a, HoldersIn(queue', stale', a))
    PROVE  AllOwed'
<1>1. late \subseteq late' /\ failed \subseteq failed' /\ OnlyPiece(picker, picker', q)
  BY DEF Frame
<1>2. ASSUME NEW a \in Blocks, a[1] \notin late', a[1] \notin failed', a[1] \notin picker'.have
      PROVE  Owes(picker', a, HoldersIn(queue', stale', a))
  <2>1. CASE a[1] # q
    <3>1. a[1] \in Pieces
      BY BlockParts
    <3>2. SamePiece(picker, picker', a[1])
      BY <1>1, <2>1, <3>1 DEF OnlyPiece
    <3>3. Owes(picker, a, HoldersIn(queue, stale, a))
      BY <1>1, <1>2, <3>2 DEF AllOwed, SamePiece
    <3>4. HoldersIn(queue', stale', a) = HoldersIn(queue, stale, a)
      BY <2>1
    <3> QED BY <3>2, <3>3, <3>4 DEF Owes, SamePiece, StateOf, num_peers
  <2> QED BY <1>2, <2>1
<1> QED BY <1>2 DEF AllOwed

\* At the block the step concerns.
LEMMA OwedBlock ==
    ASSUME FlowOk, AllOwed, NEW b \in Blocks, NEW i, Frame(b[1], i), OnlyRequests(b),
           b[1] \notin late' /\ b[1] \notin failed' /\ b[1] \notin picker'.have =>
               /\ b[1] \notin picker.have
               /\ OthersAlike(picker, picker', b)
               /\ Owes(picker', b, HoldersIn(queue', stale', b))
    PROVE  AllOwed'
<1>1. late \subseteq late' /\ failed \subseteq failed'
  BY DEF Frame
<1>2. ASSUME NEW a \in Blocks, a[1] = b[1], a # b,
             b[1] \notin late', b[1] \notin failed', b[1] \notin picker'.have
      PROVE  Owes(picker', a, HoldersIn(queue', stale', a))
  <2>1. Alike(picker, picker', a)
    BY <1>2 DEF OthersAlike
  <2>2. Owes(picker, a, HoldersIn(queue, stale, a))
    BY <1>1, <1>2 DEF AllOwed
  <2>3. HoldersIn(queue', stale', a) = HoldersIn(queue, stale, a)
    BY <1>2 DEF OnlyRequests
  <2> QED BY <2>1, <2>2, <2>3 DEF Owes, Alike
<1>3. \A a \in Blocks : a[1] # b[1] => HoldersIn(queue', stale', a) = HoldersIn(queue, stale, a)
  BY DEF OnlyRequests
<1> QED BY <1>2, <1>3, OwedStep

\* A request: one more peer owes the block, and num_peers counts it.
LEMMA OwedRequest ==
    ASSUME FlowOk, AllOwed, NEW c \in Peers, NEW b \in Blocks, add_request(c, b)
    PROVE  AllOwed'
<1>1. /\ PickerOk(picker) /\ PeersOk
      /\ queue' = [queue EXCEPT ![c] = @ \cup {b}] /\ stale' = stale
      /\ late' = late /\ failed' = failed
      /\ picker' = mark_as_downloading(picker, b)
      /\ StateOf(picker, b) \in {"none", "requested"} /\ b \notin queue[c]
      /\ b[1] \notin picker.have
  BY DEF FlowOk, add_request, history, is_requested, Pickable, Settled
<1>2. b \notin stale[c] /\ StateOf(picker, b) \notin {"writing", "finished"}
  BY <1>1 DEF PeersOk
<1> DEFINE H == HoldersIn(queue, stale, b)
<1>3. IsFiniteSet(H) /\ HoldersIn(queue', stale', b) = H \cup {c} /\ OnlyRequests(b) /\ c \notin H
  <2>1. c \notin H
    BY <1>1 DEF HoldersIn
  <2> QED BY <1>1, <1>2, <2>1, HoldersStep, OtherHolders
<1>4. num_peers(picker', b) = num_peers(picker, b) + 1 /\ OthersAlike(picker, picker', b)
  BY <1>1, <1>2, AskedPeers
<1> HIDE DEF H
<1>5. Cardinality(H \cup {c}) = Cardinality(H) + 1
  BY <1>3, FS_AddElement
<1>6. Frame(b[1], 0)
  BY PeerFrames
<1>7. ASSUME b[1] \notin late, b[1] \notin failed PROVE Owes(picker', b, HoldersIn(queue', stale', b))
  <2>1. num_peers(picker, b) = Cardinality(H)
    BY <1>1, <1>7 DEF AllOwed, Owes, H
  <2> QED BY <1>3, <1>4, <1>5, <2>1 DEF Owes
<1> QED BY <1>1, <1>3, <1>4, <1>6, <1>7, OwedBlock

\* abort_download brings no piece.
LEMMA AbortHave ==
    ASSUME NEW pk, PickerOk(pk), NEW b \in Blocks
    PROVE  abort_download(pk, b).have = pk.have
<1>1. b[1] \in Pieces /\ Shape(pk)
  BY BlockParts DEF PickerOk
<1>2. CASE ~is_requested(pk, b)
  BY <1>2 DEF abort_download
<1>3. CASE is_requested(pk, b) /\ num_peers(pk, b) > 1
  <2>1. LessAsked(pk, b)
    BY <1>3, SharedAbort
  <2> QED BY <2>1 DEF LessAsked, SameBut
<1>4. CASE is_requested(pk, b) /\ ~(num_peers(pk, b) > 1)
  <2> DEFINE x == FreedEntry(pk, b)
             new == abort_download(pk, b)
  <2>1. GivenFree(pk, b)
    BY <1>4, LastAbort
  <2>2. new = KeepInUse(pk, b[1], x) /\ x \in EntryType(b[1])
    BY <2>1 DEF GivenFree
  <2> HIDE DEF x, new
  <2>3. SameBut(pk, new, b[1])
    BY <1>1, <2>2, KeptEntry
  <2> QED BY <2>3 DEF SameBut, new
<1> QED BY <1>2, <1>3, <1>4

\* A peer that gives up a block: if it still owed it, num_peers is one less.
LEMMA OwedAbort ==
    ASSUME FlowOk, AllTracked, AllOwed, NEW c \in Peers, NEW b \in Blocks, Frame(b[1], 0),
           b \in queue[c], b \notin stale[c], picker' = abort_download(picker, b),
           OnlyRequests(b), late' = late, failed' = failed,
           HoldersIn(queue', stale', b) = HoldersIn(queue, stale, b) \ {c}
    PROVE  AllOwed'
<1> DEFINE p == b[1]
           H == HoldersIn(queue, stale, b)
<1>1. PickerOk(picker) /\ PeersOk /\ p \in Pieces
  BY BlockParts DEF FlowOk
<1>2. IsFiniteSet(H) /\ c \in H
  BY <1>1, HoldersStep DEF HoldersIn
<1> HIDE DEF H
<1>3. Cardinality(H \ {c}) = Cardinality(H) - 1 /\ Cardinality(H) \in Nat /\ Cardinality(H) # 0
  BY <1>2, FS_RemoveElement, FS_CardinalityType, FS_EmptySet
<1>4. HoldersIn(queue', stale', b) = H \ {c}
  BY DEF H
<1>5. picker'.have = picker.have
  BY <1>1, AbortHave
<1>6. ASSUME p \notin late, p \notin failed, p \notin picker.have
      PROVE  OthersAlike(picker, picker', b) /\ Owes(picker', b, H \ {c})
  <2>1. EntryAgrees(picker, p) /\ Owes(picker, b, H)
    BY <1>1, <1>6 DEF AllTracked, Tracked, AllOwed, H
  <2>2. CASE is_requested(picker, b)
    <3>1. num_peers(picker', b) = num_peers(picker, b) - 1 /\ OthersAlike(picker, picker', b)
      BY <1>1, <2>1, <2>2, AbortPeers
    <3>2. num_peers(picker, b) = Cardinality(H)
      BY <2>1, <2>2 DEF Owes, is_requested
    <3> QED BY <1>3, <3>1, <3>2 DEF Owes
  <2>3. CASE ~is_requested(picker, b)
    <3>1. picker' = picker
      BY <2>3 DEF abort_download
    <3>2. StateOf(picker, b) # "none"
      <4>1. ASSUME StateOf(picker, b) = "none" PROVE FALSE
        <5>1. num_peers(picker, b) = Cardinality(H)
          BY <2>1, <4>1 DEF Owes
        <5>2. num_peers(picker, b) = 0
          <6>1. picker.dl[p] \in EntryType(p)
            BY <1>1, OldEntry
          <6>2. Owned(p, picker.dl[p])
            BY <1>1, <2>1, <6>1, AgreesMeaning
          <6>3. b[2] \in 1..blocks_in_piece(p) /\ num_peers(picker, b) \in Nat
            BY <1>1, BlockParts, StateType
          <6>4. ~(num_peers(picker, b) > 0)
            BY <4>1, <6>2, <6>3 DEF Owned, num_peers, StateOf
          <6> QED BY <6>3, <6>4
        <5> QED BY <1>3, <5>1, <5>2
      <4> QED BY <4>1
    <3> QED BY <2>3, <3>1, <3>2 DEF Owes, OthersAlike, Alike, is_requested
  <2> QED BY <2>2, <2>3
<1> QED BY <1>4, <1>5, <1>6, OwedBlock

\* A block that comes is writing, so its number of peers does not count.
LEMMA OwedReceived ==
    ASSUME FlowOk, AllOwed, NEW c \in Peers, NEW b \in Blocks, NEW data \in Data,
           Received(c, b, data), Frame(b[1], 0)
    PROVE  AllOwed'
<1> DEFINE pk == mark_as_writing(picker, b)
           q  == [queue EXCEPT ![c] = @ \ {b}]
           st == [stale EXCEPT ![c] = @ \ {b}]
<1>1. /\ PickerOk(picker) /\ PeersOk /\ picker' = pk /\ queue' = q
      /\ stale' \in {st, cancel_block(pk, b, q, st)}
      /\ b[1] \notin picker.have /\ StateOf(picker, b) \notin {"writing", "finished"}
  BY DEF FlowOk, Received, is_downloaded
<1>2. StateOf(pk, b) = "writing" /\ OthersAlike(picker, pk, b)
  BY <1>1, StoredPeersAlike
<1> HIDE DEF pk
<1>3. OnlyRequests(b)
  <2> SUFFICES ASSUME NEW a \in Blocks, a # b
               PROVE  HoldersIn(queue', stale', a) = HoldersIn(queue, stale, a)
    BY DEF OnlyRequests
  <2>1. HoldersIn(q, st, a) = HoldersIn(queue, stale, a)
    BY <1>1 DEF HoldersIn, PeersOk
  <2> HIDE DEF q, st
  <2>2. HoldersIn(q, cancel_block(pk, b, q, st), a) = HoldersIn(q, st, a)
    BY CancelHolders
  <2> QED BY <1>1, <2>1, <2>2
<1>4. Owes(picker', b, HoldersIn(queue', stale', b))
  BY <1>1, <1>2 DEF Owes
<1> QED BY <1>1, <1>2, <1>3, <1>4, OwedBlock

\* Steps of the peers.
LEMMA OwedPeers ==
    ASSUME FlowOk, AllTracked, AllOwed, NEW c \in Peers, NEW b \in Blocks
    PROVE  /\ add_request(c, b) => AllOwed'
           /\ incoming_piece(c, b) => AllOwed'
           /\ GiveUp(c, b) => AllOwed'
           /\ snub_peer(c, b) => AllOwed'
<1> DEFINE H == HoldersIn(queue, stale, b)
<1>1. PeersOk /\ PickerOk(picker)
  BY DEF FlowOk
<1>2. OthersAlike(picker, picker, b)
  BY DEF OthersAlike, Alike
<1>3. ASSUME incoming_piece(c, b) PROVE AllOwed'
  <2>1. Frame(b[1], 0)
    BY <1>3, PeerFrames
  <2>2. CASE Redundant(c, b)
    <3>1. /\ picker' = picker /\ Unqueue(c, b)
          /\ b[1] \notin picker.have => StateOf(picker, b) \in {"writing", "finished"}
      BY <2>2 DEF Redundant, is_downloaded
    <3>2. OnlyRequests(b)
      BY <1>1, <3>1, OtherHolders
    <3>3. b[1] \notin picker.have => Owes(picker', b, HoldersIn(queue', stale', b))
      BY <3>1 DEF Owes
    <3> QED BY <1>2, <2>1, <3>1, <3>2, <3>3, OwedBlock
  <2>3. ASSUME NEW data \in Data, Received(c, b, data) PROVE AllOwed'
    BY <2>1, <2>3, OwedReceived
  <2> QED BY <1>3, <2>2, <2>3 DEF incoming_piece
<1>4. ASSUME GiveUp(c, b) PROVE AllOwed'
  <2>1. /\ b \in queue[c] /\ Unqueue(c, b) /\ late' = late /\ failed' = failed
        /\ picker' = IF b \in stale[c] THEN picker ELSE abort_download(picker, b)
    BY <1>4 DEF GiveUp, history
  <2>2. /\ Frame(b[1], 0) /\ OnlyRequests(b)
        /\ HoldersIn(queue', stale', b) = H \ {c}
    BY <1>1, <1>4, <2>1, PeerFrames, OtherHolders, HoldersStep
  <2>3. CASE b \in stale[c]
    <3>1. picker' = picker
      BY <2>1, <2>3
    <3>2. H \ {c} = H
      BY <2>3 DEF HoldersIn
    <3>3. b[1] \notin late /\ b[1] \notin failed /\ b[1] \notin picker.have => Owes(picker, b, H)
      BY DEF AllOwed
    <3> HIDE DEF H
    <3> QED BY <1>2, <2>1, <2>2, <3>1, <3>2, <3>3, OwedBlock
  <2>4. CASE b \notin stale[c]
    <3>1. picker' = abort_download(picker, b)
      BY <2>1, <2>4
    <3> QED BY <2>1, <2>2, <2>4, <3>1, OwedAbort
  <2> QED BY <2>3, <2>4
<1>5. ASSUME snub_peer(c, b) PROVE AllOwed'
  <2>1. /\ b \in queue[c] /\ b \notin stale[c] /\ late' = late /\ failed' = failed
        /\ queue' = queue /\ stale' = [stale EXCEPT ![c] = @ \cup {b}]
        /\ picker' = abort_download(picker, b)
    BY <1>5 DEF snub_peer, history
  <2>2. /\ Frame(b[1], 0) /\ OnlyRequests(b)
        /\ HoldersIn(queue', stale', b) = H \ {c}
    BY <1>1, <1>5, <2>1, PeerFrames, OtherHolders, HoldersStep
  <2> QED BY <2>1, <2>2, OwedAbort
<1> QED BY <1>3, <1>4, <1>5, OwedRequest

\* No request is made or ends, and the blocks of the piece are as they were.
LEMMA OwedQuiet ==
    ASSUME FlowOk, AllOwed, NEW q, NEW i, Frame(q, i), queue' = queue, stale' = stale,
           q \notin late' /\ q \notin failed' /\ q \notin picker'.have =>
               /\ q \notin picker.have
               /\ picker'.dl[q].state = picker.dl[q].state
               /\ picker'.dl[q].num_peers = picker.dl[q].num_peers
    PROVE  AllOwed'
<1>1. late \subseteq late' /\ failed \subseteq failed'
  BY DEF Frame
<1>2. ASSUME NEW a \in Blocks, a[1] = q, q \notin late', q \notin failed', q \notin picker'.have
      PROVE  Owes(picker', a, HoldersIn(queue', stale', a))
  <2>1. Owes(picker, a, HoldersIn(queue, stale, a))
    BY <1>1, <1>2 DEF AllOwed
  <2> QED BY <1>2, <2>1 DEF Owes, StateOf, num_peers
<1> QED BY <1>2, OwedStep

\* A change of priority.
LEMMA OwedPriority ==
    ASSUME FlowOk, AllOwed, NEW w, NEW p \in Pieces, PrioritizePiece(w, p), jobs' = jobs,
           late' = late, failed' = failed, queue' = queue, stale' = stale
    PROVE  AllOwed'
<1>1. Frame(p, 0) /\ Preferred(picker, picker', p)
  BY PriorityFrame
<1>2. /\ picker'.have = picker.have
      /\ picker'.dl[p].state = picker.dl[p].state
      /\ picker'.dl[p].num_peers = picker.dl[p].num_peers
  BY <1>1 DEF Preferred
<1> QED BY <1>1, <1>2, OwedQuiet

\* Write jobs.
LEMMA OwedWritten ==
    ASSUME FlowOk, Checked, AllTracked, AllOwed, NEW i \in 1..Len(jobs), call_job_handler(i),
           on_disk_write_complete(i)
    PROVE  AllOwed'
<1> DEFINE b == jobs[i].block
           p == jobs[i].piece
<1>1. /\ PickerOk(picker) /\ p \in Pieces /\ b \in Blocks /\ b[1] = p
      /\ jobs[i].kind = "write" /\ Frame(p, i)
      /\ late \subseteq late' /\ failed \subseteq failed'
  BY JobAt, HandlerFrame DEF FlowOk, on_disk_write_complete, Frame
<1>2. CASE WriteError(i)
  <2>1. p \in failed' /\ queue' = queue /\ stale' = cancel_block(picker, b, queue, stale)
    BY <1>2 DEF WriteError, Consequence, Drop
  <2>2. ASSUME NEW a \in Blocks, a[1] # p
        PROVE  HoldersIn(queue', stale', a) = HoldersIn(queue, stale, a)
    BY <1>1, <2>1, <2>2, CancelHolders
  <2> QED BY <1>1, <2>1, <2>2, OwedStep
<1>3. CASE WriteOk(i)
  <2>1. picker' = mark_as_finished(picker, b) /\ queue' = queue /\ stale' = stale
    BY <1>3 DEF WriteOk, peerVars
  <2>2. OnlyRequests(b)
    BY <2>1 DEF OnlyRequests
  <2>3. ASSUME p \notin late', p \notin failed', p \notin picker'.have
        PROVE  /\ p \notin picker.have /\ OthersAlike(picker, picker', b)
               /\ Owes(picker', b, HoldersIn(queue', stale', b))
    <3>1. Tracked(picker, jobs, p) /\ Sane(picker, p)
      BY <1>1, <2>3 DEF AllTracked, Checked, Passing
    <3>2. i \in WritesOf(jobs, b)
      BY <1>1 DEF WritesOf
    <3>3. StateOf(picker, b) = "writing"
      BY <1>1, <3>1, <3>2 DEF Tracked
    <3>4. p \notin picker.have
      <4>1. ASSUME p \in picker.have PROVE FALSE
        <5>1. StateOf(picker, b) = "none"
          BY <1>1, <3>1, <4>1, AgreesEmpty DEF Sane
        <5> QED BY <3>3, <5>1
      <4> QED BY <4>1
    <3> DEFINE new == FinishedBlock(picker, b)
    <3>5. StateOf(new, b) = "finished" /\ OthersAlike(picker, new, b)
      BY <1>1, <3>3, <3>4, StoredPeersAlike
    <3>6. Written(picker, b)
      BY <1>1, <3>3, <3>4, FinishedEntry
    <3>7. SameBut(picker, new, p) /\ Shape(new) /\ picker' \in {new, we_have(new, p)}
      BY <1>1, <2>1, <3>6 DEF Written
    <3> HIDE DEF new
    <3>8. picker' = new
      <4>1. ASSUME picker' = we_have(new, p) PROVE FALSE
        <5>1. p \notin new.have
          BY <3>4, <3>7 DEF SameBut
        <5>2. HadPiece(new, p)
          BY <1>1, <3>7, <5>1, HaveEffect
        <5> QED BY <2>3, <4>1, <5>2 DEF HadPiece
      <4> QED BY <3>7, <4>1
    <3>9. Owes(picker', b, HoldersIn(queue', stale', b))
      BY <3>5, <3>8 DEF Owes
    <3> QED BY <3>4, <3>5, <3>8, <3>9
  <2> QED BY <1>1, <2>2, <2>3, OwedBlock
<1> QED BY <1>2, <1>3 DEF on_disk_write_complete

\* Hash jobs.
LEMMA OwedVerified ==
    ASSUME FlowOk, Checked, AllOwed, NEW i \in 1..Len(jobs), call_job_handler(i),
           on_piece_verified(i)
    PROVE  AllOwed'
<1> DEFINE p == jobs[i].piece
<1>1. /\ PickerOk(picker) /\ p \in Pieces /\ jobs[i].kind = "hash" /\ Frame(p, i)
      /\ Shape(picker) /\ late \subseteq late' /\ failed \subseteq failed'
  BY JobAt, HandlerFrame, OldEntry DEF FlowOk, on_piece_verified, Frame
<1>2. queue' = queue /\ stale' = stale
  BY DEF on_piece_verified, HashError, HashResult, piece_failed, Drop, peerVars
<1>3. CASE HashError(i)
  <2>1. p \in failed'
    BY <1>3 DEF HashError
  <2> QED BY <1>1, <1>2, <2>1, OwedQuiet
<1>4. CASE HashResult(i)
  <2>1. picker' \in {picker, piece_passed(picker, p), lock_piece(picker, p)}
    BY <1>4 DEF HashResult, piece_failed, Drop
  <2>2. ASSUME p \notin late', p \notin failed', p \notin picker'.have
        PROVE  /\ p \notin picker.have
               /\ picker'.dl[p].state = picker.dl[p].state
               /\ picker'.dl[p].num_peers = picker.dl[p].num_peers
    <3>1. Downloading(picker, p) /\ p \notin picker.have
      BY <1>1, <2>2, CheckHandled
    <3>2. CASE picker' = picker
      BY <3>1, <3>2
    <3>3. CASE picker' = lock_piece(picker, p)
      <4>1. Locked(picker, p)
        BY <1>1, <3>1, LockEffect
      <4> QED BY <3>1, <3>3, <4>1 DEF Locked, SameBlocks
    <3>4. CASE picker' = piece_passed(picker, p) /\ picker' # picker
      <4> DEFINE new == MarkedPassed(picker, p)
      <4>1. picker' \in {new, we_have(new, p)}
        BY <3>4 DEF piece_passed, MarkedPassed
      <4>2. Passed(picker, p)
        BY <1>1, MarkedEffect
      <4>3. Shape(new) /\ SameButPassed(picker, new, p) /\ SameBlocks(picker.dl[p], new.dl[p])
        BY <4>2 DEF Passed
      <4> HIDE DEF new
      <4>4. picker' = new
        <5>1. ASSUME picker' = we_have(new, p) PROVE FALSE
          <6>1. p \notin new.have
            BY <3>1, <4>3 DEF SameButPassed
          <6>2. HadPiece(new, p)
            BY <1>1, <4>3, <6>1, HaveEffect
          <6> QED BY <2>2, <5>1, <6>2 DEF HadPiece
        <5> QED BY <4>1, <5>1
      <4> QED BY <3>1, <4>3, <4>4 DEF SameBlocks
    <3> QED BY <2>1, <3>2, <3>3, <3>4
  <2> QED BY <1>1, <1>2, <2>2, OwedQuiet
<1> QED BY <1>3, <1>4 DEF on_piece_verified

\* Clear jobs: on_piece_sync counts the peers anew.
LEMMA OwedCleared ==
    ASSUME FlowOk, AllOwed, NEW i \in 1..Len(jobs), call_job_handler(i),
           on_piece_sync(i) \/ on_piece_fail_sync(i)
    PROVE  AllOwed'
<1> DEFINE p == jobs[i].piece
<1>1. PickerOk(picker) /\ p \in Pieces /\ Frame(p, i)
  BY JobAt, HandlerFrame DEF FlowOk
<1>2. queue' = queue /\ stale' = stale
  BY DEF on_piece_sync, on_piece_fail_sync, peerVars
<1>3. CASE on_piece_fail_sync(i)
  BY <1>1, <1>2, <1>3, OwedQuiet DEF on_piece_fail_sync
<1>4. CASE on_piece_sync(i)
  <2>1. Restarted(p) /\ picker' = RestoreAndRequest(p)
    BY <1>1, <1>4, RestartedEntry DEF on_piece_sync
  <2>2. \A k \in 1..blocks_in_piece(p) : picker'.dl[p].num_peers[k] = Cardinality(Holders(<<p, k>>))
    BY <2>1 DEF Restarted
  <2>3. ASSUME NEW a \in Blocks, a[1] = p
        PROVE  Owes(picker', a, HoldersIn(queue', stale', a))
    <3>1. a = <<p, a[2]>> /\ a[2] \in 1..blocks_in_piece(p)
      BY <2>3, BlockParts
    <3>2. Holders(a) = HoldersIn(queue', stale', a)
      BY <1>2 DEF Holders, HoldersIn
    <3>3. num_peers(picker', a) = Cardinality(Holders(a))
      BY <2>2, <2>3, <3>1 DEF num_peers
    <3> QED BY <3>2, <3>3 DEF Owes
  <2> QED BY <1>1, <1>2, <2>3, OwedStep
<1> QED BY <1>3, <1>4

\* Steps that change neither the picker nor the requests.
LEMMA OwedSame ==
    ASSUME AllOwed, picker' = picker, queue' = queue, stale' = stale, late' = late, failed' = failed
    PROVE  AllOwed'
  BY DEF AllOwed

\* Every step keeps the invariant.
LEMMA OwedNext == FlowOk /\ Checked /\ AllTracked /\ AllOwed /\ [Next]_vars => AllOwed'
<1> SUFFICES ASSUME FlowOk, Checked, AllTracked, AllOwed, [Next]_vars PROVE AllOwed'
  OBVIOUS
<1>1. ASSUME NEW c \in Peers, disconnect(c) PROVE AllOwed'
  BY <1>1, OwedSame DEF disconnect, Drop, history
<1>2. ASSUME NEW w \in SUBSET Pieces, prioritize_pieces(w) PROVE AllOwed'
  <2>1. 0 \in Pieces
    BY Layout DEF Pieces
  <2> QED BY <1>2, <2>1, OwedPriority DEF prioritize_pieces, history, peerVars
<1>3. CASE leave_upload_mode
  BY <1>3, OwedSame DEF leave_upload_mode, history, peerVars
<1>4. CASE Network
  BY <1>1, <1>2, <1>3, <1>4, OwedPeers DEF Network, incoming_reject_request
<1>5. CASE Loops
  <2>1. ASSUME prioritize_next PROVE AllOwed'
    <3>1. setting.index \in Pieces
      BY <2>1 DEF prioritize_next, FlowOk, SettingOk
    <3> QED BY <2>1, <3>1, OwedPriority DEF prioritize_next, history, peerVars
  <2> QED BY <1>5, <2>1, OwedPeers DEF Loops, empty_download_queue
<1>6. CASE Disk
  BY <1>6, OwedSame DEF Disk, perform_job, history, peerVars
<1>7. CASE Handlers
  <2>1. PICK i \in 1..Len(jobs) : call_job_handler(i)
    BY <1>7 DEF Handlers
  <2> QED BY <2>1, OwedWritten, OwedVerified, OwedCleared DEF call_job_handler
<1>8. CASE UNCHANGED vars
  BY <1>8, OwedSame DEF vars, history, peerVars
<1> QED BY <1>4, <1>5, <1>6, <1>7, <1>8 DEF Next

\* It holds when nothing has happened.
LEMMA OwedInit == Init => AllOwed
<1> SUFFICES ASSUME Init, NEW b \in Blocks PROVE Owes(picker, b, HoldersIn(queue, stale, b))
  BY DEF AllOwed
<1>1. b[1] \in Pieces /\ b[2] \in 1..blocks_in_piece(b[1]) /\ picker.dl[b[1]] = NoDownload(b[1])
  BY BlockParts DEF Init, init
<1>2. num_peers(picker, b) = 0
  BY <1>1 DEF num_peers, NoDownload
<1>3. HoldersIn(queue, stale, b) = {}
  BY DEF Init, HoldersIn
<1> QED BY <1>2, <1>3, FS_EmptySet DEF Owes

\* num_peers is the number of peers that still owe the block, for every block
\* that is requested of a piece neither a disk error nor a late report has met:
\* however requests are made, answered, rejected, timed out, dropped with their
\* peer, and carried over a failed hash check, abort_download frees a block
\* only when the last peer that owes it is gone.
THEOREM OwedCounted == Spec => []RequestsCounted
<1>1. Init => AllOwed
  BY OwedInit
<1>2. (FlowOk /\ Checked /\ AllTracked) /\ AllOwed /\ [Next]_vars => AllOwed'
  BY OwedNext
<1>3. (FlowOk /\ Checked /\ AllTracked) /\ AllOwed => RequestsCounted
  <2> SUFFICES ASSUME FlowOk, Checked, AllOwed, NEW b \in Blocks, is_requested(picker, b),
                      b[1] \in Undisturbed
               PROVE  num_peers(picker, b) = Cardinality(Holders(b))
    BY DEF RequestsCounted
  <2>1. b[1] \in Pieces /\ b[1] \notin late /\ b[1] \notin failed /\ Sane(picker, b[1])
    BY DEF Undisturbed, Checked, Passing
  <2>2. b[1] \notin picker.have
    <3>1. ASSUME b[1] \in picker.have PROVE FALSE
      <4>1. StateOf(picker, b) = "none"
        BY <2>1, <3>1, AgreesEmpty DEF Sane
      <4> QED BY <4>1 DEF is_requested
    <3> QED BY <3>1
  <2>3. Owes(picker, b, HoldersIn(queue, stale, b))
    BY <2>1, <2>2 DEF AllOwed
  <2>4. HoldersIn(queue, stale, b) = Holders(b)
    BY DEF HoldersIn, Holders
  <2> QED BY <2>3, <2>4 DEF Owes, is_requested
<1> QED BY <1>1, <1>2, <1>3, TrackedInvariant, PTL DEF Spec
=============================================================================
