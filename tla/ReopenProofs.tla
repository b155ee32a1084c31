---------------------------- MODULE ReopenProofs ----------------------------
(***************************************************************************)
(* Proofs about Reopen, for any number of visits, sessions, files, pieces.  *)
(*                                                                          *)
(* What a session knows of a piece and what is on disk are connected by     *)
(* PieceInv, which neither property states: it follows a piece from the     *)
(* check through the write cache and the hash check to the disk, where      *)
(* other sessions may overwrite it at any time.                             *)
(***************************************************************************)
EXTENDS Reopen, TLAPS

\* A session that has not checked the files knows nothing of any piece.
Fresh ==
    \A s \in Sessions : sess[s] \in {"none", "checking"} =>
        \A p \in Pieces : cell[s][p] = "unknown"

\* TypeOK and Fresh are inductive together.
LEMMA TypedAndFresh == Spec => [](TypeOK /\ Fresh)
<1>1. Init => TypeOK /\ Fresh
  BY BoundAssumption DEF Init, TypeOK, Fresh, Unchecked, Nothing
<1>2. TypeOK /\ Fresh /\ [Next]_vars => TypeOK'
  <2> SUFFICES ASSUME TypeOK, Fresh, [Next]_vars PROVE TypeOK'
    OBVIOUS
  <2> USE DEF TypeOK, pageVars, sessionVars, diskVars, Alive
  <2>1. CASE UNCHANGED vars
    BY <2>1 DEF vars
  <2>2. CASE Kill
    <3>1. kills' \in 0..MaxKills /\ bad' \in 0..MaxBad
      BY <2>2, BoundAssumption DEF Kill
    <3>2. /\ cell' \in [Sessions -> [Pieces -> {"unknown", "missing", "written", "have"}]]
          /\ mem' \in [Sessions -> [Pieces -> {"none", "good", "bad"}]]
      BY <2>2 DEF Kill, Unchecked, Nothing
    <3>3. page' \in [Visits -> {"later", "open", "left", "gone"}]
      BY <2>2 DEF Kill
    <3>4. /\ \A s \in Sessions : sess'[s] = "none" /\ dirty'[s] = {}
          /\ owner' \in [Sessions -> Visits \cup {0}]
          /\ sess' \in [Sessions -> {"none", "checking", "active", "closing"}]
          /\ dirty' \in [Sessions -> SUBSET Pieces]
      BY <2>2 DEF Kill
    <3>5. /\ full' \in [Visits -> SUBSET Files]
          /\ selected' \in [Visits -> SUBSET Files]
          /\ downloading' \in [Visits -> BOOLEAN]
          /\ partial' \in [Visits -> SUBSET Files]
          /\ hasty' \in [Visits -> SUBSET Files]
          /\ crossed' \in [Sessions -> SUBSET Pieces]
          /\ UNCHANGED <<stored, damaged>>
      BY <2>2 DEF Kill
    <3> QED
      BY <3>1, <3>2, <3>3, <3>4, <3>5
  <2>3. ASSUME NEW v \in Visits, viewDidLoad(v) PROVE TypeOK'
    <3>1. StoredFiles \in SUBSET Files /\ Existing \ Complete \in SUBSET Files
      <4>1. \A p \in Pieces : FileOf[p] \in Files
        BY FileOfAssumption
      <4> QED
        BY <4>1 DEF StoredFiles, Existing
    <3>2. full' \in [Visits -> SUBSET Files] /\ partial' \in [Visits -> SUBSET Files]
      <4>1. CASE v = 1
        BY <2>3, <4>1 DEF viewDidLoad
      <4>2. CASE v # 1
        <5>1. /\ full' = [full EXCEPT ![v] = StoredFiles]
              /\ partial' = [partial EXCEPT ![v] = Existing \ Complete]
          BY <2>3, <4>2 DEF viewDidLoad
        <5> QED
          BY <3>1, <5>1
      <4> QED
        BY <4>1, <4>2
    <3>3. page' = [page EXCEPT ![v] = "open"]
      BY <2>3 DEF viewDidLoad
    <3>4. UNCHANGED <<downloading, selected, owner, sess, cell, mem, dirty,
                      stored, bad, kills, hasty, crossed, damaged>>
      BY <2>3 DEF viewDidLoad
    <3> QED
      BY <3>2, <3>3, <3>4
  <2>4. ASSUME NEW v \in Visits, NEW f \in Files, NEW s \in Sessions,
               didSelectRow(v, f, s)
        PROVE  TypeOK'
    BY <2>4 DEF didSelectRow
  <2>5. ASSUME NEW v \in Visits, Pop(v) PROVE TypeOK'
    BY <2>5 DEF Pop
  <2>6. ASSUME NEW v \in Visits, NEW s \in Sessions, Poll(v, s) PROVE TypeOK'
    <3>1. FullNow(s) \in SUBSET Files /\ owner[s] = v /\ sess[s] # "none"
      BY <2>6 DEF FullNow, Poll, Running
    <3>2. sess' \in [Sessions -> {"none", "checking", "active", "closing"}]
      BY <2>6 DEF Poll
    <3>3. \A u \in Sessions : sess'[u] # "none" => sess[u] # "none"
      BY <2>6, <3>1 DEF Poll
    <3>4. /\ full' \in [Visits -> SUBSET Files]
          /\ hasty' \in [Visits -> SUBSET Files]
          /\ downloading' \in [Visits -> BOOLEAN]
      <4>1. CASE IsSeed(s)
        <5>1. UNCHANGED <<full, downloading, hasty>>
          BY <2>6, <4>1, Zenon DEF Poll
        <5> QED
          BY <5>1
      <4>2. CASE ~IsSeed(s)
        <5> DEFINE fast == {f \in FullNow(s) : \E p \in PiecesOf(f) : cell[s][p] = "written"}
                   done == ~(StatusDone(s) /\ page[v] = "open")
        <5>1. fast \in SUBSET Files /\ (full[v] \ selected[v]) \cup FullNow(s) \in SUBSET Files
          BY <3>1
        <5>2. /\ full' = [full EXCEPT ![v] = (full[v] \ selected[v]) \cup FullNow(s)]
              /\ hasty' = [hasty EXCEPT ![v] = hasty[v] \cup fast]
              /\ downloading' = [downloading EXCEPT ![v] = done]
          BY <2>6, <4>2, Zenon DEF Poll
        <5>3. done \in BOOLEAN
          BY DEF StatusDone
        <5> HIDE DEF fast, done
        <5>4. hasty[v] \cup fast \in SUBSET Files
          BY <5>1
        <5>5. full' \in [Visits -> SUBSET Files] /\ hasty' \in [Visits -> SUBSET Files]
          BY <5>1, <5>2, <5>4
        <5>6. downloading' \in [Visits -> BOOLEAN]
          BY <5>2, <5>3, Zenon
        <5> QED
          BY <5>5, <5>6
      <4> QED
        BY <4>1, <4>2
    <3> QED
      BY <2>6, <3>2, <3>3, <3>4 DEF Poll
  <2>7. ASSUME NEW s \in Sessions, CheckFiles(s) PROVE TypeOK'
    <3>1. [p \in Pieces |-> CheckResult(p)]
             \in [Pieces -> {"unknown", "missing", "written", "have"}]
      BY DEF CheckResult
    <3>2. dirty[s] = {}
      BY <2>7 DEF CheckFiles, Fresh
    <3> QED
      BY <2>7, <3>1, <3>2 DEF CheckFiles
  <2>8. ASSUME NEW s \in Sessions, NEW p \in Pieces, NEW what \in {"good", "bad"},
               Receive(s, p, what)
        PROVE  TypeOK'
    BY <2>8, BoundAssumption DEF Receive
  <2>9. ASSUME NEW s \in Sessions, NEW p \in Pieces, NEW after \in {"part", "good", "bad"},
               FlushPart(s, p, after)
        PROVE  TypeOK'
    <3>1. bad' \in 0..MaxBad
      BY <2>9, BoundAssumption DEF FlushPart
    <3>2. crossed' \in [Sessions -> SUBSET Pieces]
      BY <2>9 DEF FlushPart, CrossedBy
    <3>3. stored' \in [Pieces -> {"none", "part", "good", "bad"}]
      BY <2>9 DEF FlushPart
    <3>4. damaged' \in SUBSET Pieces
      BY <2>9 DEF FlushPart
    <3> QED
      BY <2>9, <3>1, <3>2, <3>3, <3>4 DEF FlushPart
  <2>10. ASSUME NEW s \in Sessions, NEW ps \in SUBSET dirty[s], WriteOut(s, ps)
         PROVE  /\ stored' \in [Pieces -> {"none", "part", "good", "bad"}]
                /\ damaged' \in SUBSET Pieces
                /\ Unseen(s, ps) \in [Sessions -> SUBSET Pieces]
    <3>1. ps \in SUBSET Pieces
      OBVIOUS
    <3>2. Unseen(s, ps) \in [Sessions -> SUBSET Pieces]
      BY <3>1 DEF Unseen, CrossedBy
    <3> QED
      BY <2>10, <3>1, <3>2 DEF WriteOut
  <2>11. ASSUME NEW s \in Sessions, NEW p \in Pieces, Flush(s, p) PROVE TypeOK'
    <3>1. {p} \in SUBSET dirty[s] /\ WriteOut(s, {p}) /\ crossed' = Unseen(s, {p})
      BY <2>11 DEF Flush
    <3>2. /\ stored' \in [Pieces -> {"none", "part", "good", "bad"}]
          /\ damaged' \in SUBSET Pieces
          /\ crossed' \in [Sessions -> SUBSET Pieces]
      BY <2>10, <3>1
    <3>3. /\ mem' \in [Sessions -> [Pieces -> {"none", "good", "bad"}]]
          /\ dirty' \in [Sessions -> SUBSET Pieces]
          /\ \A u \in Sessions : dirty'[u] \subseteq dirty[u]
      BY <2>11 DEF Flush
    <3>4. UNCHANGED <<page, full, downloading, selected, partial, hasty, owner,
                      sess, cell, bad, kills>>
      BY <2>11 DEF Flush
    <3> QED
      BY <3>2, <3>3, <3>4
  <2>12. ASSUME NEW s \in Sessions, NEW p \in Pieces, NEW read \in {"part", "good", "bad"},
                Hash(s, p, read)
         PROVE  TypeOK'
    BY <2>12 DEF Hash, CacheAfterHash
  <2>13. ASSUME NEW s \in Sessions, Close(s) PROVE TypeOK'
    <3>1. /\ dirty[s] \in SUBSET dirty[s] /\ WriteOut(s, dirty[s])
          /\ crossed' = [Unseen(s, dirty[s]) EXCEPT ![s] = {}]
      BY <2>13 DEF Close
    <3>2. /\ stored' \in [Pieces -> {"none", "part", "good", "bad"}]
          /\ damaged' \in SUBSET Pieces
          /\ Unseen(s, dirty[s]) \in [Sessions -> SUBSET Pieces]
      BY <2>10, <3>1
    <3>3. crossed' \in [Sessions -> SUBSET Pieces]
      BY <3>1, <3>2
    <3>4. /\ Unchecked \in [Pieces -> {"unknown", "missing", "written", "have"}]
          /\ Nothing \in [Pieces -> {"none", "good", "bad"}]
      BY DEF Unchecked, Nothing
    <3> QED
      BY <2>13, <3>2, <3>3, <3>4 DEF Close
  <2> HIDE DEF TypeOK, pageVars, sessionVars, diskVars, Alive
  <2> QED
    BY <2>1, <2>2, <2>3, <2>4, <2>5, <2>6, <2>7, <2>8, <2>9, <2>11, <2>12, <2>13
    DEF Next, Visit, Session
<1>3. TypeOK /\ Fresh /\ [Next]_vars => Fresh'
  <2> SUFFICES ASSUME TypeOK, Fresh, [Next]_vars,
                      NEW u \in Sessions, sess'[u] \in {"none", "checking"},
                      NEW q \in Pieces
               PROVE  cell'[u][q] = "unknown"
    BY DEF Fresh
  <2> USE DEF TypeOK, Fresh, pageVars, sessionVars, diskVars
  <2>1. CASE UNCHANGED vars
    BY <2>1 DEF vars
  <2>2. CASE Kill
    BY <2>2 DEF Kill, Unchecked
  <2>3. ASSUME NEW v \in Visits, NEW f \in Files, NEW s \in Sessions, didSelectRow(v, f, s)
        PROVE  cell'[u][q] = "unknown"
    BY <2>3 DEF didSelectRow
  <2>4. ASSUME NEW v \in Visits, viewDidLoad(v) \/ Pop(v)
        PROVE  cell'[u][q] = "unknown"
    BY <2>4 DEF viewDidLoad, Pop
  <2>5. ASSUME NEW v \in Visits, NEW s \in Sessions, Poll(v, s)
        PROVE  cell'[u][q] = "unknown"
    BY <2>5 DEF Poll
  <2>6. ASSUME NEW s \in Sessions, CheckFiles(s) PROVE cell'[u][q] = "unknown"
    BY <2>6 DEF CheckFiles
  <2>7. ASSUME NEW s \in Sessions, NEW p \in Pieces, NEW what \in {"good", "bad"},
               Receive(s, p, what)
        PROVE  cell'[u][q] = "unknown"
    BY <2>7 DEF Receive
  <2>8. ASSUME NEW s \in Sessions, NEW p \in Pieces, NEW x \in {"part", "good", "bad"},
               FlushPart(s, p, x) \/ Flush(s, p)
        PROVE  cell'[u][q] = "unknown"
    BY <2>8 DEF FlushPart, Flush
  <2>9. ASSUME NEW s \in Sessions, NEW p \in Pieces, NEW read \in {"part", "good", "bad"},
               Hash(s, p, read)
        PROVE  cell'[u][q] = "unknown"
    BY <2>9 DEF Hash
  <2>10. ASSUME NEW s \in Sessions, Close(s) PROVE cell'[u][q] = "unknown"
    BY <2>10 DEF Close, Unchecked
  <2> QED
    BY <2>1, <2>2, <2>3, <2>4, <2>5, <2>6, <2>7, <2>8, <2>9, <2>10
    DEF Next, Visit, Session
<1> QED
  BY <1>1, <1>2, <1>3, PTL DEF Spec

\* Every step keeps every variable in its type; no session outlives its
\* process and none holds data back that it does not count as downloaded.
THEOREM ReopenTypeCorrect == Spec => []TypeOK
  BY TypedAndFresh, PTL

-----------------------------------------------------------------------------
(***************************************************************************)
(* What a session knows of a piece, and the disk.                           *)
(***************************************************************************)
\* Piece p is good on disk, or was until it was overwritten.
OnDisk(p) == stored[p] = "good" \/ p \in damaged

\* A piece in the write cache has contents, and good ones if it has passed its
\* check; a piece that has passed, or that arrived intact, reaches the disk; a
\* piece that is missing or damaged here is good on disk only if it became so
\* behind the session's back.
Known(s, p) ==
    /\ p \in dirty[s] \/ cell[s][p] = "written" => mem[s][p] \in {"good", "bad"}
    /\ cell[s][p] = "have" /\ p \in dirty[s] => mem[s][p] = "good"
    /\ cell[s][p] = "have" /\ p \notin dirty[s] => OnDisk(p)
    /\ cell[s][p] = "written" /\ p \notin dirty[s] /\ mem[s][p] = "good" => OnDisk(p)
    /\ /\ cell[s][p] = "missing" \/ (cell[s][p] = "written" /\ mem[s][p] # "good")
       /\ stored[p] = "good"
       => p \in crossed[s]

PieceInv == \A s \in Sessions, p \in Pieces : Known(s, p)

\* What becomes crossed: pieces of ps, in the sessions of us that checked them.
LEMMA CrossedFacts ==
  ASSUME TypeOK, NEW ps \in SUBSET Pieces, NEW us \in SUBSET Sessions,
         NEW u \in Sessions, NEW q \in Pieces
  PROVE  q \in CrossedBy(ps, us)[u] <=>
            q \in crossed[u] \/ (q \in ps /\ u \in us /\ cell[u][q] # "unknown")
  BY DEF CrossedBy, CheckedBy

\* Writing cached pieces leaves good data behind, or takes note.
LEMMA WriteKeeps ==
  ASSUME TypeOK, PieceInv, NEW s \in Sessions, NEW ps \in SUBSET dirty[s],
         WriteOut(s, ps), NEW p \in Pieces
  PROVE  /\ OnDisk(p) => OnDisk(p)'
         /\ p \in ps /\ mem[s][p] = "good" => stored'[p] = "good"
         /\ p \notin ps => stored'[p] = stored[p]
         /\ stored'[p] = "good" => stored[p] = "good" \/ (p \in ps /\ mem[s][p] = "good")
         /\ \A u \in Sessions :
              /\ p \in crossed[u] => p \in Unseen(s, ps)[u]
              /\ stored'[p] = "good" /\ u # s /\ cell[u][p] # "unknown"
                 => stored[p] = "good" \/ p \in Unseen(s, ps)[u]
<1>1. /\ stored' = [q \in Pieces |-> IF q \in ps THEN mem[s][q] ELSE stored[q]]
      /\ damaged' = damaged \cup {q \in ps : stored[q] = "good" /\ mem[s][q] = "bad"}
  BY DEF WriteOut
<1>2. p \in ps => mem[s][p] \in {"good", "bad"}
  BY DEF PieceInv, Known
<1>3. OnDisk(p) => OnDisk(p)'
  BY <1>1, <1>2 DEF OnDisk
<1>4. \A u \in Sessions :
        p \in Unseen(s, ps)[u] <=>
           \/ p \in crossed[u]
           \/ p \in ps /\ mem[s][p] = "good" /\ u # s /\ cell[u][p] # "unknown"
  <2>1. {q \in ps : mem[s][q] = "good"} \in SUBSET Pieces /\ Sessions \ {s} \in SUBSET Sessions
    BY DEF TypeOK
  <2> QED
    BY <2>1, CrossedFacts DEF Unseen
<1> QED
  BY <1>1, <1>2, <1>3, <1>4

\* The steps of a session keep PieceInv.
LEMMA PieceReceive ==
  ASSUME TypeOK, PieceInv, NEW s \in Sessions, NEW p \in Pieces,
         NEW what \in {"good", "bad"}, Receive(s, p, what)
  PROVE  PieceInv'
<1> SUFFICES ASSUME NEW u \in Sessions, NEW q \in Pieces PROVE Known(u, q)'
  BY DEF PieceInv
<1>1. Known(u, q) /\ Known(s, p)
  BY DEF PieceInv
<1> QED
  BY <1>1 DEF Receive, Known, OnDisk, TypeOK, diskVars

LEMMA PieceHash ==
  ASSUME TypeOK, PieceInv, NEW s \in Sessions, NEW p \in Pieces,
         NEW read \in {"part", "good", "bad"}, Hash(s, p, read)
  PROVE  PieceInv'
<1> SUFFICES ASSUME NEW u \in Sessions, NEW q \in Pieces PROVE Known(u, q)'
  BY DEF PieceInv
<1>1. Known(u, q) /\ Known(s, p)
  BY DEF PieceInv
<1> QED
  BY <1>1 DEF Hash, CacheAfterHash, Known, OnDisk, TypeOK, diskVars

\* The first blocks of a piece: whoever has checked it before it became good
\* takes note, and so does the disk if it was good and no longer is.
LEMMA PiecePart ==
  ASSUME TypeOK, PieceInv, NEW s \in Sessions, NEW p \in Pieces,
         NEW after \in {"part", "good", "bad"}, FlushPart(s, p, after)
  PROVE  /\ PieceInv'
         /\ \A q \in Pieces : OnDisk(q) => OnDisk(q)'
<1>1. /\ stored' = [stored EXCEPT ![p] = after]
      /\ damaged' = IF stored[p] = "good" THEN damaged \cup {p} ELSE damaged
      /\ UNCHANGED <<cell, mem, dirty>>
  BY DEF FlushPart, sessionVars
<1>2. \A q \in Pieces : OnDisk(q) => OnDisk(q)'
  BY <1>1 DEF OnDisk, TypeOK
<1>3. ASSUME NEW u \in Sessions, NEW q \in Pieces
      PROVE  /\ q \in crossed[u] => q \in crossed'[u]
             /\ q = p /\ after = "good" /\ cell[u][q] # "unknown" => q \in crossed'[u]
  <2>1. CASE after = "good"
    <3>1. crossed' = CrossedBy({p}, Sessions)
      BY <2>1 DEF FlushPart
    <3> QED
      BY <3>1, CrossedFacts
  <2>2. CASE after # "good"
    BY <2>2 DEF FlushPart
  <2> QED
    BY <2>1, <2>2
<1>4. ASSUME NEW u \in Sessions, NEW q \in Pieces PROVE Known(u, q)'
  <2>1. Known(u, q)
    BY DEF PieceInv
  <2>2. stored'[q] = "good" => stored[q] = "good" \/ (q = p /\ after = "good")
    BY <1>1 DEF TypeOK
  <2> QED
    BY <1>1, <1>2, <1>3, <2>1, <2>2 DEF Known
<1> QED
  BY <1>2, <1>4 DEF PieceInv

LEMMA PieceFlush ==
  ASSUME TypeOK, PieceInv, NEW s \in Sessions, NEW p \in Pieces, Flush(s, p)
  PROVE  PieceInv'
<1> SUFFICES ASSUME NEW u \in Sessions, NEW q \in Pieces PROVE Known(u, q)'
  BY DEF PieceInv
<1>1. Known(u, q) /\ Known(s, p)
  BY DEF PieceInv
<1>2. {p} \in SUBSET dirty[s] /\ WriteOut(s, {p}) /\ crossed' = Unseen(s, {p})
  BY DEF Flush
<1>3. /\ dirty' = [dirty EXCEPT ![s] = @ \ {p}]
      /\ mem' = [mem EXCEPT ![s][p] = IF cell[s][p] = "have" THEN "none" ELSE @]
      /\ UNCHANGED cell
  BY DEF Flush
<1>4. /\ OnDisk(q) => OnDisk(q)'
      /\ q = p /\ mem[s][q] = "good" => stored'[q] = "good"
      /\ stored'[q] = "good" => stored[q] = "good" \/ (q = p /\ mem[s][q] = "good")
      /\ q \in crossed[u] => q \in crossed'[u]
      /\ stored'[q] = "good" /\ u # s /\ cell[u][q] # "unknown"
         => stored[q] = "good" \/ q \in crossed'[u]
  BY <1>2, WriteKeeps
<1>5. CASE u = s /\ q = p
  <2>1. q \in dirty[s] /\ cell[s][q] \in {"written", "have"}
    BY <1>2, <1>5 DEF TypeOK
  <2>2. /\ q \notin dirty'[s] /\ cell'[s][q] = cell[s][q]
        /\ cell[s][q] = "written" => mem'[s][q] = mem[s][q]
    BY <1>3, <1>5 DEF TypeOK
  <2> QED
    BY <1>1, <1>4, <1>5, <2>1, <2>2 DEF Known, OnDisk
<1>6. CASE ~(u = s /\ q = p)
  <2>1. /\ q \in dirty'[u] <=> q \in dirty[u]
        /\ cell'[u][q] = cell[u][q] /\ mem'[u][q] = mem[u][q]
    BY <1>3, <1>6 DEF TypeOK
  <2> QED
    BY <1>1, <1>4, <1>6, <2>1 DEF Known
<1> QED
  BY <1>5, <1>6

LEMMA PieceClose ==
  ASSUME TypeOK, PieceInv, NEW s \in Sessions, Close(s)
  PROVE  PieceInv'
<1> SUFFICES ASSUME NEW u \in Sessions, NEW q \in Pieces PROVE Known(u, q)'
  BY DEF PieceInv
<1>1. Known(u, q)
  BY DEF PieceInv
<1>2. /\ dirty[s] \in SUBSET dirty[s] /\ WriteOut(s, dirty[s])
      /\ crossed' = [Unseen(s, dirty[s]) EXCEPT ![s] = {}]
  BY DEF Close
<1>3. /\ dirty' = [dirty EXCEPT ![s] = {}]
      /\ cell' = [cell EXCEPT ![s] = Unchecked]
      /\ mem' = [mem EXCEPT ![s] = Nothing]
  BY DEF Close
<1>4. CASE u = s
  BY <1>3, <1>4 DEF Known, Unchecked, TypeOK
<1>5. CASE u # s
  <2>1. crossed'[u] = Unseen(s, dirty[s])[u]
    BY <1>2, <1>5 DEF Unseen, CrossedBy
  <2>2. /\ OnDisk(q) => OnDisk(q)'
        /\ q \in crossed[u] => q \in crossed'[u]
        /\ stored'[q] = "good" /\ cell[u][q] # "unknown"
           => stored[q] = "good" \/ q \in crossed'[u]
    BY <1>2, <1>5, <2>1, WriteKeeps
  <2> QED
    BY <1>1, <1>3, <1>5, <2>2 DEF Known, TypeOK
<1> QED
  BY <1>4, <1>5

\* The check marks exactly what is good on disk.
LEMMA PieceCheck ==
  ASSUME TypeOK, Fresh, PieceInv, NEW s \in Sessions, CheckFiles(s)
  PROVE  PieceInv'
<1> SUFFICES ASSUME NEW u \in Sessions, NEW q \in Pieces PROVE Known(u, q)'
  BY DEF PieceInv
<1>1. Known(u, q)
  BY DEF PieceInv
<1>2. /\ cell' = [cell EXCEPT ![s] = [p \in Pieces |-> CheckResult(p)]]
      /\ UNCHANGED <<mem, dirty, stored, crossed, damaged>>
  BY DEF CheckFiles, diskVars
<1>3. CASE u = s
  <2>1. cell'[u][q] = CheckResult(q)
    BY <1>2, <1>3 DEF TypeOK
  <2>2. q \notin dirty[u]
    BY <1>3 DEF Fresh, CheckFiles, TypeOK
  <2> QED
    BY <1>2, <2>1, <2>2 DEF CheckResult, Known, OnDisk
<1>4. CASE u # s
  <2>1. cell'[u][q] = cell[u][q]
    BY <1>2, <1>4 DEF TypeOK
  <2> QED
    BY <1>1, <1>2, <2>1 DEF Known, OnDisk
<1> QED
  BY <1>3, <1>4

\* All steps together.
LEMMA PieceStep ==
  ASSUME TypeOK, Fresh, PieceInv, [Next]_vars
  PROVE  PieceInv'
<1>1. ASSUME UNCHANGED <<cell, mem, dirty, stored, crossed, damaged>>
      PROVE  PieceInv'
  <2> SUFFICES ASSUME NEW u \in Sessions, NEW q \in Pieces PROVE Known(u, q)'
    BY DEF PieceInv
  <2> QED
    BY <1>1 DEF PieceInv, Known, OnDisk
<1>2. CASE Kill
  <2> SUFFICES ASSUME NEW u \in Sessions, NEW q \in Pieces PROVE Known(u, q)'
    BY DEF PieceInv
  <2> QED
    BY <1>2 DEF Kill, Known, Unchecked
<1>3. ASSUME NEW v \in Visits, viewDidLoad(v) \/ Pop(v)
      PROVE  PieceInv'
  BY <1>1, <1>3 DEF viewDidLoad, Pop, sessionVars, diskVars
<1>4. ASSUME NEW v \in Visits, NEW s \in Sessions, Poll(v, s) PROVE PieceInv'
  BY <1>1, <1>4 DEF Poll, diskVars
<1>5. ASSUME NEW v \in Visits, NEW f \in Files, NEW s \in Sessions, didSelectRow(v, f, s)
      PROVE  PieceInv'
  BY <1>1, <1>5 DEF didSelectRow, diskVars
<1>6. CASE UNCHANGED vars
  BY <1>1, <1>6 DEF vars, sessionVars, diskVars
<1> QED
  BY <1>2, <1>3, <1>4, <1>5, <1>6, PieceReceive, PieceHash, PieceFlush,
     PiecePart, PieceClose, PieceCheck DEF Next, Visit, Session

\* PieceInv and what it needs hold in every state.
LEMMA PieceSafe == Spec => [](TypeOK /\ Fresh /\ PieceInv)
<1>1. Init => PieceInv
  BY DEF Init, PieceInv, Known, Unchecked
<1>2. TypeOK /\ Fresh /\ PieceInv /\ [Next]_vars => PieceInv'
  BY PieceStep
<1> QED
  BY <1>1, <1>2, TypedAndFresh, PTL DEF Spec
-----------------------------------------------------------------------------
\* A session that still counts piece p as missing or unverified although it
\* became good on disk after the session's check.
Stale(s, p) == p \in crossed[s] /\ cell[s][p] \in {"missing", "written"}

\* A write that damages good data comes from such a session.
LEMMA WriteDamages ==
  ASSUME TypeOK, PieceInv, NEW s \in Sessions, NEW ps \in SUBSET dirty[s],
         WriteOut(s, ps), NEW p \in Pieces, stored[p] = "good", stored'[p] # "good"
  PROVE  Stale(s, p)
<1>1. p \in ps /\ mem[s][p] # "good"
  BY DEF WriteOut
<1>2. cell[s][p] = "written"
  BY <1>1 DEF TypeOK, PieceInv, Known
<1> QED
  BY <1>1, <1>2 DEF PieceInv, Known, Stale

\* However many visits, sessions, restarts and damaged pieces: verified data in
\* the temporary directory is lost only to a session whose check of the piece
\* is out of date.
THEOREM DamageNeedsStaleCheck == Spec => DamageOnlyByStaleCheck
<1> DEFINE Harmless == \A p \in Pieces : stored[p] = "good" /\ stored'[p] # "good" =>
                           \E s \in Sessions :
                               p \in crossed[s] /\ cell[s][p] \in {"missing", "written"}
<1>1. TypeOK /\ PieceInv /\ [Next]_vars => [Harmless]_vars
  <2> SUFFICES ASSUME TypeOK, PieceInv, [Next]_vars,
                      NEW p \in Pieces, stored[p] = "good", stored'[p] # "good"
               PROVE  \E s \in Sessions : Stale(s, p)
    BY DEF Stale
  <2>1. ASSUME NEW s \in Sessions, NEW q \in Pieces, Flush(s, q)
        PROVE  Stale(s, p)
    <3>1. {q} \in SUBSET dirty[s] /\ WriteOut(s, {q})
      BY <2>1 DEF Flush
    <3> QED
      BY <3>1, WriteDamages
  <2>2. ASSUME NEW s \in Sessions, Close(s)
        PROVE  Stale(s, p)
    <3>1. dirty[s] \in SUBSET dirty[s] /\ WriteOut(s, dirty[s])
      BY <2>2 DEF Close
    <3> QED
      BY <3>1, WriteDamages
  <2>3. ASSUME NEW s \in Sessions, NEW q \in Pieces, NEW after \in {"part", "good", "bad"},
               FlushPart(s, q, after)
        PROVE  Stale(s, p)
    <3>1. p = q /\ cell[s][p] = "missing"
      BY <2>3 DEF FlushPart, TypeOK
    <3> QED
      BY <3>1 DEF PieceInv, Known, Stale
  <2>4. stored' # stored
    OBVIOUS
  <2>5. /\ ~Kill /\ ~UNCHANGED vars
        /\ \A v \in Visits : ~viewDidLoad(v) /\ ~Pop(v)
        /\ \A v \in Visits, s \in Sessions : ~Poll(v, s)
        /\ \A v \in Visits, f \in Files, s \in Sessions : ~didSelectRow(v, f, s)
    BY <2>4 DEF Kill, vars, viewDidLoad, Pop, Poll, didSelectRow, diskVars
  <2>6. \A s \in Sessions :
          /\ ~CheckFiles(s)
          /\ \A q \in Pieces, what \in {"good", "bad"} : ~Receive(s, q, what)
          /\ \A q \in Pieces, read \in {"part", "good", "bad"} : ~Hash(s, q, read)
    BY <2>4 DEF CheckFiles, Receive, Hash, diskVars
  <2> QED
    BY <2>1, <2>2, <2>3, <2>5, <2>6 DEF Next, Visit, Session
<1> QED
  BY <1>1, PieceSafe, PTL DEF Spec, DamageOnlyByStaleCheck
-----------------------------------------------------------------------------
(***************************************************************************)
(* Rows at 1.0.                                                             *)
(***************************************************************************)
\* Session s, opened by visit v, has an intact piece p to write.
Held(s, v, p) == owner[s] = v /\ p \in dirty[s] /\ mem[s][p] = "good"

\* Piece p is on disk, or was, or a session of visit v is about to write it.
Coming(v, p) == OnDisk(p) \/ \E s \in Sessions : Held(s, v, p)

\* A page that has yet to be shown has no full row; a full row of a page that
\* is still there is explained piece by piece.
RowInv ==
    \A v \in Visits :
        /\ page[v] = "later" => full[v] = {}
        /\ page[v] = "open" =>
             \A f \in full[v] \ (partial[v] \cup hasty[v]) :
                 \A p \in PiecesOf(f) : Coming(v, p)

LEMMA RowsExplained == TypeOK /\ RowInv => FullRowExplained
  BY DEF RowInv, FullRowExplained, Coming, Held, OnDisk

\* A piece that is coming stays so as long as the process lives.
LEMMA ComingStays ==
  ASSUME TypeOK, Fresh, PieceInv, [Next]_vars, NEW u \in Visits, NEW q \in Pieces,
         Coming(u, q), ~Kill
  PROVE  Coming(u, q)'
<1> DEFINE Stays == /\ OnDisk(q) => OnDisk(q)'
                    /\ \A t \in Sessions : Held(t, u, q) => Held(t, u, q)' \/ OnDisk(q)'
<1> USE DEF Held
<1>1. ASSUME UNCHANGED <<owner, mem, dirty, stored, damaged>> PROVE Stays
  BY <1>1 DEF OnDisk
<1>2. ASSUME NEW v \in Visits, NEW s \in Sessions, Poll(v, s) PROVE Stays
  <2>1. UNCHANGED <<owner, mem, dirty, stored, damaged>>
    BY <1>2 DEF Poll, diskVars
  <2> QED
    BY <1>1, <2>1
<1>3. ASSUME NEW v \in Visits, NEW f \in Files, NEW s \in Sessions, didSelectRow(v, f, s)
      PROVE  Stays
  <2>1. dirty[s] = {}
    BY <1>3 DEF didSelectRow, Fresh, TypeOK
  <2>2. \A t \in Sessions : t # s => owner'[t] = owner[t]
    BY <1>3 DEF didSelectRow, TypeOK
  <2>3. UNCHANGED <<mem, dirty, stored, damaged>>
    BY <1>3 DEF didSelectRow, diskVars
  <2> QED
    BY <2>1, <2>2, <2>3 DEF OnDisk
<1>4. ASSUME NEW s \in Sessions, NEW p \in Pieces, NEW what \in {"good", "bad"},
             Receive(s, p, what)
      PROVE  Stays
  <2>1. p \notin dirty[s]
    BY <1>4 DEF Receive, TypeOK
  <2> QED
    BY <1>4, <2>1 DEF Receive, TypeOK, OnDisk, diskVars
<1>5. ASSUME NEW s \in Sessions, NEW p \in Pieces, NEW after \in {"part", "good", "bad"},
             FlushPart(s, p, after)
      PROVE  Stays
  <2>1. OnDisk(q) => OnDisk(q)'
    BY <1>5, PiecePart
  <2>2. UNCHANGED <<owner, mem, dirty>>
    BY <1>5 DEF FlushPart, sessionVars
  <2> QED
    BY <2>1, <2>2
<1>6. ASSUME NEW s \in Sessions, NEW p \in Pieces, Flush(s, p) PROVE Stays
  <2>1. {p} \in SUBSET dirty[s] /\ WriteOut(s, {p})
    BY <1>6 DEF Flush
  <2>2. /\ OnDisk(q) => OnDisk(q)'
        /\ q = p /\ mem[s][q] = "good" => OnDisk(q)'
    BY <2>1, WriteKeeps DEF OnDisk
  <2>3. \A t \in Sessions : t # s \/ q # p =>
          owner'[t] = owner[t] /\ mem'[t][q] = mem[t][q] /\ (q \in dirty[t] => q \in dirty'[t])
    BY <1>6 DEF Flush, TypeOK
  <2> QED
    BY <2>2, <2>3
<1>7. ASSUME NEW s \in Sessions, NEW p \in Pieces, NEW read \in {"part", "good", "bad"},
             Hash(s, p, read)
      PROVE  Stays
  BY <1>7 DEF Hash, CacheAfterHash, TypeOK, OnDisk, diskVars
<1>8. ASSUME NEW s \in Sessions, Close(s) PROVE Stays
  <2>1. dirty[s] \in SUBSET dirty[s] /\ WriteOut(s, dirty[s])
    BY <1>8 DEF Close
  <2>2. /\ OnDisk(q) => OnDisk(q)'
        /\ q \in dirty[s] /\ mem[s][q] = "good" => OnDisk(q)'
    BY <2>1, WriteKeeps DEF OnDisk
  <2>3. \A t \in Sessions : t # s =>
          owner'[t] = owner[t] /\ mem'[t] = mem[t] /\ dirty'[t] = dirty[t]
    BY <1>8 DEF Close, TypeOK
  <2> QED
    BY <2>2, <2>3
<1>9. ASSUME UNCHANGED vars PROVE Stays
  BY <1>1, <1>9 DEF vars, sessionVars, diskVars
<1> HIDE DEF Held, Stays
<1>10. Stays
  <2>1. CASE \E v \in Visits : Visit(v)
    <3>1. PICK v \in Visits : Visit(v)
      BY <2>1
    <3>2. CASE viewDidLoad(v) \/ Pop(v)
      <4>1. UNCHANGED <<owner, mem, dirty, stored, damaged>>
        BY <3>2 DEF viewDidLoad, Pop, sessionVars, diskVars
      <4> QED
        BY <1>1, <4>1
    <3> QED
      BY <1>2, <1>3, <3>1, <3>2 DEF Visit
  <2>2. CASE \E s \in Sessions : Session(s)
    <3>1. PICK s \in Sessions : Session(s)
      BY <2>2
    <3>2. CASE CheckFiles(s)
      <4>1. UNCHANGED <<owner, mem, dirty, stored, damaged>>
        BY <3>2 DEF CheckFiles, diskVars
      <4> QED
        BY <1>1, <4>1
    <3> QED
      BY <1>4, <1>5, <1>6, <1>7, <1>8, <3>1, <3>2 DEF Session
  <2> QED
    BY <1>9, <2>1, <2>2 DEF Next
<1> QED
  BY <1>10 DEF Coming, Stays

\* A step that leaves the pages and rows alone keeps RowInv.
LEMMA RowFrame ==
  ASSUME TypeOK, Fresh, PieceInv, RowInv, [Next]_vars, ~Kill,
         UNCHANGED <<page, full, partial, hasty>>
  PROVE  RowInv'
<1>1. \A v \in Visits, p \in Pieces : Coming(v, p) => Coming(v, p)'
  BY ComingStays
<1>2. \A f : PiecesOf(f) \subseteq Pieces /\ PiecesOf(f)' = PiecesOf(f)
  BY DEF PiecesOf
<1> QED
  BY <1>1, <1>2 DEF RowInv

\* viewDidLoad: a file that exists is complete, or is noted as partial.
LEMMA RowLoad ==
  ASSUME TypeOK, Fresh, PieceInv, RowInv, NEW v \in Visits, viewDidLoad(v)
  PROVE  RowInv'
<1> SUFFICES ASSUME NEW u \in Visits
             PROVE  /\ page'[u] = "later" => full'[u] = {}
                    /\ page'[u] = "open" =>
                         \A f \in full'[u] \ (partial'[u] \cup hasty'[u]) :
                             \A p \in PiecesOf(f) : Coming(u, p)'
  BY DEF RowInv, PiecesOf
<1>1. /\ page' = [page EXCEPT ![v] = "open"] /\ page[v] = "later"
      /\ UNCHANGED <<hasty, owner, mem, dirty, stored, damaged>>
  BY DEF viewDidLoad, sessionVars, diskVars
<1>2. \A w \in Visits, p \in Pieces : Coming(w, p)' <=> Coming(w, p)
  BY <1>1 DEF Coming, Held, OnDisk
<1>3. \A f : PiecesOf(f) \subseteq Pieces
  BY DEF PiecesOf
<1>4. CASE u # v
  <2>1. full'[u] = full[u] /\ partial'[u] = partial[u] /\ page'[u] = page[u]
    BY <1>1, <1>4 DEF viewDidLoad, TypeOK
  <2> QED
    BY <1>1, <1>2, <1>3, <2>1 DEF RowInv
<1>5. CASE u = v /\ v = 1
  <2>1. full'[u] = {} /\ page'[u] = "open"
    BY <1>1, <1>5 DEF viewDidLoad, TypeOK, RowInv
  <2> QED
    BY <2>1
<1>6. CASE u = v /\ v # 1
  <2>1. full'[u] = Existing /\ partial'[u] = Existing \ Complete /\ page'[u] = "open"
    BY <1>1, <1>6 DEF viewDidLoad, StoredFiles, TypeOK
  <2>2. \A f \in full'[u] \ partial'[u] : \A p \in PiecesOf(f) : stored[p] = "good"
    BY <2>1 DEF Complete
  <2>3. \A p \in Pieces : stored[p] = "good" => Coming(u, p)'
    BY <1>2 DEF Coming, OnDisk
  <2> QED
    BY <1>3, <2>1, <2>2, <2>3
<1> QED
  BY <1>4, <1>5, <1>6

\* Poll: a file it newly shows as complete is noted as hasty unless all of its
\* pieces have passed, and those are on disk or in the cache.
LEMMA RowPoll ==
  ASSUME TypeOK, Fresh, PieceInv, RowInv, NEW v \in Visits, NEW s \in Sessions,
         Poll(v, s)
  PROVE  RowInv'
<1> SUFFICES ASSUME NEW u \in Visits
             PROVE  /\ page'[u] = "later" => full'[u] = {}
                    /\ page'[u] = "open" =>
                         \A f \in full'[u] \ (partial'[u] \cup hasty'[u]) :
                             \A p \in PiecesOf(f) : Coming(u, p)'
  BY DEF RowInv, PiecesOf
<1>1. /\ UNCHANGED <<page, partial, owner, mem, dirty, stored, damaged>>
      /\ sess[s] # "none" /\ owner[s] = v
  BY DEF Poll, Running, diskVars
<1>2. \A w \in Visits, p \in Pieces : Coming(w, p)' <=> Coming(w, p)
  BY <1>1 DEF Coming, Held, OnDisk
<1>3. \A f : PiecesOf(f) \subseteq Pieces
  BY DEF PiecesOf
<1>4. page[v] # "later"
  BY <1>1 DEF TypeOK, Alive
<1>5. CASE IsSeed(s)
  <2>1. UNCHANGED <<full, hasty>>
    BY <1>5, Zenon DEF Poll
  <2> QED
    BY <1>1, <1>2, <1>3, <2>1 DEF RowInv
<1>6. CASE ~IsSeed(s)
  <2> DEFINE fast == {f \in FullNow(s) : \E p \in PiecesOf(f) : cell[s][p] = "written"}
  <2>1. /\ full' = [full EXCEPT ![v] = (full[v] \ selected[v]) \cup FullNow(s)]
        /\ hasty' = [hasty EXCEPT ![v] = hasty[v] \cup fast]
    BY <1>6, Zenon DEF Poll
  <2>2. \A f \in FullNow(s) \ fast : \A p \in PiecesOf(f) : Coming(v, p)
    <3> SUFFICES ASSUME NEW f \in FullNow(s) \ fast, NEW p \in PiecesOf(f)
                 PROVE  Coming(v, p)
      OBVIOUS
    <3>1. p \in Pieces /\ cell[s][p] = "have"
      BY <1>3 DEF FullNow, Counted
    <3> QED
      BY <1>1, <3>1 DEF PieceInv, Known, Coming, Held
  <2> HIDE DEF fast
  <2>3. CASE u # v
    <3>1. full'[u] = full[u] /\ hasty'[u] = hasty[u]
      BY <2>1, <2>3 DEF TypeOK
    <3> QED
      BY <1>1, <1>2, <1>3, <3>1 DEF RowInv
  <2>4. CASE u = v
    <3>1. /\ full'[u] = (full[u] \ selected[u]) \cup FullNow(s)
          /\ hasty'[u] = hasty[u] \cup fast
      BY <2>1, <2>4 DEF TypeOK
    <3>2. page[u] = "open" => \A f \in full[u] \ (partial[u] \cup hasty[u]) :
                                \A p \in PiecesOf(f) : Coming(u, p)
      BY DEF RowInv
    <3>3. page'[u] = "open" =>
            \A f \in full'[u] \ (partial'[u] \cup hasty'[u]) :
                \A p \in PiecesOf(f) : Coming(u, p)
      BY <1>1, <2>2, <2>4, <3>1, <3>2
    <3> QED
      BY <1>1, <1>2, <1>3, <1>4, <2>4, <3>3
  <2> QED
    BY <2>3, <2>4
<1> QED
  BY <1>5, <1>6

\* A row at 1.0 is right, or is wrong for one of three reasons, for any number
\* of visits, sessions, files and pieces and any order of visits, downloads,
\* restarts and overlapping sessions.
THEOREM RowsAreExplained == Spec => []FullRowExplained
<1>1. Init => RowInv
  BY DEF Init, RowInv
<1>2. TypeOK /\ Fresh /\ PieceInv /\ RowInv /\ [Next]_vars => RowInv'
  <2> SUFFICES ASSUME TypeOK, Fresh, PieceInv, RowInv, [Next]_vars PROVE RowInv'
    OBVIOUS
  <2>1. CASE Kill
    <3>1. \A v \in Visits : page'[v] # "open" /\ full'[v] = {}
      BY <2>1 DEF Kill, Alive
    <3> QED
      BY <3>1 DEF RowInv
  <2>2. CASE ~Kill
    <3>1. ASSUME UNCHANGED <<page, full, partial, hasty>> PROVE RowInv'
      BY <2>2, <3>1, RowFrame
    <3>2. ASSUME NEW v \in Visits, viewDidLoad(v) PROVE RowInv'
      BY <3>2, RowLoad
    <3>3. ASSUME NEW v \in Visits, NEW s \in Sessions, Poll(v, s) PROVE RowInv'
      BY <3>3, RowPoll
    <3>4. ASSUME NEW v \in Visits, Pop(v) PROVE RowInv'
      <4>1. /\ page' = [page EXCEPT ![v] = "left"]
            /\ UNCHANGED <<full, partial, hasty, owner, mem, dirty, stored, damaged>>
        BY <3>4 DEF Pop, sessionVars, diskVars
      <4>2. \A w \in Visits, p \in Pieces : Coming(w, p)' <=> Coming(w, p)
        BY <4>1 DEF Coming, Held, OnDisk
      <4>3. \A w \in Visits : page'[w] = page[w] \/ page'[w] = "left"
        BY <4>1 DEF TypeOK
      <4>4. \A f : PiecesOf(f) \subseteq Pieces /\ PiecesOf(f)' = PiecesOf(f)
        BY DEF PiecesOf
      <4> QED
        BY <4>1, <4>2, <4>3, <4>4 DEF RowInv
    <3>5. ASSUME NEW s \in Sessions, CheckFiles(s) \/ Close(s)
          PROVE  RowInv'
      BY <3>1, <3>5 DEF CheckFiles, Close, pageVars
    <3>6. ASSUME NEW v \in Visits, NEW f \in Files, NEW s \in Sessions,
                 didSelectRow(v, f, s)
          PROVE  RowInv'
      BY <3>1, <3>6 DEF didSelectRow
    <3>7. ASSUME NEW s \in Sessions, NEW p \in Pieces, NEW x \in {"part", "good", "bad"},
                 FlushPart(s, p, x) \/ Flush(s, p)
          PROVE  RowInv'
      BY <3>1, <3>7 DEF FlushPart, Flush, pageVars
    <3>8. ASSUME NEW s \in Sessions, NEW p \in Pieces, NEW what \in {"good", "bad"},
                 Receive(s, p, what)
          PROVE  RowInv'
      BY <3>1, <3>8 DEF Receive, pageVars
    <3>9. ASSUME NEW s \in Sessions, NEW p \in Pieces, NEW read \in {"part", "good", "bad"},
                 Hash(s, p, read)
          PROVE  RowInv'
      BY <3>1, <3>9 DEF Hash, pageVars
    <3>10. CASE UNCHANGED vars
      BY <3>1, <3>10 DEF vars, pageVars
    <3> QED
      BY <2>2, <3>2, <3>3, <3>4, <3>5, <3>6, <3>7, <3>8, <3>9, <3>10 DEF Next, Visit, Session
  <2> QED
    BY <2>1, <2>2
<1> QED
  BY <1>1, <1>2, PieceSafe, RowsExplained, PTL DEF Spec
=============================================================================
