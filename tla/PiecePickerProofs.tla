-------------------------- MODULE PiecePickerProofs --------------------------
(***************************************************************************)
(* What the operations of the piece picker keep, for any torrent: lemmas    *)
(* about single pickers, used by the proofs about PieceFlow.                *)
(***************************************************************************)
EXTENDS PiecePicker, FiniteSetTheorems, TLAPS

\* Pieces and blocks are numbered as the torrent says.
LEMMA Layout ==
    /\ num_pieces \in Nat \ {0}
    /\ \A p \in Pieces : p \in Nat /\ p + 1 \in 1..num_pieces /\ blocks_in_piece(p) \in Nat \ {0}
    /\ \A b : b \in Blocks <=> \E p \in Pieces : \E k \in 1..blocks_in_piece(p) : b = <<p, k>>
<1>1. num_pieces \in Nat \ {0}
  BY BlocksAssumption DEF num_pieces
<1>2. \A p \in Pieces : p \in Nat /\ p + 1 \in 1..num_pieces
  BY <1>1 DEF Pieces
<1>3. \A p \in Pieces : blocks_in_piece(p) \in Nat \ {0}
  BY <1>2, BlocksAssumption DEF num_pieces, blocks_in_piece
<1>4. \A b : b \in Blocks <=> \E p \in Pieces : \E k \in 1..blocks_in_piece(p) : b = <<p, k>>
  BY DEF Blocks
<1> QED BY <1>1, <1>2, <1>3, <1>4

\* Changing one value of a function.
LEMMA ExceptType ==
    ASSUME NEW D, NEW R, NEW f \in [D -> R], NEW k, NEW v \in R
    PROVE  [f EXCEPT ![k] = v] \in [D -> R]
  OBVIOUS

\* The parts of a block.
LEMMA BlockParts ==
    ASSUME NEW b \in Blocks
    PROVE  b[1] \in Pieces /\ b[2] \in 1..blocks_in_piece(b[1]) /\ b = <<b[1], b[2]>>
  BY Layout

-----------------------------------------------------------------------------
(***************************************************************************)
(* Cursors.                                                                 *)
(***************************************************************************)
\* A cursor is the place of the first wanted piece, or the end; the reverse
\* cursor that behind the last, or the start.
CursorAt(c, W)  == c \in 0..num_pieces /\ (\A x \in W : c <= x) /\ (c = num_pieces \/ c \in W)
ReverseAt(r, W) == r \in 0..num_pieces /\ (\A x \in W : x < r) /\ (r = 0 \/ r - 1 \in W)

\* A set of natural numbers that is not empty has a least one.
LEMMA LeastExists ==
    ASSUME NEW S, S \subseteq Nat, S # {}
    PROVE  /\ Min(S) \in S
           /\ \A y \in S : Min(S) <= y
<1>1. PICK x \in S : \A y \in S : <<y, x>> \notin OpToRel(<, Nat)
  BY NatLessThanWellFounded, WFMin
<1>2. ASSUME NEW y \in S PROVE ~(y < x)
  BY <1>1, <1>2 DEF OpToRel
<1>3. ASSUME NEW y \in S PROVE x <= y
  <2>1. ~(y < x) /\ x \in Nat /\ y \in Nat
    BY <1>2
  <2> QED BY <2>1
<1> QED BY <1>3 DEF Min

\* One with an upper bound has a greatest.
LEMMA GreatestExists ==
    ASSUME NEW n \in Nat, NEW S, S \subseteq 0..n, S # {}
    PROVE  /\ Max(S) \in S
           /\ \A y \in S : y <= Max(S)
<1> DEFINE T == {n - x : x \in S}
<1>1. T \subseteq Nat /\ T # {}
  <2>1. ASSUME NEW x \in S PROVE n - x \in Nat
    <3>1. x \in 0..n
      OBVIOUS
    <3> QED BY <3>1
  <2>2. PICK x \in S : TRUE
    OBVIOUS
  <2>3. n - x \in T
    OBVIOUS
  <2> QED BY <2>1, <2>3
<1>2. PICK t \in T : \A y \in T : t <= y
  <2> HIDE DEF T
  <2> QED BY <1>1, LeastExists
<1>3. PICK x \in S : t = n - x
  BY <1>2
<1>4. ASSUME NEW y \in S PROVE x >= y
  <2>1. n - x <= n - y
    BY <1>2, <1>3
  <2>2. x \in 0..n /\ y \in 0..n
    OBVIOUS
  <2> QED BY <2>1, <2>2
<1>5. /\ Max(S) \in S
      /\ \A y \in S : Max(S) >= y
  BY <1>4 DEF Max
<1>6. \A y \in S : y \in Int
  OBVIOUS
<1> QED BY <1>5, <1>6

\* The cursors of check_invariant, without Min and Max.
LEMMA CursorsMeaning ==
    ASSUME NEW W, W \subseteq Pieces, NEW c, NEW r
    PROVE  /\ c = (IF W = {} THEN num_pieces ELSE Min(W)) <=> CursorAt(c, W)
           /\ r = (IF W = {} THEN 0 ELSE Max(W) + 1) <=> ReverseAt(r, W)
<1>1. num_pieces \in Nat \ {0} /\ W \subseteq 0..(num_pieces - 1)
  BY Layout DEF Pieces
<1>2. CASE W = {}
  BY <1>1, <1>2 DEF CursorAt, ReverseAt
<1>3. CASE W # {}
  <2>0. W \subseteq Nat /\ num_pieces - 1 \in Nat
    BY <1>1
  <2>1. Min(W) \in W /\ \A y \in W : Min(W) <= y
    BY <2>0, <1>3, LeastExists
  <2>2. Max(W) \in W /\ \A y \in W : y <= Max(W)
    BY <2>0, <1>1, <1>3, GreatestExists
  <2>3. c = Min(W) <=> CursorAt(c, W)
    <3>1. c = Min(W) => CursorAt(c, W)
      <4>1. Min(W) \in 0..(num_pieces - 1)
        BY <1>1, <2>1
      <4>2. Min(W) \in 0..num_pieces
        BY <1>1, <4>1
      <4> QED BY <2>1, <4>2 DEF CursorAt
    <3>2. ASSUME CursorAt(c, W) PROVE c = Min(W)
      <4>1. c \in 0..num_pieces /\ c <= Min(W) /\ (c = num_pieces \/ c \in W)
        BY <2>1, <3>2 DEF CursorAt
      <4>2. Min(W) \in 0..(num_pieces - 1)
        BY <1>1, <2>1
      <4>3. c \in W
        BY <1>1, <4>1, <4>2
      <4>4. Min(W) <= c
        BY <2>1, <4>3
      <4> QED BY <1>1, <4>1, <4>2, <4>4
    <3> QED BY <3>1, <3>2
  <2>4. r = Max(W) + 1 <=> ReverseAt(r, W)
    <3>0. Max(W) \in 0..(num_pieces - 1)
      BY <1>1, <2>2
    <3>1. ASSUME r = Max(W) + 1 PROVE ReverseAt(r, W)
      <4>1. r \in 0..num_pieces /\ r - 1 = Max(W)
        BY <1>1, <3>0, <3>1
      <4>2. ASSUME NEW x \in W PROVE x < r
        <5>1. x <= Max(W) /\ x \in 0..(num_pieces - 1)
          BY <1>1, <2>2
        <5> QED BY <1>1, <3>0, <3>1, <5>1
      <4> QED BY <2>2, <4>1, <4>2 DEF ReverseAt
    <3>2. ASSUME ReverseAt(r, W) PROVE r = Max(W) + 1
      <4>1. r \in 0..num_pieces /\ Max(W) < r /\ (r = 0 \/ r - 1 \in W)
        BY <2>2, <3>2 DEF ReverseAt
      <4>2. r - 1 \in W
        BY <1>1, <3>0, <4>1
      <4>3. r - 1 <= Max(W)
        BY <2>2, <4>2
      <4> QED BY <1>1, <3>0, <4>1, <4>3
    <3> QED BY <3>1, <3>2
  <2> QED BY <1>3, <2>3, <2>4
<1> QED BY <1>2, <1>3

-----------------------------------------------------------------------------
(***************************************************************************)
(* Pickers as records.                                                      *)
(***************************************************************************)
\* The fields of a picker, with an entry for each piece.
Shape(pk) ==
    /\ pk = [have |-> pk.have, filtered |-> pk.filtered, dl |-> pk.dl,
             num_have |-> pk.num_have, num_passed |-> pk.num_passed,
             num_filtered |-> pk.num_filtered,
             num_have_filtered |-> pk.num_have_filtered,
             cursor |-> pk.cursor, reverse_cursor |-> pk.reverse_cursor]
    /\ pk.dl = [q \in Pieces |-> pk.dl[q]]

\* Pickers that agree on everything but the entry of p.
SameBut(pk, new, p) ==
    /\ new.have = pk.have /\ new.filtered = pk.filtered
    /\ new.num_have = pk.num_have /\ new.num_passed = pk.num_passed
    /\ new.num_filtered = pk.num_filtered
    /\ new.num_have_filtered = pk.num_have_filtered
    /\ new.cursor = pk.cursor /\ new.reverse_cursor = pk.reverse_cursor
    /\ \A q \in Pieces : q # p => new.dl[q] = pk.dl[q]

\* Storing an entry changes nothing else.
LEMMA StoreEntry ==
    ASSUME NEW pk, Shape(pk), NEW p \in Pieces, NEW e
    PROVE  LET new == [pk EXCEPT !.dl[p] = e]
           IN  Shape(new) /\ SameBut(pk, new, p) /\ new.dl[p] = e
  BY DEF Shape, SameBut

\* Nothing but num_passed differs.
SameButPassed(pk, new, p) ==
    /\ new.have = pk.have /\ new.filtered = pk.filtered
    /\ new.num_have = pk.num_have
    /\ new.num_filtered = pk.num_filtered
    /\ new.num_have_filtered = pk.num_have_filtered
    /\ new.cursor = pk.cursor /\ new.reverse_cursor = pk.reverse_cursor
    /\ \A q \in Pieces : q # p => new.dl[q] = pk.dl[q]

\* One flag of an entry is set to v, and num_passed to n.
FlagsChanged(pk, p, v, n) ==
    LET new == [pk EXCEPT !.dl[p].passed_hash_check = v, !.num_passed = n]
    IN  /\ Shape(new) /\ SameButPassed(pk, new, p)
        /\ new.num_passed = n
        /\ new.dl[p] = [pk.dl[p] EXCEPT !.passed_hash_check = v]

\* One field of an entry is changed, and num_passed.
LEMMA ChangeFlags ==
    ASSUME NEW pk, Shape(pk), NEW p \in Pieces, NEW v, NEW n
    PROVE  FlagsChanged(pk, p, v, n)
<1> DEFINE new == [pk EXCEPT !.dl[p].passed_hash_check = v, !.num_passed = n]
           d == [pk.dl EXCEPT ![p] = [@ EXCEPT !.passed_hash_check = v]]
<1>1. DOMAIN pk = {"have", "filtered", "dl", "num_have", "num_passed", "num_filtered",
                   "num_have_filtered", "cursor", "reverse_cursor"}
  BY DEF Shape
<1>2. new.dl = d /\ new.num_passed = n
  BY <1>1
<1>3. /\ new.have = pk.have /\ new.filtered = pk.filtered
    /\ new.num_have = pk.num_have
    /\ new.num_filtered = pk.num_filtered
    /\ new.num_have_filtered = pk.num_have_filtered
    /\ new.cursor = pk.cursor /\ new.reverse_cursor = pk.reverse_cursor
  BY <1>1
<1>4. d = [q \in Pieces |-> d[q]] /\ d[p] = [pk.dl[p] EXCEPT !.passed_hash_check = v]
      /\ \A q \in Pieces : q # p => d[q] = pk.dl[q]
  BY DEF Shape
<1>5. DOMAIN new = DOMAIN pk
  BY <1>1
<1>6. new = [x \in DOMAIN new |-> new[x]]
  OBVIOUS
<1> HIDE DEF new, d
<1>7. Shape(new)
  BY <1>1, <1>2, <1>4, <1>5, <1>6 DEF Shape
<1> QED
  BY <1>2, <1>3, <1>4, <1>7 DEF SameButPassed, new, FlagsChanged

-----------------------------------------------------------------------------
(***************************************************************************)
(* Entries.                                                                 *)
(***************************************************************************)
EntryType(p) ==
    [queue : Queues,
     state : [1..blocks_in_piece(p) -> BlockStates],
     num_peers : [1..blocks_in_piece(p) -> Nat],
     requested : Nat, writing : Nat, finished : Nat,
     passed_hash_check : BOOLEAN, locked : BOOLEAN]

EntryFields == {"queue", "state", "num_peers", "requested", "writing", "finished",
                "passed_hash_check", "locked"}

\* An entry is a record of these fields.
LEMMA EntryDomain ==
    ASSUME NEW p, NEW e \in EntryType(p)
    PROVE  /\ DOMAIN e = EntryFields
           /\ e.queue \in Queues
           /\ e.state \in [1..blocks_in_piece(p) -> BlockStates]
           /\ e.num_peers \in [1..blocks_in_piece(p) -> Nat]
           /\ e.requested \in Nat /\ e.writing \in Nat /\ e.finished \in Nat
           /\ e.passed_hash_check \in BOOLEAN /\ e.locked \in BOOLEAN
  BY DEF EntryType, EntryFields

\* A record of these fields with values of their types is an entry.
LEMMA EntryOf ==
    ASSUME NEW p, NEW e, NEW a \in EntryType(p),
           DOMAIN e = EntryFields, e = [f \in DOMAIN e |-> e[f]],
           e.queue = a.queue \/ e.queue \in Queues,
           e.state \in [1..blocks_in_piece(p) -> BlockStates],
           e.num_peers = a.num_peers \/ e.num_peers \in [1..blocks_in_piece(p) -> Nat],
           e.requested \in Nat, e.writing = a.writing \/ e.writing \in Nat,
           e.finished = a.finished \/ e.finished \in Nat,
           e.passed_hash_check = a.passed_hash_check \/ e.passed_hash_check \in BOOLEAN,
           e.locked = a.locked \/ e.locked \in BOOLEAN
    PROVE  e \in EntryType(p)
<1>1. e = [queue |-> e.queue, state |-> e.state, num_peers |-> e.num_peers,
           requested |-> e.requested, writing |-> e.writing, finished |-> e.finished,
           passed_hash_check |-> e.passed_hash_check, locked |-> e.locked]
  BY DEF EntryFields
<1> QED BY <1>1 DEF EntryType

\* The number of blocks of an entry in a state.
InStates(e, s) == Cardinality(InState(e, s))

\* Each counter is at least the number of blocks in its state.
Covers(e) ==
    /\ e.requested >= InStates(e, "requested")
    /\ e.writing >= InStates(e, "writing")
    /\ e.finished >= InStates(e, "finished")

\* An entry is there exactly while some block is in use.
EntryOk(p, e) ==
    /\ e \in EntryType(p)
    /\ Covers(e)
    /\ e = NoDownload(p) \/ (e.queue # "open" /\ InUse(e) > 0)

\* Changing the state of block k moves it from one count to another.
LEMMA StateCounts ==
    ASSUME NEW p \in Pieces, NEW e \in EntryType(p), NEW new \in EntryType(p),
           NEW k \in 1..blocks_in_piece(p), NEW v \in BlockStates,
           new.state = [e.state EXCEPT ![k] = v], NEW s
    PROVE  /\ InStates(e, s) \in Nat /\ InStates(new, s) \in Nat
           /\ e.state[k] = s => InStates(e, s) >= 1
           /\ InStates(new, s) = InStates(e, s) - One(e.state[k] = s) + One(v = s)
<1> DEFINE A == InState(e, s)
           B == InState(new, s)
<1>1. blocks_in_piece(p) \in Nat
  BY Layout
<1>2. /\ e.state \in [1..blocks_in_piece(p) -> BlockStates]
      /\ new.state \in [1..blocks_in_piece(p) -> BlockStates]
  BY DEF EntryType
<1>3. A \subseteq 1..blocks_in_piece(p) /\ B \subseteq 1..blocks_in_piece(p)
  BY <1>2 DEF InState
<1>4. IsFiniteSet(A) /\ IsFiniteSet(B)
  <2>1. IsFiniteSet(1..blocks_in_piece(p))
    BY <1>1, FS_Interval
  <2> QED BY <1>3, <2>1, FS_Subset
<1>5. Cardinality(A) \in Nat /\ Cardinality(B) \in Nat
  BY <1>4, FS_CardinalityType
<1>6. /\ k \in A <=> e.state[k] = s
      /\ k \in B <=> v = s
      /\ \A j \in 1..blocks_in_piece(p) : j # k => (j \in A <=> j \in B)
  BY <1>2 DEF InState
<1>7. /\ InStates(e, s) = Cardinality(A) /\ InStates(new, s) = Cardinality(B)
  BY DEF InStates
<1>8. e.state[k] = s => Cardinality(A) >= 1
  <2>1. e.state[k] = s => Cardinality(A \ {k}) = Cardinality(A) - 1 /\ Cardinality(A \ {k}) \in Nat
    BY <1>4, <1>6, FS_RemoveElement, FS_CardinalityType
  <2> QED BY <1>5, <2>1
<1>9. Cardinality(B) = Cardinality(A) - One(e.state[k] = s) + One(v = s)
  <2> HIDE DEF A, B
  <2>1. CASE e.state[k] = s /\ v = s
    <3>0. \A j \in 1..blocks_in_piece(p) : j \in A <=> j \in B
      BY <1>6, <2>1
    <3>1. A = B
      BY <1>3, <3>0
    <3> QED BY <1>5, <2>1, <3>1 DEF One
  <2>2. CASE e.state[k] = s /\ v # s
    <3>1. B = A \ {k}
      BY <1>3, <1>6, <2>2
    <3>2. Cardinality(B) = Cardinality(A) - 1
      BY <1>4, <1>6, <2>2, <3>1, FS_RemoveElement
    <3> QED BY <1>5, <2>2, <3>2 DEF One
  <2>3. CASE e.state[k] # s /\ v = s
    <3>1. B = A \cup {k} /\ k \notin A
      BY <1>3, <1>6, <2>3
    <3>2. Cardinality(B) = Cardinality(A) + 1
      BY <1>4, <3>1, FS_AddElement
    <3> QED BY <1>5, <2>3, <3>2 DEF One
  <2>4. CASE e.state[k] # s /\ v # s
    <3>0. \A j \in 1..blocks_in_piece(p) : j \in A <=> j \in B
      BY <1>6, <2>4
    <3>1. A = B
      BY <1>3, <3>0
    <3> QED BY <1>5, <2>4, <3>1 DEF One
  <2> QED BY <2>1, <2>2, <2>3, <2>4
<1> QED BY <1>5, <1>7, <1>8, <1>9

\* A piece without an entry has no block in use.
LEMMA EmptyEntry ==
    ASSUME NEW p \in Pieces
    PROVE  /\ EntryOk(p, NoDownload(p))
           /\ \A s \in BlockStates \ {"none"} : InStates(NoDownload(p), s) = 0
           /\ InUse(NoDownload(p)) = 0
<1>1. NoDownload(p) \in EntryType(p)
  BY DEF NoDownload, EntryType, Queues, BlockStates
<1>2. ASSUME NEW s \in BlockStates \ {"none"} PROVE InStates(NoDownload(p), s) = 0
  <2>1. InState(NoDownload(p), s) = {}
    BY DEF InState, NoDownload
  <2> QED BY <2>1, FS_EmptySet DEF InStates
<1>3. Covers(NoDownload(p))
  <2>1. /\ InStates(NoDownload(p), "requested") = 0
        /\ InStates(NoDownload(p), "writing") = 0
        /\ InStates(NoDownload(p), "finished") = 0
    BY <1>2 DEF BlockStates
  <2>2. /\ NoDownload(p).requested = 0 /\ NoDownload(p).writing = 0
        /\ NoDownload(p).finished = 0
    BY DEF NoDownload
  <2> QED BY <2>1, <2>2 DEF Covers
<1>4. InUse(NoDownload(p)) = 0
  BY DEF InUse, NoDownload
<1> QED BY <1>1, <1>2, <1>3, <1>4 DEF EntryOk

\* update_piece_state changes nothing but the queue of an entry in use.
LEMMA UpdateState ==
    ASSUME NEW pk, NEW p \in Pieces, NEW e \in EntryType(p), InUse(e) > 0
    PROVE  LET u == update_piece_state(pk, p, e)
           IN  /\ u \in EntryType(p)
               /\ u.state = e.state /\ u.num_peers = e.num_peers
               /\ u.requested = e.requested /\ u.writing = e.writing
               /\ u.finished = e.finished
               /\ u.passed_hash_check = e.passed_hash_check /\ u.locked = e.locked
               /\ u.queue = IF p \in pk.filtered THEN "zero_prio"
                            ELSE IF InUse(e) < blocks_in_piece(p) THEN "downloading"
                            ELSE IF e.requested > 0 THEN "full" ELSE "finished"
<1> DEFINE u == update_piece_state(pk, p, e)
           q == IF p \in pk.filtered THEN "zero_prio"
                ELSE IF InUse(e) < blocks_in_piece(p) THEN "downloading"
                ELSE IF e.requested > 0 THEN "full" ELSE "finished"
<1>1. InUse(e) \in Nat /\ blocks_in_piece(p) \in Nat
  BY Layout DEF EntryType, InUse
<1>2. u = [e EXCEPT !.queue = q]
  <2>1. CASE p \in pk.filtered
    BY <2>1 DEF update_piece_state
  <2>2. CASE p \notin pk.filtered /\ InUse(e) < blocks_in_piece(p)
    <3>1. InUse(e) \in 1..(blocks_in_piece(p) - 1) /\ InUse(e) # 0
      BY <1>1, <2>2
    <3> HIDE DEF q
    <3>2. q = "downloading"
      BY <2>2 DEF q
    <3> QED BY <2>2, <3>1, <3>2 DEF update_piece_state
  <2>3. CASE p \notin pk.filtered /\ ~(InUse(e) < blocks_in_piece(p))
    <3>1. InUse(e) \notin 1..(blocks_in_piece(p) - 1) /\ InUse(e) # 0
      BY <1>1, <2>3
    <3>2. q = IF e.requested > 0 THEN "full" ELSE "finished"
      BY <2>3
    <3> HIDE DEF q
    <3> QED BY <2>3, <3>1, <3>2 DEF update_piece_state
  <2> QED BY <2>1, <2>2, <2>3
<1>3. q \in Queues
  BY DEF Queues
<1> HIDE DEF q
<1>4. /\ u \in EntryType(p)
      /\ u.state = e.state /\ u.num_peers = e.num_peers
      /\ u.requested = e.requested /\ u.writing = e.writing
      /\ u.finished = e.finished
      /\ u.passed_hash_check = e.passed_hash_check /\ u.locked = e.locked
      /\ u.queue = q
  BY <1>2, <1>3 DEF EntryType
<1> QED BY <1>4 DEF q

-----------------------------------------------------------------------------
(***************************************************************************)
(* What holds of every picker, whatever goes wrong: no counter is below     *)
(* what it counts, and the totals and cursors are right.                    *)
(***************************************************************************)
\* The pieces that have passed and whose blocks are not all written yet.
Flagged(pk) == {p \in Pieces : pk.dl[p].passed_hash_check}

PickerOk(pk) ==
    /\ Shape(pk)
    /\ pk.have \subseteq Pieces /\ pk.filtered \subseteq Pieces
    /\ \A p \in Pieces : EntryOk(p, pk.dl[p])
    /\ CountsAgree(pk)
    /\ pk.num_passed \in Nat
    /\ pk.num_passed >= Cardinality(pk.have) + Cardinality(Flagged(pk))

\* Sets of pieces are finite.
LEMMA PiecesFinite ==
    ASSUME NEW S, S \subseteq Pieces
    PROVE  IsFiniteSet(S) /\ Cardinality(S) \in Nat
<1>1. IsFiniteSet(Pieces)
  BY Layout, FS_Interval DEF Pieces
<1> QED BY <1>1, FS_Subset, FS_CardinalityType

\* The picker is all right again when one entry was replaced by one that is.
LEMMA ReplaceEntry ==
    ASSUME NEW pk, PickerOk(pk), NEW p \in Pieces, NEW new, Shape(new),
           SameBut(pk, new, p), EntryOk(p, new.dl[p]),
           new.dl[p].passed_hash_check => pk.dl[p].passed_hash_check
    PROVE  PickerOk(new)
<1>1. \A q \in Pieces : EntryOk(q, new.dl[q])
  BY DEF PickerOk, SameBut
<1>2. CountsAgree(new)
  BY DEF PickerOk, SameBut, CountsAgree, Settled
<1>3. Flagged(new) \subseteq Flagged(pk) /\ Flagged(pk) \subseteq Pieces
  BY DEF SameBut, Flagged
<1>4. Cardinality(Flagged(new)) <= Cardinality(Flagged(pk))
  BY <1>3, PiecesFinite, FS_Subset
<1>5. /\ Cardinality(Flagged(new)) \in Nat /\ Cardinality(Flagged(pk)) \in Nat
      /\ Cardinality(pk.have) \in Nat
      /\ new.num_passed = pk.num_passed /\ new.have = pk.have
      /\ pk.num_passed \in Nat
      /\ pk.num_passed >= Cardinality(pk.have) + Cardinality(Flagged(pk))
  BY <1>3, PiecesFinite DEF PickerOk, SameBut
<1>6. new.num_passed \in Nat /\ new.num_passed >= Cardinality(new.have) + Cardinality(Flagged(new))
  BY <1>4, <1>5
<1> QED BY <1>1, <1>2, <1>6 DEF PickerOk, SameBut

\* The entry that an operation on a block starts from.
LEMMA AddEntry ==
    ASSUME NEW pk, PickerOk(pk), NEW p \in Pieces
    PROVE  LET o == pk.dl[p]
               a == add_download_piece(pk, p)
           IN  /\ o \in EntryType(p) /\ a \in EntryType(p)
               /\ a.state = o.state /\ a.num_peers = o.num_peers
               /\ a.requested = o.requested /\ a.writing = o.writing
               /\ a.finished = o.finished
               /\ a.passed_hash_check = o.passed_hash_check /\ a.locked = o.locked
               /\ a.queue = IF o.queue = "open" THEN "downloading" ELSE o.queue
<1>1. pk.dl[p] \in EntryType(p)
  BY DEF PickerOk, EntryOk
<1>2. CASE Downloading(pk, p)
  BY <1>1, <1>2 DEF add_download_piece, Downloading
<1>3. CASE ~Downloading(pk, p)
  <2>1. pk.dl[p] = NoDownload(p)
    BY <1>3 DEF PickerOk, EntryOk, Downloading
  <2>2. add_download_piece(pk, p) = [NoDownload(p) EXCEPT !.queue = "downloading"]
    BY <1>3 DEF add_download_piece
  <2>3. NoDownload(p).queue = "open"
    BY DEF NoDownload
  <2>4. "downloading" \in Queues
    BY DEF Queues
  <2> QED BY <1>1, <2>1, <2>2, <2>3, <2>4 DEF EntryType
<1> QED BY <1>2, <1>3

\* The queue of an entry in use.
QueueFor(pk, p, e) ==
    IF p \in pk.filtered THEN "zero_prio"
    ELSE IF InUse(e) < blocks_in_piece(p) THEN "downloading"
    ELSE IF e.requested > 0 THEN "full" ELSE "finished"

\* The state of a block in a picker.
LEMMA StateType ==
    ASSUME NEW pk, PickerOk(pk), NEW b \in Blocks
    PROVE  /\ StateOf(pk, b) \in BlockStates
           /\ StateOf(pk, b) = pk.dl[b[1]].state[b[2]]
           /\ num_peers(pk, b) = pk.dl[b[1]].num_peers[b[2]]
           /\ num_peers(pk, b) \in Nat
  BY BlockParts DEF PickerOk, EntryOk, EntryType, StateOf, num_peers

\* What mark_as_downloading makes of a picker.
AskedFor(pk, b) ==
    LET p == b[1]
        o == pk.dl[p]
        new == mark_as_downloading(pk, b)
        e == new.dl[p]
    IN  /\ Shape(new) /\ SameBut(pk, new, p)
        /\ e \in EntryType(p)
        /\ e.state = [o.state EXCEPT ![b[2]] = "requested"]
        /\ e.num_peers = [o.num_peers EXCEPT ![b[2]] = @ + 1]
        /\ e.requested = o.requested + One(StateOf(pk, b) = "none")
        /\ e.writing = o.writing /\ e.finished = o.finished
        /\ e.passed_hash_check = o.passed_hash_check /\ e.locked = o.locked
        /\ e.queue = IF StateOf(pk, b) = "none" THEN QueueFor(pk, p, e)
                     ELSE IF o.queue = "open" THEN "downloading" ELSE o.queue

\* mark_as_downloading: what becomes of the entry.
LEMMA DownloadingEntry ==
    ASSUME NEW pk, PickerOk(pk), NEW b \in Blocks,
           StateOf(pk, b) \notin {"writing", "finished"}
    PROVE  AskedFor(pk, b)
<1> DEFINE p == b[1]
           k == b[2]
           o == pk.dl[p]
           s == StateOf(pk, b)
           a == add_download_piece(pk, p)
           x == [a EXCEPT !.state[k] = "requested", !.num_peers[k] = @ + 1,
                          !.requested = @ + One(s = "none")]
           e == IF s = "none" THEN update_piece_state(pk, p, x) ELSE x
           new == [pk EXCEPT !.dl[p] = e]
<1>1. p \in Pieces /\ k \in 1..blocks_in_piece(p)
  BY BlockParts
<1>2. /\ o \in EntryType(p) /\ a \in EntryType(p)
      /\ a.state = o.state /\ a.num_peers = o.num_peers
      /\ a.requested = o.requested /\ a.writing = o.writing
      /\ a.finished = o.finished
      /\ a.passed_hash_check = o.passed_hash_check /\ a.locked = o.locked
      /\ a.queue = IF o.queue = "open" THEN "downloading" ELSE o.queue
  BY <1>1, AddEntry
<1>3. mark_as_downloading(pk, b) = new
  BY DEF mark_as_downloading
<1>4. One(s = "none") \in Nat /\ (s = "none" => One(s = "none") = 1)
  BY DEF One
<1> HIDE DEF p, k, o, s, a
<1>5. /\ x \in EntryType(p)
      /\ x.state = [a.state EXCEPT ![k] = "requested"]
      /\ x.num_peers = [a.num_peers EXCEPT ![k] = @ + 1]
      /\ x.requested = a.requested + One(s = "none")
      /\ x.writing = a.writing /\ x.finished = a.finished /\ x.queue = a.queue
      /\ x.passed_hash_check = a.passed_hash_check /\ x.locked = a.locked
  <2>1. DOMAIN a = EntryFields
    BY <1>2, EntryDomain
  <2>2. /\ x.state = [a.state EXCEPT ![k] = "requested"]
        /\ x.num_peers = [a.num_peers EXCEPT ![k] = @ + 1]
        /\ x.requested = a.requested + One(s = "none")
    BY <2>1 DEF EntryFields
  <2>3. /\ x.writing = a.writing /\ x.finished = a.finished /\ x.queue = a.queue
        /\ x.passed_hash_check = a.passed_hash_check /\ x.locked = a.locked
    BY <2>1 DEF EntryFields
  <2>4. DOMAIN x = EntryFields /\ x = [f \in DOMAIN x |-> x[f]]
    BY <2>1
  <2>5. /\ x.state \in [1..blocks_in_piece(p) -> BlockStates]
        /\ x.num_peers \in [1..blocks_in_piece(p) -> Nat]
        /\ x.requested \in Nat
    <3> HIDE DEF x
    <3>1. /\ a.state \in [1..blocks_in_piece(p) -> BlockStates]
          /\ a.num_peers \in [1..blocks_in_piece(p) -> Nat]
          /\ a.requested \in Nat
      BY <1>2, EntryDomain
    <3>2. x.state \in [1..blocks_in_piece(p) -> BlockStates]
      BY <2>2, <3>1 DEF BlockStates
    <3>3. x.num_peers \in [1..blocks_in_piece(p) -> Nat]
      <4>1. a.num_peers[k] \in Nat
        BY <1>1, <3>1
      <4>2. a.num_peers[k] + 1 \in Nat
        BY <4>1
      <4> QED BY <2>2, <3>1, <4>2
    <3> QED BY <1>4, <2>2, <3>1, <3>2, <3>3
  <2>6. x \in EntryType(p)
    <3> HIDE DEF x
    <3> QED BY <1>2, <2>3, <2>4, <2>5, EntryOf
  <2> QED BY <2>2, <2>3, <2>6
<1> HIDE DEF x
<1>6. /\ e \in EntryType(p)
      /\ e.state = x.state /\ e.num_peers = x.num_peers
      /\ e.requested = x.requested /\ e.writing = x.writing /\ e.finished = x.finished
      /\ e.passed_hash_check = x.passed_hash_check /\ e.locked = x.locked
      /\ e.queue = IF s = "none" THEN QueueFor(pk, p, e) ELSE x.queue
  <2>1. CASE s = "none"
    <3>1. InUse(x) > 0
      BY <1>2, <1>4, <1>5, <2>1 DEF InUse, EntryType
    <3>2. e = update_piece_state(pk, p, x)
      BY <2>1
    <3> QED BY <1>1, <1>5, <2>1, <3>1, <3>2, UpdateState DEF QueueFor, InUse
  <2>2. CASE s # "none"
    BY <1>5, <2>2
  <2> QED BY <2>1, <2>2
<1> HIDE DEF e
<1>7. Shape(new) /\ SameBut(pk, new, p) /\ new.dl[p] = e
  BY <1>1, StoreEntry DEF PickerOk
<1> HIDE DEF new
<1> QED BY <1>2, <1>3, <1>5, <1>6, <1>7 DEF p, k, o, s, AskedFor

\* A counter is positive when a block is in its state.
LEMMA CountedBlock ==
    ASSUME NEW pk, PickerOk(pk), NEW b \in Blocks
    PROVE  LET e == pk.dl[b[1]]
           IN  /\ StateOf(pk, b) = "requested" => e.requested >= 1
               /\ StateOf(pk, b) = "writing" => e.writing >= 1
<1> DEFINE p == b[1]
           k == b[2]
           e == pk.dl[p]
<1>1. p \in Pieces /\ k \in 1..blocks_in_piece(p) /\ StateOf(pk, b) = e.state[k]
  BY BlockParts DEF StateOf
<1>2. e \in EntryType(p) /\ Covers(e)
  BY <1>1 DEF PickerOk, EntryOk
<1>3. e.state \in [1..blocks_in_piece(p) -> BlockStates] /\ e.requested \in Nat /\ e.writing \in Nat
  BY <1>2, EntryDomain
<1> HIDE DEF p, k, e
<1>4. e.state[k] \in BlockStates /\ e.state = [e.state EXCEPT ![k] = e.state[k]]
  BY <1>1, <1>3
<1>5. ASSUME NEW s
      PROVE  InStates(e, s) \in Nat /\ (e.state[k] = s => InStates(e, s) >= 1)
  BY <1>1, <1>2, <1>4, StateCounts
<1>6. /\ InStates(e, "requested") \in Nat /\ InStates(e, "writing") \in Nat
      /\ e.state[k] = "requested" => InStates(e, "requested") >= 1
      /\ e.state[k] = "writing" => InStates(e, "writing") >= 1
  BY <1>5
<1>7. e.requested >= InStates(e, "requested") /\ e.writing >= InStates(e, "writing")
  BY <1>2 DEF Covers
<1>8. /\ e.state[k] = "requested" => e.requested >= 1
      /\ e.state[k] = "writing" => e.writing >= 1
  BY <1>3, <1>6, <1>7
<1> QED BY <1>1, <1>8 DEF e, p

\* What mark_as_writing makes of a picker.
BeingWritten(pk, b) ==
    LET p == b[1]
        o == pk.dl[p]
        new == mark_as_writing(pk, b)
        e == new.dl[p]
    IN  /\ Shape(new) /\ SameBut(pk, new, p)
        /\ e \in EntryType(p)
        /\ e.state = [o.state EXCEPT ![b[2]] = "writing"]
        /\ e.num_peers = [o.num_peers EXCEPT ![b[2]] = 0]
        /\ e.requested = o.requested - One(StateOf(pk, b) = "requested")
        /\ e.writing = o.writing + 1 /\ e.finished = o.finished
        /\ e.passed_hash_check = o.passed_hash_check /\ e.locked = o.locked
        /\ e.queue = QueueFor(pk, p, e)

\* mark_as_writing: what becomes of the entry.
LEMMA WritingEntry ==
    ASSUME NEW pk, PickerOk(pk), NEW b \in Blocks,
           Downloading(pk, b[1]) \/ b[1] \notin pk.have,
           StateOf(pk, b) \notin {"writing", "finished"}
    PROVE  BeingWritten(pk, b)
<1> DEFINE p == b[1]
           k == b[2]
           o == pk.dl[p]
           s == StateOf(pk, b)
           a == add_download_piece(pk, p)
           x == [a EXCEPT !.state[k] = "writing", !.num_peers[k] = 0,
                          !.requested = @ - One(s = "requested"),
                          !.writing = @ + 1]
           e == update_piece_state(pk, p, x)
           new == [pk EXCEPT !.dl[p] = e]
<1>1. p \in Pieces /\ k \in 1..blocks_in_piece(p)
  BY BlockParts
<1>2. /\ o \in EntryType(p) /\ a \in EntryType(p)
      /\ a.state = o.state /\ a.num_peers = o.num_peers
      /\ a.requested = o.requested /\ a.writing = o.writing
      /\ a.finished = o.finished
      /\ a.passed_hash_check = o.passed_hash_check /\ a.locked = o.locked
  BY <1>1, AddEntry
<1>3. mark_as_writing(pk, b) = new
  BY DEF mark_as_writing
<1>4. /\ o.requested \in Nat /\ o.writing \in Nat /\ o.finished \in Nat
      /\ o.requested - One(s = "requested") \in Nat
  <2>1. s = "requested" => o.requested >= 1
    BY CountedBlock
  <2>2. o.requested \in Nat /\ o.writing \in Nat /\ o.finished \in Nat
    BY <1>2, EntryDomain
  <2> HIDE DEF o, s
  <2> QED BY <2>1, <2>2 DEF One
<1> HIDE DEF p, k, o, s, a
<1>5. /\ x \in EntryType(p)
      /\ x.state = [a.state EXCEPT ![k] = "writing"]
      /\ x.num_peers = [a.num_peers EXCEPT ![k] = 0]
      /\ x.requested = a.requested - One(s = "requested")
      /\ x.writing = a.writing + 1 /\ x.finished = a.finished
      /\ x.passed_hash_check = a.passed_hash_check /\ x.locked = a.locked
  <2>1. DOMAIN a = EntryFields
    BY <1>2, EntryDomain
  <2>2. /\ x.state = [a.state EXCEPT ![k] = "writing"]
        /\ x.num_peers = [a.num_peers EXCEPT ![k] = 0]
        /\ x.requested = a.requested - One(s = "requested")
        /\ x.writing = a.writing + 1
    BY <2>1 DEF EntryFields
  <2>3. /\ x.finished = a.finished /\ x.queue = a.queue
        /\ x.passed_hash_check = a.passed_hash_check /\ x.locked = a.locked
    BY <2>1 DEF EntryFields
  <2>4. DOMAIN x = EntryFields /\ x = [f \in DOMAIN x |-> x[f]]
    BY <2>1
  <2> HIDE DEF x
  <2>5. /\ a.state \in [1..blocks_in_piece(p) -> BlockStates]
        /\ a.num_peers \in [1..blocks_in_piece(p) -> Nat]
    BY <1>2, EntryDomain
  <2>6. x.state \in [1..blocks_in_piece(p) -> BlockStates]
    BY <2>2, <2>5 DEF BlockStates
  <2>7. x.num_peers \in [1..blocks_in_piece(p) -> Nat]
    <3>1. 0 \in Nat
      OBVIOUS
    <3> QED BY <2>2, <2>5, <3>1, ExceptType
  <2>8. x.requested \in Nat /\ x.writing \in Nat
    BY <1>2, <1>4, <2>2
  <2> QED BY <1>2, <2>2, <2>3, <2>4, <2>6, <2>7, <2>8, EntryOf
<1> HIDE DEF x
<1>6. InUse(x) > 0
  <2>1. x.requested \in Nat /\ x.finished \in Nat
    BY <1>5, EntryDomain
  <2>2. x.writing = a.writing + 1 /\ a.writing \in Nat
    BY <1>2, <1>4, <1>5
  <2> QED BY <2>1, <2>2 DEF InUse
<1>7. /\ e \in EntryType(p)
      /\ e.state = x.state /\ e.num_peers = x.num_peers
      /\ e.requested = x.requested /\ e.writing = x.writing /\ e.finished = x.finished
      /\ e.passed_hash_check = x.passed_hash_check /\ e.locked = x.locked
      /\ e.queue = QueueFor(pk, p, e)
  BY <1>1, <1>5, <1>6, UpdateState DEF QueueFor, InUse
<1> HIDE DEF e
<1>8. Shape(new) /\ SameBut(pk, new, p) /\ new.dl[p] = e
  BY <1>1, StoreEntry DEF PickerOk
<1> HIDE DEF new
<1> QED BY <1>2, <1>3, <1>5, <1>7, <1>8 DEF p, k, o, s, BeingWritten

\* mark_as_finished before it looks whether the piece is there.
FinishedBlock(pk, b) ==
    LET p == b[1]
        e == [add_download_piece(pk, p) EXCEPT
                !.state[b[2]] = "finished",
                !.writing = @ - One(StateOf(pk, b) = "writing"),
                !.finished = @ + 1]
    IN  [pk EXCEPT !.dl[p] = update_piece_state(pk, p, e)]

\* What mark_as_finished makes of a picker.
Written(pk, b) ==
    LET p == b[1]
        o == pk.dl[p]
        new == FinishedBlock(pk, b)
        e == new.dl[p]
    IN  /\ Shape(new) /\ SameBut(pk, new, p)
        /\ e \in EntryType(p)
        /\ e.state = [o.state EXCEPT ![b[2]] = "finished"]
        /\ e.num_peers = o.num_peers
        /\ e.requested = o.requested
        /\ e.writing = o.writing - One(StateOf(pk, b) = "writing")
        /\ e.finished = o.finished + 1
        /\ e.passed_hash_check = o.passed_hash_check /\ e.locked = o.locked
        /\ e.queue = QueueFor(pk, p, e)
        /\ mark_as_finished(pk, b) =
             IF e.finished >= blocks_in_piece(p) /\ e.passed_hash_check
             THEN we_have(new, p) ELSE new

\* mark_as_finished: what becomes of the entry.
LEMMA FinishedEntry ==
    ASSUME NEW pk, PickerOk(pk), NEW b \in Blocks,
           Downloading(pk, b[1]) \/ b[1] \notin pk.have,
           StateOf(pk, b) # "finished"
    PROVE  Written(pk, b)
<1> DEFINE p == b[1]
           k == b[2]
           o == pk.dl[p]
           s == StateOf(pk, b)
           a == add_download_piece(pk, p)
           x == [a EXCEPT !.state[k] = "finished",
                          !.writing = @ - One(s = "writing"),
                          !.finished = @ + 1]
           e == update_piece_state(pk, p, x)
           new == [pk EXCEPT !.dl[p] = e]
<1>1. p \in Pieces /\ k \in 1..blocks_in_piece(p)
  BY BlockParts
<1>2. /\ o \in EntryType(p) /\ a \in EntryType(p)
      /\ a.state = o.state /\ a.num_peers = o.num_peers
      /\ a.requested = o.requested /\ a.writing = o.writing
      /\ a.finished = o.finished
      /\ a.passed_hash_check = o.passed_hash_check /\ a.locked = o.locked
  BY <1>1, AddEntry
<1>3. /\ FinishedBlock(pk, b) = new
      /\ mark_as_finished(pk, b) =
           IF x.finished >= blocks_in_piece(p) /\ x.passed_hash_check
           THEN we_have(new, p) ELSE new
  BY DEF mark_as_finished, FinishedBlock
<1>4. /\ o.requested \in Nat /\ o.writing \in Nat /\ o.finished \in Nat
      /\ o.writing - One(s = "writing") \in Nat
  <2>1. s = "writing" => o.writing >= 1
    BY CountedBlock
  <2>2. o.requested \in Nat /\ o.writing \in Nat /\ o.finished \in Nat
    BY <1>2, EntryDomain
  <2> HIDE DEF o, s
  <2> QED BY <2>1, <2>2 DEF One
<1> HIDE DEF p, k, o, s, a
<1>5. /\ x \in EntryType(p)
      /\ x.state = [a.state EXCEPT ![k] = "finished"]
      /\ x.num_peers = a.num_peers
      /\ x.requested = a.requested
      /\ x.writing = a.writing - One(s = "writing") /\ x.finished = a.finished + 1
      /\ x.passed_hash_check = a.passed_hash_check /\ x.locked = a.locked
  <2>1. DOMAIN a = EntryFields
    BY <1>2, EntryDomain
  <2>2. /\ x.state = [a.state EXCEPT ![k] = "finished"]
        /\ x.writing = a.writing - One(s = "writing")
        /\ x.finished = a.finished + 1
    BY <2>1 DEF EntryFields
  <2>3. /\ x.num_peers = a.num_peers /\ x.requested = a.requested /\ x.queue = a.queue
        /\ x.passed_hash_check = a.passed_hash_check /\ x.locked = a.locked
    BY <2>1 DEF EntryFields
  <2>4. DOMAIN x = EntryFields /\ x = [f \in DOMAIN x |-> x[f]]
    BY <2>1
  <2> HIDE DEF x
  <2>5. a.state \in [1..blocks_in_piece(p) -> BlockStates]
    BY <1>2, EntryDomain
  <2>6. x.state \in [1..blocks_in_piece(p) -> BlockStates]
    BY <2>2, <2>5 DEF BlockStates
  <2>7. x.requested \in Nat /\ x.writing \in Nat /\ x.finished \in Nat
    BY <1>2, <1>4, <2>2, <2>3
  <2> QED BY <1>2, <2>2, <2>3, <2>4, <2>6, <2>7, EntryOf
<1> HIDE DEF x
<1>6. InUse(x) > 0
  <2>1. x.requested \in Nat /\ x.writing \in Nat
    BY <1>5, EntryDomain
  <2>2. x.finished = a.finished + 1 /\ a.finished \in Nat
    BY <1>2, <1>4, <1>5
  <2> QED BY <2>1, <2>2 DEF InUse
<1>7. /\ e \in EntryType(p)
      /\ e.state = x.state /\ e.num_peers = x.num_peers
      /\ e.requested = x.requested /\ e.writing = x.writing /\ e.finished = x.finished
      /\ e.passed_hash_check = x.passed_hash_check /\ e.locked = x.locked
      /\ e.queue = QueueFor(pk, p, e)
  BY <1>1, <1>5, <1>6, UpdateState DEF QueueFor, InUse
<1> HIDE DEF e
<1>8. Shape(new) /\ SameBut(pk, new, p) /\ new.dl[p] = e
  BY <1>1, StoreEntry DEF PickerOk
<1> HIDE DEF new
<1> QED BY <1>2, <1>3, <1>5, <1>7, <1>8 DEF p, k, o, s, Written

\* KeepInUse: an entry goes when its last block is given free.
LEMMA KeptEntry ==
    ASSUME NEW pk, Shape(pk), NEW p \in Pieces, NEW x \in EntryType(p)
    PROVE  LET new == KeepInUse(pk, p, x)
               e == new.dl[p]
           IN  /\ Shape(new) /\ SameBut(pk, new, p)
               /\ InUse(x) = 0 => e = NoDownload(p)
               /\ InUse(x) > 0 =>
                    /\ e \in EntryType(p)
                    /\ e.state = x.state /\ e.num_peers = x.num_peers
                    /\ e.requested = x.requested /\ e.writing = x.writing
                    /\ e.finished = x.finished
                    /\ e.passed_hash_check = x.passed_hash_check /\ e.locked = x.locked
                    /\ e.queue = QueueFor(pk, p, e)
               /\ InUse(x) \in Nat
<1>0. InUse(x) \in Nat
  <2>1. x.requested \in Nat /\ x.writing \in Nat /\ x.finished \in Nat
    BY EntryDomain
  <2> QED BY <2>1 DEF InUse
<1>1. CASE InUse(x) = 0
  <2>1. KeepInUse(pk, p, x) = [pk EXCEPT !.dl[p] = NoDownload(p)]
    BY <1>1 DEF KeepInUse, erase_download_piece
  <2> QED BY <1>0, <1>1, <2>1, StoreEntry
<1>2. CASE InUse(x) > 0
  <2> DEFINE u == update_piece_state(pk, p, x)
             new == [pk EXCEPT !.dl[p] = u]
  <2>1. KeepInUse(pk, p, x) = new
    BY <1>0, <1>2 DEF KeepInUse
  <2>2. Shape(new) /\ SameBut(pk, new, p) /\ new.dl[p] = u
    BY StoreEntry
  <2>3. /\ u \in EntryType(p)
        /\ u.state = x.state /\ u.num_peers = x.num_peers
        /\ u.requested = x.requested /\ u.writing = x.writing /\ u.finished = x.finished
        /\ u.passed_hash_check = x.passed_hash_check /\ u.locked = x.locked
        /\ u.queue = QueueFor(pk, p, u)
    BY <1>2, UpdateState DEF QueueFor, InUse
  <2> HIDE DEF u, new
  <2> QED BY <1>0, <1>2, <2>1, <2>2, <2>3
<1> QED BY <1>0, <1>1, <1>2

\* What abort_download makes of a picker when others were asked too.
LessAsked(pk, b) ==
    LET p == b[1]
        o == pk.dl[p]
        new == abort_download(pk, b)
        e == new.dl[p]
    IN  /\ Shape(new) /\ SameBut(pk, new, p)
        /\ e \in EntryType(p)
        /\ e.state = o.state
        /\ e.num_peers = [o.num_peers EXCEPT ![b[2]] = @ - 1]
        /\ e.requested = o.requested /\ e.writing = o.writing
        /\ e.finished = o.finished /\ e.queue = o.queue
        /\ e.passed_hash_check = o.passed_hash_check /\ e.locked = o.locked

\* abort_download of a block that several peers were asked for.
LEMMA SharedAbort ==
    ASSUME NEW pk, PickerOk(pk), NEW b \in Blocks,
           is_requested(pk, b), num_peers(pk, b) > 1
    PROVE  LessAsked(pk, b)
<1> DEFINE p == b[1]
           k == b[2]
           o == pk.dl[p]
           n == num_peers(pk, b)
           x == [o EXCEPT !.num_peers[k] = n - 1]
           new == [pk EXCEPT !.dl[p].num_peers[k] = n - 1]
<1>1. p \in Pieces /\ k \in 1..blocks_in_piece(p)
  BY BlockParts
<1>2. o \in EntryType(p)
  BY <1>1 DEF PickerOk, EntryOk
<1>3. abort_download(pk, b) = new
  BY DEF abort_download
<1>4. n \in Nat /\ n > 1 /\ n = o.num_peers[k]
  BY StateType
<1>5. new = [pk EXCEPT !.dl[p] = x]
  BY <1>1 DEF PickerOk, Shape
<1> HIDE DEF p, k, o, n, new
<1>6. /\ x \in EntryType(p)
      /\ x.state = o.state
      /\ x.num_peers = [o.num_peers EXCEPT ![k] = @ - 1]
      /\ x.requested = o.requested /\ x.writing = o.writing
      /\ x.finished = o.finished /\ x.queue = o.queue
      /\ x.passed_hash_check = o.passed_hash_check /\ x.locked = o.locked
  <2>1. /\ DOMAIN o = EntryFields
        /\ o.state \in [1..blocks_in_piece(p) -> BlockStates]
        /\ o.num_peers \in [1..blocks_in_piece(p) -> Nat]
        /\ o.requested \in Nat
    BY <1>2, EntryDomain
  <2>2. x.num_peers = [o.num_peers EXCEPT ![k] = n - 1]
    BY <2>1 DEF EntryFields
  <2>3. /\ x.state = o.state /\ x.requested = o.requested /\ x.writing = o.writing
        /\ x.finished = o.finished /\ x.queue = o.queue
        /\ x.passed_hash_check = o.passed_hash_check /\ x.locked = o.locked
    BY <2>1 DEF EntryFields
  <2>4. DOMAIN x = EntryFields /\ x = [f \in DOMAIN x |-> x[f]]
    BY <2>1
  <2> HIDE DEF x
  <2>5. n - 1 \in Nat
    BY <1>4
  <2>6. x.num_peers \in [1..blocks_in_piece(p) -> Nat]
    BY <2>1, <2>2, <2>5, ExceptType
  <2> QED BY <1>2, <1>4, <2>1, <2>2, <2>3, <2>4, <2>6, EntryOf
<1> HIDE DEF x
<1>7. Shape(new) /\ SameBut(pk, new, p) /\ new.dl[p] = x
  BY <1>1, <1>5, StoreEntry DEF PickerOk
<1> QED BY <1>3, <1>6, <1>7 DEF p, k, o, LessAsked

\* The entry abort_download leaves when no other peer was asked for the block.
FreedEntry(pk, b) ==
    [pk.dl[b[1]] EXCEPT !.num_peers[b[2]] = 0, !.state[b[2]] = "none", !.requested = @ - 1]

\* What abort_download makes of a picker when no other was asked.
GivenFree(pk, b) ==
    LET p == b[1]
        o == pk.dl[p]
        x == FreedEntry(pk, b)
    IN  /\ abort_download(pk, b) = KeepInUse(pk, p, x)
        /\ x \in EntryType(p)
        /\ x.state = [o.state EXCEPT ![b[2]] = "none"]
        /\ x.num_peers = [o.num_peers EXCEPT ![b[2]] = 0]
        /\ x.requested = o.requested - 1 /\ x.writing = o.writing
        /\ x.finished = o.finished
        /\ x.passed_hash_check = o.passed_hash_check /\ x.locked = o.locked

\* abort_download of a block that only one peer was asked for.
LEMMA LastAbort ==
    ASSUME NEW pk, PickerOk(pk), NEW b \in Blocks,
           is_requested(pk, b), ~(num_peers(pk, b) > 1)
    PROVE  GivenFree(pk, b)
<1> DEFINE p == b[1]
           k == b[2]
           o == pk.dl[p]
           x == FreedEntry(pk, b)
<1>1. p \in Pieces /\ k \in 1..blocks_in_piece(p)
  BY BlockParts
<1>2. o \in EntryType(p)
  BY <1>1 DEF PickerOk, EntryOk
<1>3. abort_download(pk, b) = KeepInUse(pk, p, x)
  BY DEF abort_download, FreedEntry
<1>4. o.requested \in Nat /\ o.requested >= 1
  BY <1>2, CountedBlock, EntryDomain DEF is_requested
<1>5. x = [o EXCEPT !.num_peers[k] = 0, !.state[k] = "none", !.requested = @ - 1]
  BY DEF FreedEntry
<1> HIDE DEF p, k, o, x
<1>6. /\ DOMAIN o = EntryFields
      /\ o.state \in [1..blocks_in_piece(p) -> BlockStates]
      /\ o.num_peers \in [1..blocks_in_piece(p) -> Nat]
  BY <1>2, EntryDomain
<1>7. /\ x.num_peers = [o.num_peers EXCEPT ![k] = 0]
      /\ x.state = [o.state EXCEPT ![k] = "none"]
      /\ x.requested = o.requested - 1
  BY <1>5, <1>6 DEF EntryFields
<1>8. /\ x.writing = o.writing /\ x.finished = o.finished /\ x.queue = o.queue
      /\ x.passed_hash_check = o.passed_hash_check /\ x.locked = o.locked
  BY <1>5, <1>6 DEF EntryFields
<1>9. DOMAIN x = EntryFields /\ x = [f \in DOMAIN x |-> x[f]]
  BY <1>5, <1>6
<1>10. /\ x.state \in [1..blocks_in_piece(p) -> BlockStates]
       /\ x.num_peers \in [1..blocks_in_piece(p) -> Nat]
       /\ x.requested \in Nat
  <2>1. x.state \in [1..blocks_in_piece(p) -> BlockStates]
    BY <1>6, <1>7 DEF BlockStates
  <2>2. 0 \in Nat
    OBVIOUS
  <2>3. x.num_peers \in [1..blocks_in_piece(p) -> Nat]
    BY <1>6, <1>7, <2>2, ExceptType
  <2>4. x.requested \in Nat
    BY <1>4, <1>7
  <2> QED BY <2>1, <2>3, <2>4
<1>11. x \in EntryType(p)
  BY <1>2, <1>8, <1>9, <1>10, EntryOf
<1> QED BY <1>3, <1>7, <1>8, <1>11 DEF p, k, o, x, GivenFree

\* The entry write_failed leaves.
FailedEntry(pk, b) ==
    [ClearPassed(pk, b[1]).dl[b[1]] EXCEPT
        !.state[b[2]] = "none",
        !.writing = @ - One(StateOf(pk, b) = "writing"),
        !.locked = TRUE]

\* What ClearPassed makes of a picker.
FlagCleared(pk, p) ==
    LET o == pk.dl[p]
        new == ClearPassed(pk, p)
        e == new.dl[p]
    IN  /\ Shape(new) /\ SameButPassed(pk, new, p)
        /\ new.num_passed = pk.num_passed - One(o.passed_hash_check)
        /\ e \in EntryType(p)
        /\ e.state = o.state /\ e.num_peers = o.num_peers
        /\ e.requested = o.requested /\ e.writing = o.writing
        /\ e.finished = o.finished /\ e.queue = o.queue /\ e.locked = o.locked
        /\ e.passed_hash_check = FALSE

\* Forgetting that a piece has passed.
LEMMA ClearedFlag ==
    ASSUME NEW pk, PickerOk(pk), NEW p \in Pieces
    PROVE  FlagCleared(pk, p)
<1> DEFINE o == pk.dl[p]
           new == ClearPassed(pk, p)
           e == new.dl[p]
<1>1. /\ Shape(new) /\ SameButPassed(pk, new, p)
      /\ new.num_passed = pk.num_passed - One(o.passed_hash_check)
      /\ e = [o EXCEPT !.passed_hash_check = FALSE]
  <2> DEFINE n == pk.num_passed - One(o.passed_hash_check)
             v == FALSE
             c == [pk EXCEPT !.dl[p].passed_hash_check = v, !.num_passed = n]
  <2>1. new = c
    BY DEF ClearPassed
  <2>2. Shape(pk)
    BY DEF PickerOk
  <2> HIDE DEF n, new, v
  <2>3. /\ Shape(c) /\ SameButPassed(pk, c, p) /\ c.num_passed = n
        /\ c.dl[p] = [pk.dl[p] EXCEPT !.passed_hash_check = v]
    <3>1. FlagsChanged(pk, p, v, n)
      BY <2>2, ChangeFlags
    <3> QED BY <3>1 DEF FlagsChanged
  <2> QED BY <2>1, <2>3 DEF n, v
<1>2. o \in EntryType(p)
  BY DEF PickerOk, EntryOk
<1> HIDE DEF o, new, e
<1>3. DOMAIN o = EntryFields
  BY <1>2, EntryDomain
<1>4. /\ e.state = o.state /\ e.num_peers = o.num_peers
      /\ e.requested = o.requested /\ e.writing = o.writing
      /\ e.finished = o.finished /\ e.queue = o.queue /\ e.locked = o.locked
      /\ e.passed_hash_check = FALSE
  BY <1>1, <1>3 DEF EntryFields
<1>5. DOMAIN e = EntryFields /\ e = [f \in DOMAIN e |-> e[f]]
  BY <1>1, <1>3
<1>6. e.state \in [1..blocks_in_piece(p) -> BlockStates] /\ e.requested \in Nat
  BY <1>2, <1>4, EntryDomain
<1>7. e \in EntryType(p)
  BY <1>2, <1>4, <1>5, <1>6, EntryOf
<1> QED BY <1>1, <1>4, <1>7 DEF o, new, e, FlagCleared

\* What write_failed makes of a picker.
NotWritten(pk, b) ==
    LET p == b[1]
        o == pk.dl[p]
        x == FailedEntry(pk, b)
    IN  /\ write_failed(pk, b) = KeepInUse(ClearPassed(pk, p), p, x)
        /\ x \in EntryType(p)
        /\ x.state = [o.state EXCEPT ![b[2]] = "none"]
        /\ x.num_peers = o.num_peers
        /\ x.requested = o.requested
        /\ x.writing = o.writing - One(StateOf(pk, b) = "writing")
        /\ x.finished = o.finished
        /\ x.passed_hash_check = FALSE

\* write_failed: what becomes of the entry.
LEMMA FailedWrite ==
    ASSUME NEW pk, PickerOk(pk), NEW b \in Blocks,
           Downloading(pk, b[1]), StateOf(pk, b) # "finished"
    PROVE  NotWritten(pk, b)
<1> DEFINE p == b[1]
           k == b[2]
           s == StateOf(pk, b)
           o == pk.dl[p]
           c == ClearPassed(pk, p).dl[p]
           x == FailedEntry(pk, b)
<1>1. p \in Pieces /\ k \in 1..blocks_in_piece(p)
  BY BlockParts
<1>2. /\ c \in EntryType(p)
      /\ c.state = o.state /\ c.num_peers = o.num_peers
      /\ c.requested = o.requested /\ c.writing = o.writing
      /\ c.finished = o.finished /\ c.queue = o.queue /\ c.locked = o.locked
      /\ c.passed_hash_check = FALSE
  <2>1. FlagCleared(pk, p)
    BY <1>1, ClearedFlag
  <2> QED BY <2>1 DEF FlagCleared
<1>3. write_failed(pk, b) = KeepInUse(ClearPassed(pk, p), p, x)
  BY DEF write_failed, FailedEntry
<1>4. o.writing \in Nat /\ o.writing - One(s = "writing") \in Nat
  <2>1. s = "writing" => o.writing >= 1
    BY CountedBlock
  <2>2. o.writing \in Nat
    BY <1>2, EntryDomain
  <2> HIDE DEF o, s
  <2> QED BY <2>1, <2>2 DEF One
<1>5. x = [c EXCEPT !.state[k] = "none", !.writing = @ - One(s = "writing"), !.locked = TRUE]
  BY DEF FailedEntry
<1> HIDE DEF p, k, o, x, c, s
<1>6. /\ DOMAIN c = EntryFields
      /\ c.state \in [1..blocks_in_piece(p) -> BlockStates]
      /\ c.requested \in Nat
  BY <1>2, EntryDomain
<1>7. /\ x.state = [c.state EXCEPT ![k] = "none"]
      /\ x.writing = c.writing - One(s = "writing")
      /\ x.locked = TRUE
  BY <1>5, <1>6 DEF EntryFields
<1>8. /\ x.requested = c.requested /\ x.finished = c.finished /\ x.queue = c.queue
      /\ x.passed_hash_check = c.passed_hash_check /\ x.num_peers = c.num_peers
  BY <1>5, <1>6 DEF EntryFields
<1>9. DOMAIN x = EntryFields /\ x = [f \in DOMAIN x |-> x[f]]
  BY <1>5, <1>6
<1>10. x.state \in [1..blocks_in_piece(p) -> BlockStates]
  BY <1>6, <1>7 DEF BlockStates
<1>11. x.writing \in Nat /\ x.requested \in Nat
  BY <1>2, <1>4, <1>6, <1>7, <1>8
<1>12. x \in EntryType(p)
  BY <1>2, <1>7, <1>8, <1>9, <1>10, <1>11, EntryOf
<1> QED BY <1>2, <1>3, <1>7, <1>8, <1>12 DEF p, k, o, x, s, NotWritten

-----------------------------------------------------------------------------
(***************************************************************************)
(* The operations on blocks keep the picker all right.                      *)
(***************************************************************************)
\* One block changes its state, and no counter loses more than that block.
LEMMA MovedBlock ==
    ASSUME NEW p \in Pieces, NEW o \in EntryType(p), NEW e \in EntryType(p), Covers(o),
           NEW k \in 1..blocks_in_piece(p), NEW v \in BlockStates,
           e.state = [o.state EXCEPT ![k] = v],
           e.requested >= o.requested - One(o.state[k] = "requested") + One(v = "requested"),
           e.writing >= o.writing - One(o.state[k] = "writing") + One(v = "writing"),
           e.finished >= o.finished - One(o.state[k] = "finished") + One(v = "finished")
    PROVE  Covers(e)
<1>1. ASSUME NEW s
      PROVE  /\ InStates(o, s) \in Nat /\ InStates(e, s) \in Nat
             /\ InStates(e, s) = InStates(o, s) - One(o.state[k] = s) + One(v = s)
  BY StateCounts
<1>2. /\ o.requested \in Nat /\ o.writing \in Nat /\ o.finished \in Nat
      /\ e.requested \in Nat /\ e.writing \in Nat /\ e.finished \in Nat
  BY EntryDomain
<1>3. \A c : One(c) \in Nat
  BY DEF One
<1>4. e.requested >= InStates(e, "requested")
  <2>1. /\ InStates(o, "requested") \in Nat
        /\ InStates(e, "requested") = InStates(o, "requested")
              - One(o.state[k] = "requested") + One(v = "requested")
        /\ o.requested >= InStates(o, "requested")
        /\ One(o.state[k] = "requested") \in Nat /\ One(v = "requested") \in Nat
    BY <1>1, <1>3 DEF Covers
  <2> QED BY <1>2, <2>1
<1>5. e.writing >= InStates(e, "writing")
  <2>1. /\ InStates(o, "writing") \in Nat
        /\ InStates(e, "writing") = InStates(o, "writing")
              - One(o.state[k] = "writing") + One(v = "writing")
        /\ o.writing >= InStates(o, "writing")
        /\ One(o.state[k] = "writing") \in Nat /\ One(v = "writing") \in Nat
    BY <1>1, <1>3 DEF Covers
  <2> QED BY <1>2, <2>1
<1>6. e.finished >= InStates(e, "finished")
  <2>1. /\ InStates(o, "finished") \in Nat
        /\ InStates(e, "finished") = InStates(o, "finished")
              - One(o.state[k] = "finished") + One(v = "finished")
        /\ o.finished >= InStates(o, "finished")
        /\ One(o.state[k] = "finished") \in Nat /\ One(v = "finished") \in Nat
    BY <1>1, <1>3 DEF Covers
  <2> QED BY <1>2, <2>1
<1> QED BY <1>4, <1>5, <1>6 DEF Covers

\* An entry in use is in some queue.
LEMMA QueueIsOne ==
    ASSUME NEW pk, NEW p, NEW e
    PROVE  QueueFor(pk, p, e) # "open"
  BY DEF QueueFor

\* What KeepInUse stores is all right.
LEMMA KeptOk ==
    ASSUME NEW pk, Shape(pk), NEW p \in Pieces, NEW x \in EntryType(p), Covers(x)
    PROVE  EntryOk(p, KeepInUse(pk, p, x).dl[p])
<1> DEFINE e == KeepInUse(pk, p, x).dl[p]
<1>1. InUse(x) \in Nat
  BY KeptEntry
<1>2. CASE InUse(x) = 0
  <2>1. e = NoDownload(p)
    BY <1>2, KeptEntry
  <2> QED BY <2>1, EmptyEntry
<1>3. CASE InUse(x) > 0
  <2>1. /\ e \in EntryType(p)
        /\ e.state = x.state
        /\ e.requested = x.requested /\ e.writing = x.writing
        /\ e.finished = x.finished
        /\ e.queue = QueueFor(pk, p, e)
    BY <1>3, KeptEntry
  <2> HIDE DEF e
  <2>2. Covers(e)
    BY <2>1 DEF Covers, InStates, InState
  <2>3. InUse(e) > 0
    BY <1>3, <2>1 DEF InUse
  <2>4. EntryOk(p, e)
    BY <2>1, <2>2, <2>3, QueueIsOne DEF EntryOk
  <2> QED BY <2>4 DEF e
<1> QED BY <1>1, <1>2, <1>3

\* The entry of a piece in a picker that is all right.
LEMMA OldEntry ==
    ASSUME NEW pk, PickerOk(pk), NEW p \in Pieces
    PROVE  /\ Shape(pk) /\ pk.dl[p] \in EntryType(p) /\ Covers(pk.dl[p])
           /\ Downloading(pk, p) => InUse(pk.dl[p]) > 0
           /\ ~Downloading(pk, p) => pk.dl[p] = NoDownload(p)
           /\ pk.dl[p].requested \in Nat /\ pk.dl[p].writing \in Nat
           /\ pk.dl[p].finished \in Nat
<1>1. NoDownload(p).queue = "open"
  BY DEF NoDownload
<1>2. Shape(pk) /\ EntryOk(p, pk.dl[p])
  BY DEF PickerOk
<1> QED BY <1>1, <1>2, EntryDomain DEF EntryOk, Downloading

\* mark_as_downloading.
LEMMA DownloadingKeeps ==
    ASSUME NEW pk, PickerOk(pk), NEW b \in Blocks
    PROVE  PickerOk(mark_as_downloading(pk, b))
<1> DEFINE p == b[1]
           k == b[2]
           o == pk.dl[p]
           s == StateOf(pk, b)
           new == mark_as_downloading(pk, b)
           e == new.dl[p]
<1>1. CASE s \in {"writing", "finished"}
  <2>1. new = pk
    BY <1>1 DEF mark_as_downloading
  <2> QED BY <2>1
<1>2. CASE s \notin {"writing", "finished"}
  <2>1. p \in Pieces /\ k \in 1..blocks_in_piece(p) /\ s = o.state[k]
    BY BlockParts DEF StateOf
  <2>2. /\ Shape(pk) /\ o \in EntryType(p) /\ Covers(o)
        /\ ~Downloading(pk, p) => o = NoDownload(p)
        /\ o.requested \in Nat /\ o.writing \in Nat /\ o.finished \in Nat
    BY <2>1, OldEntry
  <2>3. /\ Shape(new) /\ SameBut(pk, new, p)
        /\ e \in EntryType(p)
        /\ e.state = [o.state EXCEPT ![k] = "requested"]
        /\ e.requested = o.requested + One(s = "none")
        /\ e.writing = o.writing /\ e.finished = o.finished
        /\ e.passed_hash_check = o.passed_hash_check
        /\ e.queue = IF s = "none" THEN QueueFor(pk, p, e)
                     ELSE IF o.queue = "open" THEN "downloading" ELSE o.queue
    <3>1. StateOf(pk, b) \notin {"writing", "finished"}
      BY <1>2
    <3>2. AskedFor(pk, b)
      BY <3>1, DownloadingEntry
    <3> QED BY <3>2 DEF AskedFor
  <2>4. s \in {"none", "requested"}
    BY <1>2, StateType DEF BlockStates
  <2>5. "requested" \in BlockStates
    BY DEF BlockStates
  <2>6. s = "requested" => o.requested >= 1
    BY CountedBlock
  <2>7. e.queue # "open"
    BY <2>3, QueueIsOne
  <2> HIDE DEF p, k, o, s, new, e
  <2>8. /\ e.requested >= o.requested - One(o.state[k] = "requested") + One("requested" = "requested")
        /\ e.writing >= o.writing - One(o.state[k] = "writing") + One("requested" = "writing")
        /\ e.finished >= o.finished - One(o.state[k] = "finished") + One("requested" = "finished")
    BY <2>1, <2>2, <2>3, <2>4 DEF One
  <2>9. Covers(e)
    BY <2>1, <2>2, <2>3, <2>5, <2>8, MovedBlock
  <2>10. InUse(e) > 0
    BY <2>2, <2>3, <2>4, <2>6 DEF InUse, One
  <2>11. EntryOk(p, e)
    BY <2>3, <2>7, <2>9, <2>10 DEF EntryOk
  <2>12. PickerOk(new)
    BY <2>1, <2>3, <2>11, ReplaceEntry DEF e, o
  <2> QED BY <2>12 DEF new
<1> QED BY <1>1, <1>2

\* mark_as_writing.
LEMMA WritingKeeps ==
    ASSUME NEW pk, PickerOk(pk), NEW b \in Blocks
    PROVE  PickerOk(mark_as_writing(pk, b))
<1> DEFINE p == b[1]
           k == b[2]
           o == pk.dl[p]
           s == StateOf(pk, b)
           new == mark_as_writing(pk, b)
           e == new.dl[p]
<1>1. CASE (~Downloading(pk, p) /\ p \in pk.have) \/ s \in {"writing", "finished"}
  <2>1. new = pk
    BY <1>1 DEF mark_as_writing
  <2> QED BY <2>1
<1>2. CASE (Downloading(pk, p) \/ p \notin pk.have) /\ s \notin {"writing", "finished"}
  <2>1. p \in Pieces /\ k \in 1..blocks_in_piece(p) /\ s = o.state[k]
    BY BlockParts DEF StateOf
  <2>2. /\ Shape(pk) /\ o \in EntryType(p) /\ Covers(o)
        /\ o.requested \in Nat /\ o.writing \in Nat /\ o.finished \in Nat
    BY <2>1, OldEntry
  <2>3. /\ Shape(new) /\ SameBut(pk, new, p)
        /\ e \in EntryType(p)
        /\ e.state = [o.state EXCEPT ![k] = "writing"]
        /\ e.requested = o.requested - One(s = "requested")
        /\ e.writing = o.writing + 1 /\ e.finished = o.finished
        /\ e.passed_hash_check = o.passed_hash_check
        /\ e.queue = QueueFor(pk, p, e)
    <3>1. /\ Downloading(pk, b[1]) \/ b[1] \notin pk.have
          /\ StateOf(pk, b) \notin {"writing", "finished"}
      BY <1>2
    <3>2. BeingWritten(pk, b)
      BY <3>1, WritingEntry
    <3> QED BY <3>2 DEF BeingWritten
  <2>4. s \in {"none", "requested"}
    BY <1>2, StateType DEF BlockStates
  <2>5. "writing" \in BlockStates
    BY DEF BlockStates
  <2>7. e.queue # "open"
    BY <2>3, QueueIsOne
  <2>6. e.requested \in Nat
    BY <2>3, EntryDomain
  <2> HIDE DEF p, k, o, s, new, e
  <2>8. /\ e.requested >= o.requested - One(o.state[k] = "requested") + One("writing" = "requested")
        /\ e.writing >= o.writing - One(o.state[k] = "writing") + One("writing" = "writing")
        /\ e.finished >= o.finished - One(o.state[k] = "finished") + One("writing" = "finished")
    BY <2>1, <2>2, <2>3, <2>4 DEF One
  <2>9. Covers(e)
    BY <2>1, <2>2, <2>3, <2>5, <2>8, MovedBlock
  <2>10. InUse(e) > 0
    BY <2>2, <2>3, <2>6 DEF InUse
  <2>11. EntryOk(p, e)
    BY <2>3, <2>7, <2>9, <2>10 DEF EntryOk
  <2>12. PickerOk(new)
    BY <2>1, <2>3, <2>11, ReplaceEntry DEF e, o
  <2> QED BY <2>12 DEF new
<1> QED BY <1>1, <1>2

\* mark_as_finished before it looks whether the piece is there.
LEMMA FinishedBlockKeeps ==
    ASSUME NEW pk, PickerOk(pk), NEW b \in Blocks,
           Downloading(pk, b[1]) \/ b[1] \notin pk.have,
           StateOf(pk, b) # "finished"
    PROVE  PickerOk(FinishedBlock(pk, b))
<1> DEFINE p == b[1]
           k == b[2]
           o == pk.dl[p]
           s == StateOf(pk, b)
           new == FinishedBlock(pk, b)
           e == new.dl[p]
<1>1. p \in Pieces /\ k \in 1..blocks_in_piece(p) /\ s = o.state[k]
  BY BlockParts DEF StateOf
<1>2. /\ Shape(pk) /\ o \in EntryType(p) /\ Covers(o)
      /\ o.requested \in Nat /\ o.writing \in Nat /\ o.finished \in Nat
  BY <1>1, OldEntry
<1>3. /\ Shape(new) /\ SameBut(pk, new, p)
      /\ e \in EntryType(p)
      /\ e.state = [o.state EXCEPT ![k] = "finished"]
      /\ e.requested = o.requested
      /\ e.writing = o.writing - One(s = "writing")
      /\ e.finished = o.finished + 1
      /\ e.passed_hash_check = o.passed_hash_check
      /\ e.queue = QueueFor(pk, p, e)
  <2>1. Written(pk, b)
    BY FinishedEntry
  <2> QED BY <2>1 DEF Written
<1>4. s \in {"none", "requested", "writing"}
  BY StateType DEF BlockStates
<1>5. "finished" \in BlockStates
  BY DEF BlockStates
<1>6. e.writing \in Nat
  BY <1>3, EntryDomain
<1>7. e.queue # "open"
  BY <1>3, QueueIsOne
<1> HIDE DEF p, k, o, s, new, e
<1>8. /\ e.requested >= o.requested - One(o.state[k] = "requested") + One("finished" = "requested")
      /\ e.writing >= o.writing - One(o.state[k] = "writing") + One("finished" = "writing")
      /\ e.finished >= o.finished - One(o.state[k] = "finished") + One("finished" = "finished")
  BY <1>1, <1>2, <1>3, <1>4 DEF One
<1>9. Covers(e)
  BY <1>1, <1>2, <1>3, <1>5, <1>8, MovedBlock
<1>10. InUse(e) > 0
  BY <1>2, <1>3, <1>6 DEF InUse
<1>11. EntryOk(p, e)
  BY <1>3, <1>7, <1>9, <1>10 DEF EntryOk
<1>12. PickerOk(new)
  BY <1>1, <1>3, <1>11, ReplaceEntry DEF e, o
<1> QED BY <1>12 DEF new

\* abort_download.
LEMMA AbortKeeps ==
    ASSUME NEW pk, PickerOk(pk), NEW b \in Blocks
    PROVE  PickerOk(abort_download(pk, b))
<1> DEFINE p == b[1]
           k == b[2]
           o == pk.dl[p]
           s == StateOf(pk, b)
           new == abort_download(pk, b)
           e == new.dl[p]
<1>1. p \in Pieces /\ k \in 1..blocks_in_piece(p) /\ s = o.state[k]
  BY BlockParts DEF StateOf
<1>2. /\ Shape(pk) /\ o \in EntryType(p) /\ Covers(o)
      /\ Downloading(pk, p) => InUse(o) > 0
      /\ ~Downloading(pk, p) => o = NoDownload(p)
      /\ o.requested \in Nat /\ o.writing \in Nat /\ o.finished \in Nat
  BY <1>1, OldEntry
<1>3. CASE ~is_requested(pk, b)
  <2>1. new = pk
    BY <1>3 DEF abort_download
  <2> QED BY <2>1
<1>4. CASE is_requested(pk, b) /\ num_peers(pk, b) > 1
  <2>1. /\ Shape(new) /\ SameBut(pk, new, p)
        /\ e \in EntryType(p)
        /\ e.state = o.state
        /\ e.requested = o.requested /\ e.writing = o.writing
        /\ e.finished = o.finished /\ e.queue = o.queue
        /\ e.passed_hash_check = o.passed_hash_check
    <3>1. is_requested(pk, b) /\ num_peers(pk, b) > 1
      BY <1>4
    <3>2. LessAsked(pk, b)
      BY <3>1, SharedAbort
    <3> QED BY <3>2 DEF LessAsked
  <2>2. o.requested >= 1
    BY <1>4, CountedBlock DEF is_requested
  <2>3. Downloading(pk, p)
    <3>1. NoDownload(p).requested = 0
      BY DEF NoDownload
    <3> QED BY <1>2, <2>2, <3>1
  <2>4. e.queue # "open"
    BY <2>1, <2>3 DEF Downloading
  <2> HIDE DEF p, k, o, s, new, e
  <2>5. Covers(e)
    BY <1>2, <2>1 DEF Covers, InStates, InState
  <2>6. InUse(e) > 0
    BY <1>2, <2>1, <2>3 DEF InUse
  <2>7. EntryOk(p, e)
    BY <2>1, <2>4, <2>5, <2>6 DEF EntryOk
  <2>8. PickerOk(new)
    BY <1>1, <2>1, <2>7, ReplaceEntry DEF e, o
  <2> QED BY <2>8 DEF new
<1>5. CASE is_requested(pk, b) /\ ~(num_peers(pk, b) > 1)
  <2> DEFINE x == FreedEntry(pk, b)
  <2>1. /\ new = KeepInUse(pk, p, x)
        /\ x \in EntryType(p)
        /\ x.state = [o.state EXCEPT ![k] = "none"]
        /\ x.requested = o.requested - 1 /\ x.writing = o.writing
        /\ x.finished = o.finished
        /\ x.passed_hash_check = o.passed_hash_check
    <3>1. is_requested(pk, b) /\ ~(num_peers(pk, b) > 1)
      BY <1>5
    <3>2. GivenFree(pk, b)
      BY <3>1, LastAbort
    <3> QED BY <3>2 DEF GivenFree
  <2>2. s = "requested" /\ "none" \in BlockStates
    BY <1>5 DEF is_requested, BlockStates
  <2> HIDE DEF p, k, o, s, new, x
  <2>3. /\ x.requested >= o.requested - One(o.state[k] = "requested") + One("none" = "requested")
        /\ x.writing >= o.writing - One(o.state[k] = "writing") + One("none" = "writing")
        /\ x.finished >= o.finished - One(o.state[k] = "finished") + One("none" = "finished")
    BY <1>1, <1>2, <2>1, <2>2 DEF One
  <2>4. Covers(x)
    <3>1. o \in EntryType(p) /\ Covers(o) /\ "none" \in BlockStates
      BY <1>2, <2>2
    <3> QED BY <1>1, <2>1, <2>3, <3>1, MovedBlock
  <2>5. EntryOk(p, e)
    BY <1>1, <1>2, <2>1, <2>4, KeptOk DEF e
  <2>6. Shape(new) /\ SameBut(pk, new, p)
    BY <1>1, <1>2, <2>1, KeptEntry
  <2>7. e.passed_hash_check => o.passed_hash_check
    <3>1. InUse(x) \in Nat
      BY <1>1, <1>2, <2>1, KeptEntry
    <3>2. CASE InUse(x) = 0
      <4>1. e = NoDownload(p)
        BY <1>1, <1>2, <2>1, <3>2, KeptEntry DEF e
      <4> QED BY <4>1 DEF NoDownload
    <3>3. CASE InUse(x) > 0
      BY <1>1, <1>2, <2>1, <3>3, KeptEntry DEF e
    <3> QED BY <3>1, <3>2, <3>3
  <2>8. PickerOk(new)
    BY <1>1, <2>5, <2>6, <2>7, ReplaceEntry DEF e, o
  <2> QED BY <2>8 DEF new
<1> QED BY <1>3, <1>4, <1>5

\* The cardinality of a set of pieces with and without one of them.
LEMMA CardSplit ==
    ASSUME NEW S, S \subseteq Pieces, NEW p \in Pieces
    PROVE  /\ Cardinality(S) \in Nat /\ Cardinality(S \ {p}) \in Nat
           /\ Cardinality(S) = Cardinality(S \ {p}) + One(p \in S)
           /\ Cardinality(S \cup {p}) = Cardinality(S \ {p}) + 1
<1>1. IsFiniteSet(S) /\ Cardinality(S) \in Nat
  BY PiecesFinite
<1>2. S \ {p} \subseteq Pieces
  OBVIOUS
<1>3. IsFiniteSet(S \ {p}) /\ Cardinality(S \ {p}) \in Nat
  BY <1>2, PiecesFinite
<1>4. CASE p \in S
  <2>1. Cardinality(S \ {p}) = Cardinality(S) - 1
    BY <1>1, <1>4, FS_RemoveElement
  <2>2. S \cup {p} = S
    BY <1>4
  <2>3. One(p \in S) = 1
    BY <1>4 DEF One
  <2>4. Cardinality(S) = Cardinality(S \ {p}) + 1
    BY <1>1, <1>3, <2>1
  <2> QED BY <1>1, <1>3, <2>2, <2>3, <2>4
<1>5. CASE p \notin S
  <2>1. S \ {p} = S
    BY <1>5
  <2>2. Cardinality(S \cup {p}) = Cardinality(S) + 1
    BY <1>1, <1>5, FS_AddElement
  <2> QED BY <1>1, <1>5, <2>1, <2>2 DEF One
<1> QED BY <1>4, <1>5

\* The picker is all right again when one entry was replaced and num_passed
\* follows its flag.
LEMMA ReplaceFlagged ==
    ASSUME NEW pk, PickerOk(pk), NEW p \in Pieces, NEW new, Shape(new),
           SameButPassed(pk, new, p), EntryOk(p, new.dl[p]),
           new.num_passed \in Int,
           new.num_passed >= pk.num_passed - One(pk.dl[p].passed_hash_check)
                                           + One(new.dl[p].passed_hash_check)
    PROVE  PickerOk(new)
<1>1. \A q \in Pieces : EntryOk(q, new.dl[q])
  BY DEF PickerOk, SameButPassed
<1>2. CountsAgree(new)
  BY DEF PickerOk, SameButPassed, CountsAgree, Settled
<1> DEFINE F == Flagged(pk)
           G == Flagged(new)
<1>3. F \subseteq Pieces /\ G \subseteq Pieces /\ G \ {p} = F \ {p}
  BY DEF SameButPassed, Flagged
<1>4. /\ One(p \in F) = One(pk.dl[p].passed_hash_check)
      /\ One(p \in G) = One(new.dl[p].passed_hash_check)
  BY DEF Flagged, One
<1> HIDE DEF F, G
<1>5. /\ Cardinality(F) = Cardinality(F \ {p}) + One(p \in F)
      /\ Cardinality(G) = Cardinality(F \ {p}) + One(p \in G)
      /\ Cardinality(F \ {p}) \in Nat
  BY <1>3, CardSplit
<1>6. Cardinality(pk.have) \in Nat /\ new.have = pk.have /\ pk.num_passed \in Nat
      /\ pk.num_passed >= Cardinality(pk.have) + Cardinality(F)
  BY PiecesFinite DEF PickerOk, SameButPassed, F
<1>7. One(p \in F) \in Nat /\ One(p \in G) \in Nat
  BY DEF One
<1>8. /\ new.num_passed >= Cardinality(new.have) + Cardinality(G)
      /\ new.num_passed \in Nat
  <2>1. new.num_passed >= pk.num_passed - One(p \in F) + One(p \in G)
    BY <1>4
  <2> QED BY <1>5, <1>6, <1>7, <2>1
<1> QED BY <1>1, <1>2, <1>8 DEF PickerOk, SameButPassed, G

\* write_failed.
LEMMA FailedWriteKeeps ==
    ASSUME NEW pk, PickerOk(pk), NEW b \in Blocks
    PROVE  PickerOk(write_failed(pk, b))
<1> DEFINE p == b[1]
           k == b[2]
           o == pk.dl[p]
           s == StateOf(pk, b)
           c == ClearPassed(pk, p)
           x == FailedEntry(pk, b)
           new == write_failed(pk, b)
           e == new.dl[p]
<1>1. CASE ~Downloading(pk, p) \/ s = "finished"
  <2>1. new = pk
    BY <1>1 DEF write_failed
  <2> QED BY <2>1
<1>2. CASE Downloading(pk, p) /\ s # "finished"
  <2>1. p \in Pieces /\ k \in 1..blocks_in_piece(p) /\ s = o.state[k]
    BY BlockParts DEF StateOf
  <2>2. /\ o \in EntryType(p) /\ Covers(o)
        /\ o.requested \in Nat /\ o.writing \in Nat /\ o.finished \in Nat
    BY <2>1, OldEntry
  <2>3. /\ new = KeepInUse(c, p, x)
        /\ x \in EntryType(p)
        /\ x.state = [o.state EXCEPT ![k] = "none"]
        /\ x.requested = o.requested
        /\ x.writing = o.writing - One(s = "writing")
        /\ x.finished = o.finished
        /\ x.passed_hash_check = FALSE
    <3>1. Downloading(pk, b[1]) /\ StateOf(pk, b) # "finished"
      BY <1>2
    <3>2. NotWritten(pk, b)
      BY <3>1, FailedWrite
    <3> QED BY <3>2 DEF NotWritten
  <2>4. /\ Shape(c) /\ SameButPassed(pk, c, p)
        /\ c.num_passed = pk.num_passed - One(o.passed_hash_check)
    <3>1. FlagCleared(pk, p)
      BY <2>1, ClearedFlag
    <3> QED BY <3>1 DEF FlagCleared
  <2>5. s \in {"none", "requested", "writing"} /\ "none" \in BlockStates
    BY <1>2, StateType DEF BlockStates
  <2> HIDE DEF p, k, o, s, c, x, new
  <2>6. /\ x.requested >= o.requested - One(o.state[k] = "requested") + One("none" = "requested")
        /\ x.writing >= o.writing - One(o.state[k] = "writing") + One("none" = "writing")
        /\ x.finished >= o.finished - One(o.state[k] = "finished") + One("none" = "finished")
    BY <2>1, <2>2, <2>3, <2>5 DEF One
  <2>7. Covers(x)
    <3>1. o \in EntryType(p) /\ Covers(o) /\ "none" \in BlockStates
      BY <2>2, <2>5
    <3> QED BY <2>1, <2>3, <2>6, <3>1, MovedBlock
  <2>8. EntryOk(p, e)
    BY <2>1, <2>3, <2>4, <2>7, KeptOk DEF e
  <2>9. Shape(new) /\ SameBut(c, new, p)
    BY <2>1, <2>3, <2>4, KeptEntry
  <2>10. e.passed_hash_check = FALSE
    <3>1. InUse(x) \in Nat
      BY <2>1, <2>3, <2>4, KeptEntry
    <3>2. CASE InUse(x) = 0
      <4>1. e = NoDownload(p)
        BY <2>1, <2>3, <2>4, <3>2, KeptEntry DEF e
      <4> QED BY <4>1 DEF NoDownload
    <3>3. CASE InUse(x) > 0
      <4>1. e.passed_hash_check = x.passed_hash_check
        BY <2>1, <2>3, <2>4, <3>3, KeptEntry DEF e
      <4> QED BY <2>3, <4>1
    <3>4. InUse(x) = 0 \/ InUse(x) > 0
      BY <3>1
    <3> QED BY <3>2, <3>3, <3>4
  <2>11. SameButPassed(pk, new, p) /\ new.num_passed = pk.num_passed - One(o.passed_hash_check)
    BY <2>4, <2>9 DEF SameBut, SameButPassed
  <2>12. /\ new.num_passed \in Int
         /\ new.num_passed >= pk.num_passed - One(pk.dl[p].passed_hash_check)
                                             + One(new.dl[p].passed_hash_check)
    <3>1. One(e.passed_hash_check) = 0 /\ One(o.passed_hash_check) \in Nat
      BY <2>10 DEF One
    <3>2. pk.num_passed \in Nat
      BY DEF PickerOk
    <3> QED BY <2>11, <3>1, <3>2 DEF e, o
  <2>13. PickerOk(new)
    BY <2>1, <2>8, <2>9, <2>11, <2>12, ReplaceFlagged DEF e
  <2> QED BY <2>13 DEF new
<1> QED BY <1>1, <1>2

\* restore_piece, and erase_download_piece in it.
LEMMA RestoreKeeps ==
    ASSUME NEW pk, PickerOk(pk), NEW p \in Pieces
    PROVE  PickerOk(restore_piece(pk, p))
<1> DEFINE new == [pk EXCEPT !.dl[p] = NoDownload(p)]
<1>1. Shape(new) /\ SameBut(pk, new, p) /\ new.dl[p] = NoDownload(p)
  BY StoreEntry DEF PickerOk
<1>2. restore_piece(pk, p) \in {pk, new}
  BY DEF restore_piece, erase_download_piece
<1> HIDE DEF new
<1>3. EntryOk(p, new.dl[p]) /\ (new.dl[p].passed_hash_check => pk.dl[p].passed_hash_check)
  <2>1. NoDownload(p).passed_hash_check = FALSE
    BY DEF NoDownload
  <2> QED BY <1>1, <2>1, EmptyEntry
<1>4. PickerOk(new)
  BY <1>1, <1>3, ReplaceEntry
<1> QED BY <1>2, <1>4

-----------------------------------------------------------------------------
(***************************************************************************)
(* The operations on pieces keep the picker all right.                      *)
(***************************************************************************)
Wanted(pk) == Pieces \ Settled(pk)

\* The counters of pieces.
TotalsOk(pk) ==
    /\ pk.num_have = Cardinality(pk.have)
    /\ pk.num_filtered = Cardinality(pk.filtered \ pk.have)
    /\ pk.num_have_filtered = Cardinality(pk.filtered \cap pk.have)

\* What is left of PickerOk without the cursors.
BooksOk(pk) ==
    /\ Shape(pk)
    /\ pk.have \subseteq Pieces /\ pk.filtered \subseteq Pieces
    /\ \A p \in Pieces : EntryOk(p, pk.dl[p])
    /\ TotalsOk(pk)
    /\ pk.num_passed \in Nat
    /\ pk.num_passed >= Cardinality(pk.have) + Cardinality(Flagged(pk))

\* PickerOk in two parts.
LEMMA PickerParts ==
    ASSUME NEW pk
    PROVE  PickerOk(pk) <=> /\ BooksOk(pk)
                            /\ CursorAt(pk.cursor, Wanted(pk))
                            /\ ReverseAt(pk.reverse_cursor, Wanted(pk))
<1> DEFINE W == Wanted(pk)
<1>1. W \subseteq Pieces
  BY DEF Wanted
<1>2. CountsAgree(pk) <=> /\ TotalsOk(pk)
                          /\ pk.cursor = (IF W = {} THEN num_pieces ELSE Min(W))
                          /\ pk.reverse_cursor = (IF W = {} THEN 0 ELSE Max(W) + 1)
  BY DEF CountsAgree, TotalsOk, Wanted
<1> HIDE DEF W
<1>3. CountsAgree(pk) <=> /\ TotalsOk(pk)
                          /\ CursorAt(pk.cursor, W) /\ ReverseAt(pk.reverse_cursor, W)
  BY <1>1, <1>2, CursorsMeaning
<1> QED BY <1>3 DEF PickerOk, BooksOk, W

\* Nothing but the cursors differs.
MovedTo(pk, new, c, r) ==
    /\ Shape(new)
    /\ new.have = pk.have /\ new.filtered = pk.filtered /\ new.dl = pk.dl
    /\ new.num_have = pk.num_have /\ new.num_passed = pk.num_passed
    /\ new.num_filtered = pk.num_filtered
    /\ new.num_have_filtered = pk.num_have_filtered
    /\ new.cursor = c /\ new.reverse_cursor = r

\* Setting one cursor or both.
LEMMA MoveCursors ==
    ASSUME NEW pk, Shape(pk), NEW c, NEW r
    PROVE  /\ MovedTo(pk, [pk EXCEPT !.cursor = c, !.reverse_cursor = r], c, r)
           /\ MovedTo(pk, [pk EXCEPT !.cursor = c], c, pk.reverse_cursor)
           /\ MovedTo(pk, [pk EXCEPT !.reverse_cursor = r], pk.cursor, r)
           /\ MovedTo(pk, pk, pk.cursor, pk.reverse_cursor)
<1>1. MovedTo(pk, [pk EXCEPT !.cursor = c, !.reverse_cursor = r], c, r)
  <2> DEFINE new == [pk EXCEPT !.cursor = c, !.reverse_cursor = r]
  <2>1. DOMAIN pk = {"have", "filtered", "dl", "num_have", "num_passed", "num_filtered",
                     "num_have_filtered", "cursor", "reverse_cursor"}
        /\ pk.dl = [q \in Pieces |-> pk.dl[q]]
    BY DEF Shape
  <2>2. /\ new.have = pk.have /\ new.filtered = pk.filtered /\ new.dl = pk.dl
        /\ new.num_have = pk.num_have /\ new.num_passed = pk.num_passed
        /\ new.num_filtered = pk.num_filtered
        /\ new.num_have_filtered = pk.num_have_filtered
    BY <2>1
  <2>3. new.cursor = c /\ new.reverse_cursor = r
    BY <2>1
  <2>4. DOMAIN new = DOMAIN pk /\ new = [x \in DOMAIN new |-> new[x]]
    BY <2>1
  <2> HIDE DEF new
  <2>5. Shape(new)
    BY <2>1, <2>2, <2>4 DEF Shape
  <2> QED BY <2>2, <2>3, <2>5 DEF MovedTo, new
<1>2. MovedTo(pk, [pk EXCEPT !.cursor = c], c, pk.reverse_cursor)
  BY DEF Shape, MovedTo
<1>3. MovedTo(pk, [pk EXCEPT !.reverse_cursor = r], pk.cursor, r)
  BY DEF Shape, MovedTo
<1>4. MovedTo(pk, pk, pk.cursor, pk.reverse_cursor)
  BY DEF MovedTo
<1> QED BY <1>1, <1>2, <1>3, <1>4

\* The books do not mention the cursors.
LEMMA MovedBooks ==
    ASSUME NEW pk, BooksOk(pk), NEW new, NEW c, NEW r, MovedTo(pk, new, c, r)
    PROVE  BooksOk(new) /\ Wanted(new) = Wanted(pk)
  BY DEF BooksOk, MovedTo, TotalsOk, Flagged, Wanted, Settled

\* The cursors have left piece p.
Shrunk(pk, new, p, W) ==
    \E c, r : /\ MovedTo(pk, new, c, r)
              /\ CursorAt(c, W \ {p}) /\ ReverseAt(r, W \ {p})

\* A piece leaves the wanted ones: both cursors move on to the next.  In we_have
\* the piece is settled already, in set_piece_priority not yet.
LEMMA ShrinkMoves ==
    ASSUME NEW pk, Shape(pk), NEW p \in Pieces, NEW W, W \subseteq Pieces,
           Wanted(pk) \ {p} = W \ {p},
           CursorAt(pk.cursor, W), ReverseAt(pk.reverse_cursor, W)
    PROVE  Shrunk(pk, ShrinkCursors(pk, p), p, W)
<1> DEFINE n == num_pieces
           V == W \ {p}
           new == ShrinkCursors(pk, p)
<1>1. /\ n \in Nat \ {0} /\ p \in 0..(n - 1) /\ p \in Nat
      /\ W \subseteq 0..(n - 1) /\ \A x \in W : x \in Nat /\ x < n
  <2>1. n \in Nat \ {0} /\ Pieces = 0..(n - 1)
    BY Layout DEF Pieces
  <2>2. \A x \in Pieces : x \in Nat /\ x < n
    BY <2>1
  <2> QED BY <2>1, <2>2
<1>2. /\ pk.cursor \in 0..n /\ \A x \in W : pk.cursor <= x
      /\ pk.cursor = n \/ pk.cursor \in W
  BY DEF CursorAt
<1>3. /\ pk.reverse_cursor \in 0..n /\ \A x \in W : x < pk.reverse_cursor
      /\ pk.reverse_cursor = 0 \/ pk.reverse_cursor - 1 \in W
  BY DEF ReverseAt
<1>4. \A q \in 0..(n - 1) : q # p => (q \notin Settled(pk) <=> q \in V)
  <2>1. Pieces = 0..(n - 1)
    BY DEF Pieces
  <2> QED BY <2>1 DEF Wanted
<1>5. V \subseteq W /\ p \notin V /\ \A x \in W : x # p => x \in V
  OBVIOUS
<1> HIDE DEF n, V
<1>6. pk.cursor # p => CursorAt(pk.cursor, V)
  BY <1>2, <1>5 DEF CursorAt, n
<1>7. pk.reverse_cursor # p + 1 => ReverseAt(pk.reverse_cursor, V)
  <2>1. pk.reverse_cursor \in Nat
    BY <1>1, <1>3
  <2>2. pk.reverse_cursor # p + 1 => pk.reverse_cursor - 1 # p
    BY <1>1, <2>1
  <2> QED BY <1>3, <1>5, <2>2 DEF ReverseAt, n
<1>8. CASE pk.cursor = p /\ pk.reverse_cursor = p + 1
  <2>1. new = [pk EXCEPT !.cursor = n, !.reverse_cursor = 0]
    BY <1>8 DEF ShrinkCursors, n
  <2>2. V = {}
    <3>1. ASSUME NEW x \in V PROVE FALSE
      <4>1. x \in Nat /\ p <= x /\ x < p + 1 /\ x # p
        BY <1>1, <1>2, <1>3, <1>5, <1>8
      <4> QED BY <1>1, <4>1
    <3> QED BY <3>1
  <2>3. CursorAt(n, V) /\ ReverseAt(0, V)
    BY <1>1, <2>2 DEF CursorAt, ReverseAt, n
  <2>4. MovedTo(pk, [pk EXCEPT !.cursor = n, !.reverse_cursor = 0], n, 0)
    BY MoveCursors
  <2>5. MovedTo(pk, new, n, 0)
    BY <2>1, <2>4
  <2> QED BY <2>3, <2>5 DEF Shrunk, V
<1>9. CASE pk.cursor = p /\ pk.reverse_cursor # p + 1
  <2> DEFINE Q == {q \in (p + 1)..n : q = n \/ q \notin Settled(pk)}
             c == Min(Q)
  <2>1. new = [pk EXCEPT !.cursor = c]
    BY <1>9 DEF ShrinkCursors, n
  <2>2. Q \subseteq Nat /\ n \in Q
    BY <1>1
  <2>3. c \in Q /\ \A y \in Q : c <= y
    <3> HIDE DEF Q
    <3>1. Q # {}
      BY <2>2
    <3> QED BY <2>2, <3>1, LeastExists
  <2> HIDE DEF c
  <2>4. c \in (p + 1)..n /\ (c = n \/ c \notin Settled(pk))
    BY <2>3
  <2>5. c \in 0..n /\ c # p
    BY <1>1, <2>4
  <2>6. c = n \/ c \in V
    <3>1. c # n => c \in 0..(n - 1)
      BY <1>1, <2>4
    <3> QED BY <1>4, <2>4, <2>5, <3>1
  <2>7. ASSUME NEW x \in V PROVE c <= x
    <3>1. x \in Nat /\ x < n /\ p <= x /\ x # p
      BY <1>1, <1>2, <1>5, <1>9
    <3>2. x \in (p + 1)..n /\ x \in 0..(n - 1)
      BY <1>1, <3>1
    <3>3. x \notin Settled(pk)
      BY <1>4, <3>1, <3>2
    <3>4. x \in Q
      BY <3>2, <3>3
    <3> QED BY <2>3, <3>4
  <2>8. CursorAt(c, V)
    BY <2>5, <2>6, <2>7 DEF CursorAt, n
  <2>9. MovedTo(pk, new, c, pk.reverse_cursor)
    BY <2>1, MoveCursors
  <2> QED BY <1>7, <1>9, <2>8, <2>9 DEF Shrunk, V
<1>10. CASE pk.cursor # p /\ pk.reverse_cursor = p + 1
  <2> DEFINE Q == {q \in 0..p : q = 0 \/ q - 1 \notin Settled(pk)}
             r == Max(Q)
  <2>1. new = [pk EXCEPT !.reverse_cursor = r]
    BY <1>10 DEF ShrinkCursors
  <2>2. Q \subseteq 0..p /\ 0 \in Q
    BY <1>1
  <2>3. r \in Q /\ \A y \in Q : y <= r
    <3> HIDE DEF Q
    <3>1. Q # {}
      BY <2>2
    <3> QED BY <1>1, <2>2, <3>1, GreatestExists
  <2> HIDE DEF r
  <2>4. r \in 0..p /\ (r = 0 \/ r - 1 \notin Settled(pk))
    BY <2>3
  <2>5. r \in 0..n
    BY <1>1, <2>4
  <2>6. r = 0 \/ r - 1 \in V
    <3>1. r # 0 => r - 1 \in 0..(n - 1) /\ r - 1 # p
      BY <1>1, <2>4
    <3> QED BY <1>4, <2>4, <3>1
  <2>7. ASSUME NEW x \in V PROVE x < r
    <3>1. x \in Nat /\ x < n /\ x < p + 1 /\ x # p
      BY <1>1, <1>3, <1>5, <1>10
    <3>2. x + 1 \in 0..p /\ x \in 0..(n - 1) /\ (x + 1) - 1 = x
      BY <1>1, <3>1
    <3>3. x \notin Settled(pk)
      BY <1>4, <3>1, <3>2
    <3>4. x + 1 \in Q
      BY <3>2, <3>3
    <3>5. x + 1 <= r /\ r \in Nat
      BY <1>1, <2>3, <2>4, <3>4
    <3> QED BY <3>1, <3>5
  <2>8. ReverseAt(r, V)
    BY <2>5, <2>6, <2>7 DEF ReverseAt, n
  <2>9. MovedTo(pk, new, pk.cursor, r)
    BY <2>1, MoveCursors
  <2> QED BY <1>6, <1>10, <2>8, <2>9 DEF Shrunk, V
<1>11. CASE pk.cursor # p /\ pk.reverse_cursor # p + 1
  <2>1. new = pk
    BY <1>11 DEF ShrinkCursors
  <2>2. MovedTo(pk, new, pk.cursor, pk.reverse_cursor)
    BY <2>1, MoveCursors
  <2> QED BY <1>6, <1>7, <1>11, <2>2 DEF Shrunk, V
<1> QED BY <1>8, <1>9, <1>10, <1>11

\* A picker whose books are right is all right when its cursors have shrunk.
LEMMA ShrunkOk ==
    ASSUME NEW pk, BooksOk(pk), NEW p \in Pieces, NEW W, W \subseteq Pieces,
           Wanted(pk) = W \ {p}, CursorAt(pk.cursor, W), ReverseAt(pk.reverse_cursor, W)
    PROVE  PickerOk(ShrinkCursors(pk, p))
<1> DEFINE new == ShrinkCursors(pk, p)
<1>1. Shape(pk) /\ Wanted(pk) \ {p} = W \ {p}
  BY DEF BooksOk
<1>2. Shrunk(pk, new, p, W)
  BY <1>1, ShrinkMoves
<1> HIDE DEF new
<1>3. PICK c, r : /\ MovedTo(pk, new, c, r)
                  /\ CursorAt(c, W \ {p}) /\ ReverseAt(r, W \ {p})
  BY <1>2 DEF Shrunk
<1>4. BooksOk(new) /\ Wanted(new) = W \ {p} /\ new.cursor = c /\ new.reverse_cursor = r
  <2>1. BooksOk(new) /\ Wanted(new) = Wanted(pk)
    BY <1>3, MovedBooks
  <2> QED BY <1>3, <2>1 DEF MovedTo
<1>5. PickerOk(new)
  BY <1>3, <1>4, PickerParts
<1> QED BY <1>5 DEF new

\* we_have before the cursors move: all of the picker afterwards.
GotPiece(pk, p) ==
    LET f == One(p \in pk.filtered)
    IN  [erase_download_piece(pk, p) EXCEPT
           !.have = @ \cup {p},
           !.num_have = @ + 1,
           !.num_passed = @ - One(pk.dl[p].passed_hash_check) + 1,
           !.num_filtered = @ - f,
           !.num_have_filtered = @ + f]
GotFields(pk, p) ==
    LET new == GotPiece(pk, p)
        f == One(p \in pk.filtered)
    IN  /\ Shape(new)
        /\ new.have = pk.have \cup {p} /\ new.filtered = pk.filtered
        /\ new.dl[p] = NoDownload(p) /\ \A q \in Pieces : q # p => new.dl[q] = pk.dl[q]
        /\ new.num_have = pk.num_have + 1
        /\ new.num_passed = pk.num_passed - One(pk.dl[p].passed_hash_check) + 1
        /\ new.num_filtered = pk.num_filtered - f
        /\ new.num_have_filtered = pk.num_have_filtered + f
        /\ new.cursor = pk.cursor /\ new.reverse_cursor = pk.reverse_cursor

\* The fields of that picker.
LEMMA GotPieceFields ==
    ASSUME NEW pk, Shape(pk), NEW p \in Pieces
    PROVE  GotFields(pk, p)
<1> DEFINE f == One(p \in pk.filtered)
           g == One(pk.dl[p].passed_hash_check)
           er == [pk EXCEPT !.dl[p] = NoDownload(p)]
           new == [er EXCEPT !.have = @ \cup {p}, !.num_have = @ + 1,
                             !.num_passed = @ - g + 1,
                             !.num_filtered = @ - f, !.num_have_filtered = @ + f]
           Fields == {"have", "filtered", "dl", "num_have", "num_passed", "num_filtered",
                      "num_have_filtered", "cursor", "reverse_cursor"}
<1>1. Shape(er) /\ SameBut(pk, er, p) /\ er.dl[p] = NoDownload(p)
  BY StoreEntry
<1>2. GotPiece(pk, p) = new
  BY DEF GotPiece, erase_download_piece
<1> HIDE DEF f, g, er
<1>3. DOMAIN er = Fields /\ er.dl = [q \in Pieces |-> er.dl[q]]
  BY <1>1 DEF Shape
<1>4. /\ new.have = er.have \cup {p} /\ new.num_have = er.num_have + 1
      /\ new.num_passed = er.num_passed - g + 1
      /\ new.num_filtered = er.num_filtered - f
      /\ new.num_have_filtered = er.num_have_filtered + f
  BY <1>3
<1>5. /\ new.filtered = er.filtered /\ new.dl = er.dl
      /\ new.cursor = er.cursor /\ new.reverse_cursor = er.reverse_cursor
  BY <1>3
<1>6. DOMAIN new = Fields /\ new = [x \in DOMAIN new |-> new[x]]
  BY <1>3
<1> HIDE DEF new
<1>7. Shape(new)
  BY <1>3, <1>5, <1>6 DEF Shape
<1>8. GotPiece(pk, p).dl[p] = NoDownload(p)
      /\ \A q \in Pieces : q # p => GotPiece(pk, p).dl[q] = pk.dl[q]
  BY <1>1, <1>2, <1>5 DEF SameBut
<1> HIDE DEF Fields
<1> QED BY <1>1, <1>2, <1>4, <1>5, <1>7, <1>8 DEF GotFields, SameBut, f, g

\* we_have.
LEMMA HaveKeeps ==
    ASSUME NEW pk, PickerOk(pk), NEW p \in Pieces
    PROVE  PickerOk(we_have(pk, p))
<1>1. CASE p \in pk.have
  <2>1. we_have(pk, p) = pk
    BY <1>1 DEF we_have
  <2> QED BY <2>1
<1>2. CASE p \notin pk.have
  <2> DEFINE new == GotPiece(pk, p)
             f == One(p \in pk.filtered)
             g == One(pk.dl[p].passed_hash_check)
             W == Wanted(pk)
  <2>1. we_have(pk, p) = ShrinkCursors(new, p)
    BY <1>2 DEF we_have, GotPiece
  <2>2. /\ BooksOk(pk) /\ Shape(pk)
        /\ CursorAt(pk.cursor, W) /\ ReverseAt(pk.reverse_cursor, W)
    BY PickerParts DEF BooksOk
  <2>3. /\ Shape(new)
        /\ new.have = pk.have \cup {p} /\ new.filtered = pk.filtered
        /\ new.dl[p] = NoDownload(p) /\ \A q \in Pieces : q # p => new.dl[q] = pk.dl[q]
        /\ new.num_have = pk.num_have + 1
        /\ new.num_passed = pk.num_passed - g + 1
        /\ new.num_filtered = pk.num_filtered - f
        /\ new.num_have_filtered = pk.num_have_filtered + f
        /\ new.cursor = pk.cursor /\ new.reverse_cursor = pk.reverse_cursor
    <3>1. GotFields(pk, p)
      BY <2>2, GotPieceFields
    <3> QED BY <3>1 DEF GotFields
  <2> HIDE DEF new
  <2>4. W \subseteq Pieces /\ Wanted(new) = W \ {p}
    BY <2>3 DEF Wanted, Settled
  <2>5. /\ pk.have \subseteq Pieces /\ pk.filtered \subseteq Pieces
        /\ pk.num_have = Cardinality(pk.have)
        /\ pk.num_filtered = Cardinality(pk.filtered \ pk.have)
        /\ pk.num_have_filtered = Cardinality(pk.filtered \cap pk.have)
    BY <2>2 DEF BooksOk, TotalsOk
  <2>6. \A q \in Pieces : EntryOk(q, new.dl[q])
    <3>1. ASSUME NEW q \in Pieces PROVE EntryOk(q, new.dl[q])
      <4>1. CASE q = p
        BY <2>3, <4>1, EmptyEntry
      <4>2. CASE q # p
        BY <2>2, <2>3, <4>2 DEF BooksOk
      <4> QED BY <4>1, <4>2
    <3> QED BY <3>1
  <2>7. new.num_have = Cardinality(new.have) /\ Cardinality(new.have) = Cardinality(pk.have) + 1
    <3>1. pk.have \ {p} = pk.have
      BY <1>2
    <3>2. Cardinality(pk.have \cup {p}) = Cardinality(pk.have \ {p}) + 1
      BY <2>5, CardSplit
    <3> QED BY <2>3, <2>5, <3>1, <3>2
  <2>8. new.num_filtered = Cardinality(new.filtered \ new.have)
    <3> DEFINE S == pk.filtered \ pk.have
    <3>1. S \subseteq Pieces /\ new.filtered \ new.have = S \ {p}
      BY <2>3, <2>5
    <3>2. One(p \in S) = f
      BY <1>2
    <3> HIDE DEF S, f
    <3>3. Cardinality(S) = Cardinality(S \ {p}) + f /\ Cardinality(S \ {p}) \in Nat
      BY <3>1, <3>2, CardSplit
    <3>4. f \in Nat /\ pk.num_filtered = Cardinality(S)
      BY <2>5 DEF One, f, S
    <3>5. Cardinality(S) - f = Cardinality(S \ {p})
      BY <3>3, <3>4
    <3>6. new.num_filtered = Cardinality(S) - f
      BY <2>3, <3>4
    <3> QED BY <3>1, <3>5, <3>6
  <2>9. new.num_have_filtered = Cardinality(new.filtered \cap new.have)
    <3> DEFINE T == pk.filtered \cap pk.have
    <3>1. T \subseteq Pieces /\ T \ {p} = T
      BY <1>2, <2>5
    <3>2. new.filtered \cap new.have = IF p \in pk.filtered THEN T \cup {p} ELSE T
      BY <2>3
    <3>3. pk.num_have_filtered = Cardinality(T)
      BY <2>5
    <3> HIDE DEF T
    <3>4. Cardinality(T \cup {p}) = Cardinality(T) + 1 /\ Cardinality(T) \in Nat
      BY <3>1, CardSplit
    <3>5. new.num_have_filtered = Cardinality(T) + f
      BY <2>3, <3>3
    <3>6. CASE p \in pk.filtered
      <4>1. f = 1 /\ new.filtered \cap new.have = T \cup {p}
        BY <3>2, <3>6 DEF One
      <4> QED BY <3>4, <3>5, <4>1
    <3>7. CASE p \notin pk.filtered
      <4>1. f = 0 /\ new.filtered \cap new.have = T
        BY <3>2, <3>7 DEF One
      <4>2. Cardinality(T) + f = Cardinality(T)
        BY <3>4, <4>1
      <4> QED BY <3>5, <4>1, <4>2
    <3> QED BY <3>6, <3>7
  <2>10. new.num_passed \in Nat /\ new.num_passed >= Cardinality(new.have) + Cardinality(Flagged(new))
    <3> DEFINE F == Flagged(pk)
    <3>1. F \subseteq Pieces /\ Flagged(new) = F \ {p}
      <4>1. NoDownload(p).passed_hash_check = FALSE
        BY DEF NoDownload
      <4> QED BY <2>3, <4>1 DEF Flagged
    <3>2. One(p \in F) = g
      BY DEF Flagged, One
    <3>3. pk.num_passed \in Nat /\ pk.num_passed >= Cardinality(pk.have) + Cardinality(F)
      BY <2>2 DEF BooksOk
    <3> HIDE DEF F, g
    <3>4. Cardinality(F) = Cardinality(F \ {p}) + g /\ Cardinality(F \ {p}) \in Nat
      BY <3>1, <3>2, CardSplit
    <3>5. g \in Nat /\ Cardinality(pk.have) \in Nat
      BY <2>5, PiecesFinite DEF One, g
    <3> QED BY <2>3, <2>7, <3>1, <3>3, <3>4, <3>5
  <2>11. new.have \subseteq Pieces /\ new.filtered \subseteq Pieces
    BY <2>3, <2>5
  <2>12. BooksOk(new)
    BY <2>3, <2>6, <2>7, <2>8, <2>9, <2>10, <2>11 DEF BooksOk, TotalsOk
  <2>13. CursorAt(new.cursor, W) /\ ReverseAt(new.reverse_cursor, W)
    BY <2>2, <2>3
  <2>14. PickerOk(ShrinkCursors(new, p))
    <3> HIDE DEF W
    <3> QED BY <2>4, <2>12, <2>13, ShrunkOk
  <2> QED BY <2>1, <2>14
<1> QED BY <1>1, <1>2

\* mark_as_finished.
LEMMA FinishedKeeps ==
    ASSUME NEW pk, PickerOk(pk), NEW b \in Blocks
    PROVE  PickerOk(mark_as_finished(pk, b))
<1>0. b[1] \in Pieces
  BY BlockParts
<1>1. CASE (~Downloading(pk, b[1]) /\ b[1] \in pk.have) \/ StateOf(pk, b) = "finished"
  <2>1. mark_as_finished(pk, b) = pk
    BY <1>1 DEF mark_as_finished
  <2> QED BY <2>1
<1>2. CASE (Downloading(pk, b[1]) \/ b[1] \notin pk.have) /\ StateOf(pk, b) # "finished"
  <2> DEFINE new == FinishedBlock(pk, b)
  <2>1. /\ Downloading(pk, b[1]) \/ b[1] \notin pk.have
        /\ StateOf(pk, b) # "finished"
    BY <1>2
  <2>2. mark_as_finished(pk, b) \in {new, we_have(new, b[1])}
    <3>1. Written(pk, b)
      BY <2>1, FinishedEntry
    <3> QED BY <3>1 DEF Written
  <2>3. PickerOk(new)
    BY <2>1, FinishedBlockKeeps
  <2> HIDE DEF new
  <2>4. PickerOk(we_have(new, b[1]))
    BY <1>0, <2>3, HaveKeeps
  <2> QED BY <2>2, <2>3, <2>4
<1> QED BY <1>1, <1>2

\* An entry of which only a flag changes is still all right.
LEMMA FlaggedEntry ==
    ASSUME NEW p \in Pieces, NEW o, EntryOk(p, o), o.queue # "open", NEW e,
           \/ e = [o EXCEPT !.passed_hash_check = TRUE]
           \/ e = [o EXCEPT !.locked = TRUE]
           \/ e = [o EXCEPT !.passed_hash_check = FALSE]
    PROVE  /\ EntryOk(p, e) /\ e.queue # "open"
           /\ e.state = o.state /\ e.num_peers = o.num_peers
           /\ e.requested = o.requested /\ e.writing = o.writing /\ e.finished = o.finished
<1>1. o \in EntryType(p) /\ Covers(o) /\ InUse(o) > 0
  BY DEF EntryOk, NoDownload
<1>2. /\ DOMAIN o = EntryFields
      /\ o.state \in [1..blocks_in_piece(p) -> BlockStates] /\ o.requested \in Nat
  BY <1>1, EntryDomain
<1>3. /\ e.state = o.state /\ e.num_peers = o.num_peers
      /\ e.requested = o.requested /\ e.writing = o.writing /\ e.finished = o.finished
      /\ e.queue = o.queue
  BY <1>2 DEF EntryFields
<1>4. DOMAIN e = EntryFields /\ e = [f \in DOMAIN e |-> e[f]]
  BY <1>2
<1>5. /\ e.passed_hash_check = o.passed_hash_check \/ e.passed_hash_check \in BOOLEAN
      /\ e.locked = o.locked \/ e.locked \in BOOLEAN
  BY <1>2 DEF EntryFields
<1>6. e \in EntryType(p)
  BY <1>1, <1>2, <1>3, <1>4, <1>5, EntryOf
<1>7. Covers(e) /\ InUse(e) > 0
  BY <1>1, <1>3 DEF Covers, InStates, InState, InUse
<1> QED BY <1>3, <1>6, <1>7 DEF EntryOk

\* A piece in use is marked as passed, with one more in num_passed.
MarkedPassed(pk, p) == [pk EXCEPT !.dl[p].passed_hash_check = TRUE, !.num_passed = @ + 1]

\* piece_passed before it looks whether the piece is there.
LEMMA MarkedKeeps ==
    ASSUME NEW pk, PickerOk(pk), NEW p \in Pieces, Downloading(pk, p)
    PROVE  PickerOk(MarkedPassed(pk, p))
<1> DEFINE n == pk.num_passed + 1
           v == TRUE
           new == [pk EXCEPT !.dl[p].passed_hash_check = v, !.num_passed = n]
           o == pk.dl[p]
           e == new.dl[p]
<1>1. MarkedPassed(pk, p) = new
  BY DEF MarkedPassed
<1>2. Shape(pk) /\ EntryOk(p, o) /\ o.queue # "open" /\ pk.num_passed \in Nat
  BY DEF PickerOk, Downloading
<1> HIDE DEF n, v
<1>3. /\ Shape(new) /\ SameButPassed(pk, new, p)
      /\ new.num_passed = n
      /\ e = [o EXCEPT !.passed_hash_check = v]
  <2>1. FlagsChanged(pk, p, v, n)
    BY <1>2, ChangeFlags
  <2> QED BY <2>1 DEF FlagsChanged
<1> HIDE DEF new
<1>4. EntryOk(p, e)
  <2>1. e = [o EXCEPT !.passed_hash_check = TRUE]
    BY <1>3 DEF v
  <2> HIDE DEF o, e
  <2> QED BY <1>2, <2>1, FlaggedEntry
<1>5. /\ new.num_passed \in Int
      /\ new.num_passed >= pk.num_passed - One(o.passed_hash_check) + One(e.passed_hash_check)
  <2>1. /\ One(o.passed_hash_check) \in Nat
        /\ One(e.passed_hash_check) \in Nat /\ One(e.passed_hash_check) <= 1
    BY DEF One
  <2> HIDE DEF o, e
  <2> QED BY <1>2, <1>3, <2>1 DEF n
<1>6. PickerOk(new)
  BY <1>3, <1>4, <1>5, ReplaceFlagged
<1> QED BY <1>1, <1>6

\* piece_passed.
LEMMA PassedKeeps ==
    ASSUME NEW pk, PickerOk(pk), NEW p \in Pieces
    PROVE  PickerOk(piece_passed(pk, p))
<1> DEFINE new == MarkedPassed(pk, p)
<1>1. CASE ~Downloading(pk, p) \/ pk.dl[p].locked
  <2>1. piece_passed(pk, p) = pk
    BY <1>1 DEF piece_passed
  <2> QED BY <2>1
<1>2. CASE Downloading(pk, p) /\ ~pk.dl[p].locked
  <2>1. piece_passed(pk, p) \in {new, we_have(new, p)}
    BY <1>2 DEF piece_passed, MarkedPassed
  <2>2. PickerOk(new)
    BY <1>2, MarkedKeeps
  <2> HIDE DEF new
  <2>3. PickerOk(we_have(new, p))
    BY <2>2, HaveKeeps
  <2> QED BY <2>1, <2>2, <2>3
<1> QED BY <1>1, <1>2

\* lock_piece.
LEMMA LockKeeps ==
    ASSUME NEW pk, PickerOk(pk), NEW p \in Pieces
    PROVE  PickerOk(lock_piece(pk, p))
<1>1. CASE ~Downloading(pk, p)
  <2>1. lock_piece(pk, p) = pk
    BY <1>1 DEF lock_piece
  <2> QED BY <2>1
<1>2. CASE Downloading(pk, p)
  <2> DEFINE c == ClearPassed(pk, p)
             o == pk.dl[p]
             d == c.dl[p]
             x == [d EXCEPT !.locked = TRUE]
             new == [c EXCEPT !.dl[p] = x]
  <2>1. /\ Shape(c) /\ SameButPassed(pk, c, p)
        /\ c.num_passed = pk.num_passed - One(o.passed_hash_check)
        /\ d \in EntryType(p) /\ d.state = o.state
        /\ d.requested = o.requested /\ d.writing = o.writing /\ d.finished = o.finished
        /\ d.queue = o.queue /\ d.passed_hash_check = FALSE
    <3>1. FlagCleared(pk, p)
      BY ClearedFlag
    <3> QED BY <3>1 DEF FlagCleared
  <2>2. EntryOk(p, o) /\ o.queue # "open" /\ pk.num_passed \in Nat
    BY <1>2 DEF PickerOk, Downloading
  <2>3. lock_piece(pk, p) = new
    BY <1>2, <2>1 DEF lock_piece, Shape
  <2> HIDE DEF c, d, o
  <2>4. EntryOk(p, d) /\ d.queue # "open"
    <3>1. Covers(o) /\ InUse(o) > 0
      BY <2>2 DEF EntryOk, NoDownload
    <3>2. Covers(d) /\ InUse(d) > 0
      BY <2>1, <3>1 DEF Covers, InStates, InState, InUse
    <3> QED BY <2>1, <2>2, <3>2 DEF EntryOk
  <2>5. EntryOk(p, x)
    BY <2>4, FlaggedEntry
  <2>6. x.passed_hash_check = d.passed_hash_check
    <3>1. DOMAIN d = EntryFields
      BY <2>1, EntryDomain
    <3> QED BY <3>1 DEF EntryFields
  <2> HIDE DEF x
  <2>7. Shape(new) /\ SameBut(c, new, p) /\ new.dl[p] = x
    BY <2>1, StoreEntry
  <2> HIDE DEF new
  <2>8. SameButPassed(pk, new, p) /\ new.num_passed = pk.num_passed - One(o.passed_hash_check)
    BY <2>1, <2>7 DEF SameBut, SameButPassed
  <2>9. /\ new.num_passed \in Int
        /\ new.num_passed >= pk.num_passed - One(pk.dl[p].passed_hash_check)
                                            + One(new.dl[p].passed_hash_check)
    <3>1. One(new.dl[p].passed_hash_check) = 0 /\ One(o.passed_hash_check) \in Nat
      BY <2>1, <2>6, <2>7 DEF One
    <3> QED BY <2>2, <2>8, <3>1 DEF o
  <2>10. PickerOk(new)
    BY <2>5, <2>7, <2>8, <2>9, ReplaceFlagged
  <2> QED BY <2>3, <2>10
<1> QED BY <1>1, <1>2

\* A picker before a torrent has downloaded anything.
LEMMA InitOk == PickerOk(init)
<1>1. Shape(init)
  BY DEF Shape, init
<1>2. /\ init.have = {} /\ init.filtered = {} /\ init.num_have = 0 /\ init.num_passed = 0
      /\ init.num_filtered = 0 /\ init.num_have_filtered = 0
      /\ init.cursor = 0 /\ init.reverse_cursor = num_pieces
      /\ \A p \in Pieces : init.dl[p] = NoDownload(p)
  BY DEF init
<1> HIDE DEF init
<1>3. Cardinality({}) = 0
  BY FS_EmptySet
<1>4. TotalsOk(init)
  <2>1. init.filtered \ init.have = {} /\ init.filtered \cap init.have = {}
    BY <1>2
  <2> QED BY <1>2, <1>3, <2>1 DEF TotalsOk
<1>5. Flagged(init) = {}
  <2>1. \A p \in Pieces : NoDownload(p).passed_hash_check = FALSE
    BY DEF NoDownload
  <2>2. ASSUME NEW p \in Pieces, init.dl[p].passed_hash_check PROVE FALSE
    BY <1>2, <2>1, <2>2
  <2> QED BY <2>2 DEF Flagged
<1>6. \A p \in Pieces : EntryOk(p, init.dl[p])
  BY <1>2, EmptyEntry
<1>7. init.num_passed \in Nat /\ init.num_passed >= Cardinality(init.have) + Cardinality(Flagged(init))
  BY <1>2, <1>3, <1>5
<1>8. BooksOk(init)
  BY <1>1, <1>2, <1>4, <1>6, <1>7 DEF BooksOk
<1>9. CursorAt(0, Pieces) /\ ReverseAt(num_pieces, Pieces)
  <2>1. num_pieces \in Nat \ {0} /\ Pieces = 0..(num_pieces - 1)
    BY Layout DEF Pieces
  <2>2. 0 \in Pieces /\ num_pieces - 1 \in Pieces
    BY <2>1
  <2>3. \A x \in Pieces : 0 <= x /\ x < num_pieces
    BY <2>1
  <2> QED BY <2>1, <2>2, <2>3 DEF CursorAt, ReverseAt
<1>10. Wanted(init) = Pieces
  BY <1>2 DEF Wanted, Settled
<1> QED BY <1>2, <1>8, <1>9, <1>10, PickerParts

\* Nothing but filtered, its counters and the cursors differs.
Prioritized(pk, new, F, nf, nhf, c, r) ==
    /\ Shape(new)
    /\ new.have = pk.have /\ new.filtered = F /\ new.dl = pk.dl
    /\ new.num_have = pk.num_have /\ new.num_passed = pk.num_passed
    /\ new.num_filtered = nf /\ new.num_have_filtered = nhf
    /\ new.cursor = c /\ new.reverse_cursor = r

\* Setting one of these fields.
LEMMA SetFields ==
    ASSUME NEW pk, Shape(pk), NEW x
    PROVE  /\ Prioritized(pk, [pk EXCEPT !.num_filtered = x], pk.filtered, x,
                          pk.num_have_filtered, pk.cursor, pk.reverse_cursor)
           /\ Prioritized(pk, [pk EXCEPT !.num_have_filtered = x], pk.filtered,
                          pk.num_filtered, x, pk.cursor, pk.reverse_cursor)
           /\ Prioritized(pk, [pk EXCEPT !.filtered = x], x, pk.num_filtered,
                          pk.num_have_filtered, pk.cursor, pk.reverse_cursor)
<1>1. Prioritized(pk, [pk EXCEPT !.num_filtered = x], pk.filtered, x,
                  pk.num_have_filtered, pk.cursor, pk.reverse_cursor)
  BY DEF Shape, Prioritized
<1>2. Prioritized(pk, [pk EXCEPT !.num_have_filtered = x], pk.filtered,
                  pk.num_filtered, x, pk.cursor, pk.reverse_cursor)
  BY DEF Shape, Prioritized
<1>3. Prioritized(pk, [pk EXCEPT !.filtered = x], x, pk.num_filtered,
                  pk.num_have_filtered, pk.cursor, pk.reverse_cursor)
  BY DEF Shape, Prioritized
<1> QED BY <1>1, <1>2, <1>3

\* The picker is all right when these fields fit the new set.
LEMMA PrioritizedOk ==
    ASSUME NEW pk, PickerOk(pk), NEW new, NEW F, F \subseteq Pieces,
           NEW nf, NEW nhf, NEW c, NEW r, Prioritized(pk, new, F, nf, nhf, c, r),
           nf = Cardinality(F \ pk.have), nhf = Cardinality(F \cap pk.have),
           CursorAt(c, Pieces \ (pk.have \cup F)), ReverseAt(r, Pieces \ (pk.have \cup F))
    PROVE  PickerOk(new)
<1>1. BooksOk(pk)
  BY PickerParts
<1>2. BooksOk(new)
  BY <1>1 DEF BooksOk, TotalsOk, Flagged, Prioritized
<1>3. Wanted(new) = Pieces \ (pk.have \cup F) /\ new.cursor = c /\ new.reverse_cursor = r
  BY DEF Wanted, Settled, Prioritized
<1> QED BY <1>2, <1>3, PickerParts

\* set_piece_priority before the queue of the piece is set.
Refiltered(pk, p, filter) ==
    LET counted == IF filter THEN Filter(pk, p) ELSE Unfilter(pk, p)
    IN  [counted EXCEPT !.filtered = IF filter THEN @ \cup {p} ELSE @ \ {p}]

\* A piece is filtered.
LEMMA FilterKeeps ==
    ASSUME NEW pk, PickerOk(pk), NEW p \in Pieces, p \notin pk.filtered
    PROVE  PickerOk(Refiltered(pk, p, TRUE)) /\ Refiltered(pk, p, TRUE).dl = pk.dl
<1> DEFINE counted == Filter(pk, p)
           F == pk.filtered \cup {p}
           new == [counted EXCEPT !.filtered = F]
           W == Wanted(pk)
<1>1. /\ BooksOk(pk) /\ Shape(pk)
      /\ CursorAt(pk.cursor, W) /\ ReverseAt(pk.reverse_cursor, W)
  BY PickerParts DEF BooksOk
<1>2. /\ pk.have \subseteq Pieces /\ pk.filtered \subseteq Pieces /\ F \subseteq Pieces
      /\ pk.num_filtered = Cardinality(pk.filtered \ pk.have)
      /\ pk.num_have_filtered = Cardinality(pk.filtered \cap pk.have)
  BY <1>1 DEF BooksOk, TotalsOk
<1>3. counted.filtered = pk.filtered => Refiltered(pk, p, TRUE) = new
  BY DEF Refiltered
<1>4. CASE p \in pk.have
  <2> DEFINE n == pk.num_have_filtered + 1
  <2>1. counted = [pk EXCEPT !.num_have_filtered = n]
    BY <1>4 DEF Filter
  <2> HIDE DEF counted, F, n
  <2>2. Prioritized(pk, counted, pk.filtered, pk.num_filtered, n, pk.cursor, pk.reverse_cursor)
    BY <1>1, <2>1, SetFields
  <2>3. Prioritized(counted, new, F, counted.num_filtered, counted.num_have_filtered,
                    counted.cursor, counted.reverse_cursor)
    <3>1. Shape(counted)
      BY <2>2 DEF Prioritized
    <3> QED BY <3>1, SetFields
  <2> HIDE DEF new
  <2>4. Prioritized(pk, new, F, pk.num_filtered, n, pk.cursor, pk.reverse_cursor)
    BY <2>2, <2>3 DEF Prioritized
  <2>5. pk.num_filtered = Cardinality(F \ pk.have)
    <3>1. F \ pk.have = pk.filtered \ pk.have
      BY <1>4 DEF F
    <3> QED BY <1>2, <3>1
  <2>6. n = Cardinality(F \cap pk.have)
    <3> DEFINE T == pk.filtered \cap pk.have
    <3>1. F \cap pk.have = T \cup {p} /\ T \ {p} = T /\ T \subseteq Pieces
      BY <1>2, <1>4 DEF F
    <3>2. n = Cardinality(T) + 1
      BY <1>2 DEF n
    <3> HIDE DEF T
    <3>3. Cardinality(T \cup {p}) = Cardinality(T \ {p}) + 1
      BY <3>1, CardSplit
    <3> QED BY <3>1, <3>2, <3>3
  <2>7. Pieces \ (pk.have \cup F) = W
    BY <1>4 DEF Wanted, Settled, F
  <2>8. CursorAt(pk.cursor, Pieces \ (pk.have \cup F)) /\ ReverseAt(pk.reverse_cursor, Pieces \ (pk.have \cup F))
    BY <1>1, <2>7
  <2>9. PickerOk(new)
    BY <1>2, <2>4, <2>5, <2>6, <2>8, PrioritizedOk
  <2>10. counted.filtered = pk.filtered /\ new.dl = pk.dl
    BY <2>2, <2>4 DEF Prioritized
  <2> QED BY <1>3, <2>9, <2>10
<1>5. CASE p \notin pk.have
  <2> DEFINE n == pk.num_filtered + 1
             one == [pk EXCEPT !.num_filtered = n]
  <2>1. counted = ShrinkCursors(one, p)
    BY <1>5 DEF Filter
  <2> HIDE DEF counted, F, n
  <2>2. Prioritized(pk, one, pk.filtered, n, pk.num_have_filtered, pk.cursor, pk.reverse_cursor)
    BY <1>1, SetFields
  <2> HIDE DEF one
  <2>3. Shape(one) /\ W \subseteq Pieces /\ Wanted(one) \ {p} = W \ {p}
        /\ one.cursor = pk.cursor /\ one.reverse_cursor = pk.reverse_cursor
    BY <2>2 DEF Prioritized, Wanted, Settled
  <2>4. Shrunk(one, counted, p, W)
    <3>1. CursorAt(one.cursor, W) /\ ReverseAt(one.reverse_cursor, W)
      BY <1>1, <2>3
    <3> HIDE DEF W
    <3> QED BY <2>1, <2>3, <3>1, ShrinkMoves
  <2>5. PICK c, r : /\ MovedTo(one, counted, c, r)
                    /\ CursorAt(c, W \ {p}) /\ ReverseAt(r, W \ {p})
    BY <2>4 DEF Shrunk
  <2>6. Prioritized(counted, new, F, counted.num_filtered, counted.num_have_filtered,
                    counted.cursor, counted.reverse_cursor)
    BY <2>5, SetFields DEF MovedTo
  <2> HIDE DEF new
  <2>7. Prioritized(pk, new, F, n, pk.num_have_filtered, c, r)
    BY <2>2, <2>5, <2>6 DEF Prioritized, MovedTo
  <2>8. pk.num_have_filtered = Cardinality(F \cap pk.have)
    <3>1. F \cap pk.have = pk.filtered \cap pk.have
      BY <1>5 DEF F
    <3> QED BY <1>2, <3>1
  <2>9. n = Cardinality(F \ pk.have)
    <3> DEFINE T == pk.filtered \ pk.have
    <3>1. F \ pk.have = T \cup {p} /\ T \ {p} = T /\ T \subseteq Pieces
      BY <1>2, <1>5 DEF F
    <3>2. n = Cardinality(T) + 1
      BY <1>2 DEF n
    <3> HIDE DEF T
    <3>3. Cardinality(T \cup {p}) = Cardinality(T \ {p}) + 1
      BY <3>1, CardSplit
    <3> QED BY <3>1, <3>2, <3>3
  <2>10. Pieces \ (pk.have \cup F) = W \ {p}
    BY DEF Wanted, Settled, F
  <2>11. CursorAt(c, Pieces \ (pk.have \cup F)) /\ ReverseAt(r, Pieces \ (pk.have \cup F))
    BY <2>5, <2>10
  <2>12. PickerOk(new)
    BY <1>2, <2>7, <2>8, <2>9, <2>11, PrioritizedOk
  <2>13. counted.filtered = pk.filtered /\ new.dl = pk.dl
    BY <2>2, <2>5, <2>7 DEF Prioritized, MovedTo
  <2> QED BY <1>3, <2>12, <2>13
<1> QED BY <1>4, <1>5

\* A piece is wanted again.
LEMMA UnfilterKeeps ==
    ASSUME NEW pk, PickerOk(pk), NEW p \in Pieces, p \in pk.filtered
    PROVE  PickerOk(Refiltered(pk, p, FALSE)) /\ Refiltered(pk, p, FALSE).dl = pk.dl
<1> DEFINE counted == Unfilter(pk, p)
           F == pk.filtered \ {p}
           new == [counted EXCEPT !.filtered = F]
           W == Wanted(pk)
<1>1. /\ BooksOk(pk) /\ Shape(pk)
      /\ CursorAt(pk.cursor, W) /\ ReverseAt(pk.reverse_cursor, W)
  BY PickerParts DEF BooksOk
<1>2. /\ pk.have \subseteq Pieces /\ pk.filtered \subseteq Pieces /\ F \subseteq Pieces
      /\ pk.num_filtered = Cardinality(pk.filtered \ pk.have)
      /\ pk.num_have_filtered = Cardinality(pk.filtered \cap pk.have)
  BY <1>1 DEF BooksOk, TotalsOk
<1>3. counted.filtered = pk.filtered => Refiltered(pk, p, FALSE) = new
  BY DEF Refiltered
<1>4. CASE p \in pk.have
  <2> DEFINE n == pk.num_have_filtered - 1
  <2>1. counted = [pk EXCEPT !.num_have_filtered = n]
    BY <1>4 DEF Unfilter
  <2> HIDE DEF counted, F, n
  <2>2. Prioritized(pk, counted, pk.filtered, pk.num_filtered, n, pk.cursor, pk.reverse_cursor)
    BY <1>1, <2>1, SetFields
  <2>3. Prioritized(counted, new, F, counted.num_filtered, counted.num_have_filtered,
                    counted.cursor, counted.reverse_cursor)
    <3>1. Shape(counted)
      BY <2>2 DEF Prioritized
    <3> QED BY <3>1, SetFields
  <2> HIDE DEF new
  <2>4. Prioritized(pk, new, F, pk.num_filtered, n, pk.cursor, pk.reverse_cursor)
    BY <2>2, <2>3 DEF Prioritized
  <2>5. pk.num_filtered = Cardinality(F \ pk.have)
    <3>1. F \ pk.have = pk.filtered \ pk.have
      BY <1>4 DEF F
    <3> QED BY <1>2, <3>1
  <2>6. n = Cardinality(F \cap pk.have)
    <3> DEFINE T == pk.filtered \cap pk.have
    <3>1. F \cap pk.have = T \ {p} /\ p \in T /\ T \subseteq Pieces
      BY <1>2, <1>4 DEF F
    <3>2. n = Cardinality(T) - 1
      BY <1>2 DEF n
    <3> HIDE DEF T
    <3>3. /\ Cardinality(T) = Cardinality(T \ {p}) + One(p \in T)
          /\ Cardinality(T \ {p}) \in Nat
      BY <3>1, CardSplit
    <3>4. One(p \in T) = 1
      BY <3>1 DEF One
    <3>5. Cardinality(T) - 1 = Cardinality(T \ {p})
      BY <3>3, <3>4
    <3> QED BY <3>1, <3>2, <3>5
  <2>7. Pieces \ (pk.have \cup F) = W
    BY <1>4 DEF Wanted, Settled, F
  <2>8. CursorAt(pk.cursor, Pieces \ (pk.have \cup F)) /\ ReverseAt(pk.reverse_cursor, Pieces \ (pk.have \cup F))
    BY <1>1, <2>7
  <2>9. PickerOk(new)
    BY <1>2, <2>4, <2>5, <2>6, <2>8, PrioritizedOk
  <2>10. counted.filtered = pk.filtered /\ new.dl = pk.dl
    BY <2>2, <2>4 DEF Prioritized
  <2> QED BY <1>3, <2>9, <2>10
<1>5. CASE p \notin pk.have
  <2> DEFINE n == pk.num_filtered - 1
             one == [pk EXCEPT !.num_filtered = n]
             c == IF p < one.cursor THEN p ELSE one.cursor
             r == IF p >= one.reverse_cursor THEN p + 1 ELSE one.reverse_cursor
  <2>1. counted = [one EXCEPT !.cursor = c, !.reverse_cursor = r]
    BY <1>5 DEF Unfilter, GrowCursors
  <2> HIDE DEF counted, F, n
  <2>2. Prioritized(pk, one, pk.filtered, n, pk.num_have_filtered, pk.cursor, pk.reverse_cursor)
    BY <1>1, SetFields
  <2> HIDE DEF one
  <2>3. /\ c = IF p < pk.cursor THEN p ELSE pk.cursor
        /\ r = IF p >= pk.reverse_cursor THEN p + 1 ELSE pk.reverse_cursor
    BY <2>2 DEF Prioritized
  <2> HIDE DEF c, r
  <2>4. MovedTo(one, counted, c, r)
    BY <2>1, <2>2, MoveCursors DEF Prioritized
  <2>6. Prioritized(counted, new, F, counted.num_filtered, counted.num_have_filtered,
                    counted.cursor, counted.reverse_cursor)
    BY <2>4, SetFields DEF MovedTo
  <2> HIDE DEF new
  <2>7. Prioritized(pk, new, F, n, pk.num_have_filtered, c, r)
    BY <2>2, <2>4, <2>6 DEF Prioritized, MovedTo
  <2>8. pk.num_have_filtered = Cardinality(F \cap pk.have)
    <3>1. F \cap pk.have = pk.filtered \cap pk.have
      BY <1>5 DEF F
    <3> QED BY <1>2, <3>1
  <2>9. n = Cardinality(F \ pk.have)
    <3> DEFINE T == pk.filtered \ pk.have
    <3>1. F \ pk.have = T \ {p} /\ p \in T /\ T \subseteq Pieces
      BY <1>2, <1>5 DEF F
    <3>2. n = Cardinality(T) - 1
      BY <1>2 DEF n
    <3> HIDE DEF T
    <3>3. /\ Cardinality(T) = Cardinality(T \ {p}) + One(p \in T)
          /\ Cardinality(T \ {p}) \in Nat
      BY <3>1, CardSplit
    <3>4. One(p \in T) = 1
      BY <3>1 DEF One
    <3>5. Cardinality(T) - 1 = Cardinality(T \ {p})
      BY <3>3, <3>4
    <3> QED BY <3>1, <3>2, <3>5
  <2>10. Pieces \ (pk.have \cup F) = W \cup {p}
    BY <1>5 DEF Wanted, Settled, F
  <2>11. CursorAt(c, W \cup {p}) /\ ReverseAt(r, W \cup {p})
    <3>1. W \subseteq Pieces
      BY DEF Wanted
    <3>2. /\ num_pieces \in Nat \ {0} /\ p \in Nat /\ p < num_pieces
          /\ \A x \in W : x \in Nat /\ x < num_pieces
      <4>1. num_pieces \in Nat \ {0} /\ Pieces = 0..(num_pieces - 1)
        BY Layout DEF Pieces
      <4>2. \A x \in Pieces : x \in Nat /\ x < num_pieces
        BY <4>1
      <4> QED BY <3>1, <4>1, <4>2
    <3> HIDE DEF W
    <3>3. /\ pk.cursor \in 0..num_pieces /\ \A x \in W : pk.cursor <= x
          /\ pk.cursor = num_pieces \/ pk.cursor \in W
      BY <1>1 DEF CursorAt
    <3>4. /\ pk.reverse_cursor \in 0..num_pieces /\ \A x \in W : x < pk.reverse_cursor
          /\ pk.reverse_cursor = 0 \/ pk.reverse_cursor - 1 \in W
      BY <1>1 DEF ReverseAt
    <3>5. CursorAt(c, W \cup {p})
      BY <2>3, <3>2, <3>3 DEF CursorAt
    <3>6. ReverseAt(r, W \cup {p})
      BY <2>3, <3>2, <3>4 DEF ReverseAt
    <3> QED BY <3>5, <3>6
  <2>12. CursorAt(c, Pieces \ (pk.have \cup F)) /\ ReverseAt(r, Pieces \ (pk.have \cup F))
    BY <2>10, <2>11
  <2>13. PickerOk(new)
    BY <1>2, <2>7, <2>8, <2>9, <2>12, PrioritizedOk
  <2>14. counted.filtered = pk.filtered /\ new.dl = pk.dl
    BY <2>2, <2>4, <2>7 DEF Prioritized, MovedTo
  <2> QED BY <1>3, <2>13, <2>14
<1> QED BY <1>4, <1>5

\* set_piece_priority.
LEMMA PriorityKeeps ==
    ASSUME NEW pk, PickerOk(pk), NEW p \in Pieces, NEW filter \in BOOLEAN
    PROVE  PickerOk(set_piece_priority(pk, p, filter))
<1>1. CASE filter <=> p \in pk.filtered
  <2>1. set_piece_priority(pk, p, filter) = pk
    BY <1>1 DEF set_piece_priority
  <2> QED BY <2>1
<1>2. CASE ~(filter <=> p \in pk.filtered)
  <2> DEFINE set == Refiltered(pk, p, filter)
             o == pk.dl[p]
             u == update_piece_state(set, p, set.dl[p])
             new == [set EXCEPT !.dl[p] = u]
  <2>1. set_piece_priority(pk, p, filter) = IF ~Downloading(pk, p) THEN set ELSE new
    BY <1>2 DEF set_piece_priority, Refiltered
  <2>2. PickerOk(set) /\ set.dl = pk.dl
    <3>1. CASE filter = TRUE
      BY <1>2, <3>1, FilterKeeps
    <3>2. CASE filter = FALSE
      BY <1>2, <3>2, UnfilterKeeps
    <3> QED BY <3>1, <3>2
  <2> HIDE DEF set
  <2>3. CASE ~Downloading(pk, p)
    BY <2>1, <2>2, <2>3
  <2>4. CASE Downloading(pk, p)
    <3>1. /\ Shape(set) /\ set.dl[p] \in EntryType(p) /\ Covers(set.dl[p])
          /\ InUse(set.dl[p]) > 0
      BY <2>2, <2>4, OldEntry DEF Downloading
    <3>2. /\ u \in EntryType(p)
          /\ u.state = set.dl[p].state
          /\ u.requested = set.dl[p].requested /\ u.writing = set.dl[p].writing
          /\ u.finished = set.dl[p].finished
          /\ u.passed_hash_check = set.dl[p].passed_hash_check
          /\ u.queue = QueueFor(set, p, set.dl[p])
      BY <3>1, UpdateState DEF QueueFor
    <3> HIDE DEF u
    <3>3. EntryOk(p, u)
      <4>1. Covers(u) /\ InUse(u) > 0
        BY <3>1, <3>2 DEF Covers, InStates, InState, InUse
      <4> QED BY <3>2, <4>1, QueueIsOne DEF EntryOk
    <3>4. Shape(new) /\ SameBut(set, new, p) /\ new.dl[p] = u
      BY <3>1, StoreEntry
    <3>5. PickerOk(new)
      BY <2>2, <3>2, <3>3, <3>4, ReplaceEntry
    <3> QED BY <2>1, <2>4, <3>5
  <2> QED BY <2>3, <2>4
<1> QED BY <1>1, <1>2

\* A picker that is all right has its types and right totals and cursors.
LEMMA PickerTypes ==
    ASSUME NEW pk, PickerOk(pk)
    PROVE  IsPicker(pk) /\ CountsAgree(pk)
<1>1. BooksOk(pk) /\ CountsAgree(pk)
  BY PickerParts DEF PickerOk
<1>2. pk.cursor \in 0..num_pieces /\ pk.reverse_cursor \in 0..num_pieces
  BY PickerParts DEF CursorAt, ReverseAt
<1>3. pk.have \subseteq Pieces /\ pk.filtered \subseteq Pieces
  BY <1>1 DEF BooksOk
<1>4. pk.num_have \in Nat /\ pk.num_filtered \in Nat /\ pk.num_have_filtered \in Nat
  <2>1. pk.filtered \ pk.have \subseteq Pieces /\ pk.filtered \cap pk.have \subseteq Pieces
    BY <1>3
  <2> QED BY <1>1, <1>3, <2>1, PiecesFinite DEF BooksOk, TotalsOk
<1>5. pk.num_passed \in Nat
  BY <1>1 DEF BooksOk
<1>6. \A p \in Pieces : pk.dl[p] \in EntryType(p)
  BY <1>1 DEF BooksOk, EntryOk
<1> QED BY <1>1, <1>2, <1>3, <1>4, <1>5, <1>6 DEF IsPicker, EntryType
=============================================================================
