--------------------------- MODULE RootListProofs ---------------------------
(***************************************************************************)
(* Proofs about RootList for any number of pages and any interleaving of    *)
(* the two requests.                                                        *)
(***************************************************************************)
EXTENDS RootList, TLAPS

\* What makes the table's order inductive: the footer's request under way is
\* for nextPage, since nothing but its own answer moves the counter; and page
\* 1 can only be the topmost.
PagingInv ==
    /\ TypeOK
    /\ footer = "loading" => asked = nextPage
    /\ \A i \in 1..Len(rows) : rows[i] = 1 => i = 1
    /\ NoHoleBelowFirst

\* PagingInv orders the table.
LEMMA PagingOrders == PagingInv => NoPageTwice
<1> SUFFICES ASSUME PagingInv,
                    NEW i \in 1..Len(rows), NEW j \in 1..Len(rows), i < j
             PROVE  rows[i] < rows[j]
  BY DEF NoPageTwice
<1>1. /\ Len(rows) \in Nat /\ nextPage \in Nat
      /\ rows[i] \in Nat \ {0} /\ rows[j] \in Nat \ {0}
  BY DEF PagingInv, TypeOK
<1>2. rows[j] # 1 /\ rows[j] + Len(rows) + 1 = nextPage + j
  BY <1>1 DEF PagingInv, NoHoleBelowFirst
<1>3. rows[i] = 1 \/ rows[i] + Len(rows) + 1 = nextPage + i
  BY DEF PagingInv, NoHoleBelowFirst
<1> QED
  BY <1>1, <1>2, <1>3

\* Appending the page asked for keeps the run of pages without a hole.
LEMMA AppendKeepsRun ==
    ASSUME PagingInv, footer = "loading",
           rows' = Append(rows, asked), nextPage' = nextPage + 1
    PROVE  /\ rows' \in Seq(Nat \ {0})
           /\ (\A i \in 1..Len(rows) : rows[i] = 1 => i = 1)'
           /\ NoHoleBelowFirst'
<1>1. /\ rows \in Seq(Nat \ {0}) /\ nextPage \in Nat \ {0, 1}
      /\ asked = nextPage
  BY DEF PagingInv, TypeOK
<1>2. /\ rows' \in Seq(Nat \ {0})
      /\ Len(rows) \in Nat /\ Len(rows') = Len(rows) + 1
      /\ \A i \in 1..Len(rows) : rows'[i] = rows[i]
      /\ rows'[Len(rows) + 1] = nextPage
  BY <1>1
<1>3. ASSUME NEW i \in 1..Len(rows')
      PROVE  /\ rows'[i] = 1 => i = 1
             /\ rows'[i] # 1 => rows'[i] + Len(rows') + 1 = nextPage' + i
  <2>1. CASE i \in 1..Len(rows)
    <3>1. /\ rows[i] = 1 => i = 1
          /\ rows[i] # 1 => rows[i] + Len(rows) + 1 = nextPage + i
      BY <2>1 DEF PagingInv, NoHoleBelowFirst
    <3>2. rows[i] \in Nat /\ rows'[i] = rows[i] /\ i \in Nat
      BY <1>1, <1>2, <2>1
    <3>3. nextPage' = nextPage + 1 /\ Len(rows') = Len(rows) + 1
      BY <1>2
    <3>4. nextPage \in Nat /\ Len(rows) \in Nat
      BY <1>1, <1>2
    <3>5. rows[i] + Len(rows) + 1 = nextPage + i
            => rows[i] + (Len(rows) + 1) + 1 = (nextPage + 1) + i
      BY <3>2, <3>4
    <3> QED
      BY <3>1, <3>2, <3>3, <3>5
  <2>2. CASE i = Len(rows) + 1
    BY <1>1, <1>2, <2>2
  <2> QED
    BY <1>2, <2>1, <2>2
<1> QED
  BY <1>2, <1>3 DEF NoHoleBelowFirst

\* Every gesture, request and answer of the two controls keeps PagingInv.
THEOREM PagingSafe == Spec => []PagingInv
<1>1. Init => PagingInv
  <2> SUFFICES ASSUME Init PROVE PagingInv
    OBVIOUS
  <2>1. rows = <<>> /\ Len(rows) = 0
    BY DEF Init
  <2> QED
    BY <2>1 DEF Init, PagingInv, TypeOK, Control, NoHoleBelowFirst
<1>2. PagingInv /\ [Next]_vars => PagingInv'
  <2> SUFFICES ASSUME PagingInv, [Next]_vars PROVE PagingInv'
    OBVIOUS
  <2>1. CASE HeaderPulled
    BY <2>1 DEF HeaderPulled, PagingInv, TypeOK, Control, NoHoleBelowFirst
  <2>2. CASE HeaderLoads
    BY <2>2 DEF HeaderLoads, PagingInv, TypeOK, Control, NoHoleBelowFirst
  <2>3. CASE HeaderReply
    <3>1. /\ rows' \in Seq(Nat \ {0})
          /\ \A i \in 1..Len(rows') : rows'[i] = 1 /\ i = 1
      <4>1. CASE rows' = <<1>>
        <5>1. <<1>> \in Seq(Nat \ {0}) /\ Len(<<1>>) = 1 /\ <<1>>[1] = 1
          OBVIOUS
        <5> QED
          BY <4>1, <5>1
      <4>2. CASE rows' = <<>>
        <5>1. <<>> \in Seq(Nat \ {0}) /\ Len(<<>>) = 0
          OBVIOUS
        <5> QED
          BY <4>2, <5>1
      <4> QED
        BY <2>3, <4>1, <4>2 DEF HeaderReply
    <3> QED
      BY <2>3, <3>1 DEF HeaderReply, PagingInv, TypeOK, Control,
                        NoHoleBelowFirst
  <2>4. CASE HeaderEnded
    BY <2>4 DEF HeaderEnded, PagingInv, TypeOK, Control, NoHoleBelowFirst
  <2>5. CASE FooterReached
    BY <2>5 DEF FooterReached, PagingInv, TypeOK, Control, NoHoleBelowFirst
  <2>6. CASE FooterLoads
    BY <2>6 DEF FooterLoads, PagingInv, TypeOK, Control, NoHoleBelowFirst
  <2>7. CASE FooterReply
    <3>1. CASE rows' = Append(rows, asked) /\ nextPage' = nextPage + 1
      <4>1. nextPage' \in Nat \ {0, 1}
        BY <3>1 DEF PagingInv, TypeOK
      <4> QED
        BY <2>7, <3>1, <4>1, AppendKeepsRun
        DEF FooterReply, PagingInv, TypeOK, Control
    <3>2. CASE UNCHANGED <<rows, nextPage>>
      BY <2>7, <3>2 DEF FooterReply, PagingInv, TypeOK, Control,
                        NoHoleBelowFirst
    <3> QED
      BY <2>7, <3>1, <3>2 DEF FooterReply
  <2>8. CASE FooterEnded
    BY <2>8 DEF FooterEnded, PagingInv, TypeOK, Control, NoHoleBelowFirst
  <2>9. CASE UNCHANGED vars
    BY <2>9 DEF vars, PagingInv, TypeOK, NoHoleBelowFirst
  <2> QED
    BY <2>1, <2>2, <2>3, <2>4, <2>5, <2>6, <2>7, <2>8, <2>9 DEF Next
<1> QED
  BY <1>1, <1>2, PTL DEF Spec

\* The table holds page numbers, the counter of the footer never falls below
\* 2, and each MJRefresh control is in one of its states.
THEOREM PagingTypes == Spec => []TypeOK
<1>1. PagingInv => TypeOK
  BY DEF PagingInv
<1> QED
  BY <1>1, PagingSafe, PTL

\* No page is shown twice or out of order, and the pages below the first have
\* no hole, whatever the order in which the answers arrive and fail.
THEOREM PagesInOrder == Spec => [](NoPageTwice /\ NoHoleBelowFirst)
<1>1. PagingInv => NoPageTwice /\ NoHoleBelowFirst
  BY PagingOrders DEF PagingInv
<1> QED
  BY <1>1, PagingSafe, PTL
=============================================================================
