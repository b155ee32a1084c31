------------------------------ MODULE RootList ------------------------------
(***************************************************************************)
(* RootList (TestBB/RootList/RootList.m): a table filled page by page from  *)
(* the site.  Pulling the header down reloads page 1, scrolling to the      *)
(* footer appends page nextPage.  Both requests may be under way together   *)
(* and are answered in any order.                                           *)
(*                                                                          *)
(* A control of MJRefresh goes through "idle", "begun" (refreshing, its     *)
(* block posted to the main queue), "loading" (the block has sent the       *)
(* request) and "ending" (endRefreshing has posted the return to idle).     *)
(* A page's rows are represented by the page number.                        *)
(***************************************************************************)
EXTENDS Naturals, Sequences

CONSTANT MaxPage            \* bound: the last page a run asks for

ASSUME MaxPageAssumption == MaxPage \in Nat \ {0, 1}

VARIABLES
    rows,                   \* pages in the table, top to bottom
    nextPage,               \* the page the footer asks for
    asked,                  \* the page of the footer's last request
    header, footer          \* the two MJRefresh controls

vars == <<rows, nextPage, asked, header, footer>>

\* Faulty variant: viewDidLoad does not set nextPage.
InitWithoutPage ==
    /\ rows = <<>>
    /\ nextPage = 0
    /\ asked = 2
    /\ header = "begun"
    /\ footer = "idle"

\* viewDidLoad starts with a refresh of the header.
Init ==
    /\ rows = <<>>
    /\ nextPage = 2
    /\ asked = 2
    /\ header = "begun"
    /\ footer = "idle"
-----------------------------------------------------------------------------
\* The controls (Pods/MJRefresh): one that is not idle takes no new gesture, and
\* endRefreshing posts the return to idle.  Where a gesture has to end to count
\* is a matter of layout.
HeaderPulled ==
    /\ header = "idle"
    /\ header' = "begun"
    /\ UNCHANGED <<rows, nextPage, asked, footer>>

FooterReached ==
    /\ footer = "idle" /\ nextPage <= MaxPage
    /\ footer' = "begun"
    /\ UNCHANGED <<rows, nextPage, asked, header>>

HeaderEnded ==
    /\ header = "ending"
    /\ header' = "idle"
    /\ UNCHANGED <<rows, nextPage, asked, footer>>

FooterEnded ==
    /\ footer = "ending"
    /\ footer' = "idle"
    /\ UNCHANGED <<rows, nextPage, asked, header>>
-----------------------------------------------------------------------------
\* The refreshing blocks: loadPage:1 and loadPage:self.nextPage.
HeaderLoads ==
    /\ header = "begun"
    /\ header' = "loading"
    /\ UNCHANGED <<rows, nextPage, asked, footer>>

FooterLoads ==
    /\ footer = "begun"
    /\ asked' = nextPage
    /\ footer' = "loading"
    /\ UNCHANGED <<rows, nextPage, header>>

\* Faulty variant: the control is not told about a failed request and goes on
\* spinning, although no answer is to come.
HeaderWaitsOnFailure ==
    /\ header = "loading"
    /\ \/ rows' = <<1>> /\ header' = "ending"
       \/ rows' = <<>> /\ header' = "spinning"
    /\ UNCHANGED <<nextPage, asked, footer>>

\* complete(rows) of the header.  A failed request delivers nil, and the
\* getter turns that into an empty table.
HeaderReply ==
    /\ header = "loading"
    /\ rows' \in {<<1>>, <<>>}
    /\ header' = "ending"
    /\ UNCHANGED <<nextPage, asked, footer>>

\* Faulty variant: the counter moves on although nothing was loaded.
FooterSkipsOnFailure ==
    /\ footer = "loading"
    /\ rows' \in {Append(rows, asked), rows}
    /\ nextPage' = nextPage + 1
    /\ footer' = "ending"
    /\ UNCHANGED <<asked, header>>

\* Faulty variant: the counter never moves.
FooterKeepsPage ==
    /\ footer = "loading"
    /\ rows' \in {Append(rows, asked), rows}
    /\ footer' = "ending"
    /\ UNCHANGED <<nextPage, asked, header>>

\* complete(rows) of the footer: appended to whatever the table holds now.
FooterReply ==
    /\ footer = "loading"
    /\ \/ rows' = Append(rows, asked) /\ nextPage' = nextPage + 1
       \/ UNCHANGED <<rows, nextPage>>
    /\ footer' = "ending"
    /\ UNCHANGED <<asked, header>>

Next ==
    \/ HeaderPulled \/ HeaderLoads \/ HeaderReply \/ HeaderEnded
    \/ FooterReached \/ FooterLoads \/ FooterReply \/ FooterEnded

Spec == Init /\ [][Next]_vars

\* The main run loop runs what was posted to it, and NSURLSession calls the
\* completion handler of every task, with an error after its timeout.
Fairness ==
    /\ WF_vars(HeaderLoads) /\ WF_vars(HeaderReply) /\ WF_vars(HeaderEnded)
    /\ WF_vars(FooterLoads) /\ WF_vars(FooterReply) /\ WF_vars(FooterEnded)

FairSpec == Spec /\ Fairness
-----------------------------------------------------------------------------
Control == {"idle", "begun", "loading", "ending"}

\* Every variable stays in its type.
TypeOK ==
    /\ rows \in Seq(Nat \ {0})
    /\ nextPage \in Nat \ {0, 1} /\ asked \in Nat \ {0, 1}
    /\ header \in Control /\ footer \in Control

\* However the answers of header and footer interleave, and whichever of them
\* fail, no page is in the table twice and the pages are in the site's order.
NoPageTwice ==
    \A i, j \in 1..Len(rows) : i < j => rows[i] < rows[j]

\* The pages below the first are the last ones the footer fetched, without a
\* hole between them, up to the page before nextPage.  (Between page 1 and the
\* first of them there may be one: the header reloads page 1 and leaves
\* nextPage as it is.)
NoHoleBelowFirst ==
    \A i \in 1..Len(rows) : rows[i] # 1 => rows[i] + Len(rows) + 1 = nextPage + i

\* Both controls stop spinning: every refresh that was begun is ended, failed
\* requests included.
RefreshEnds ==
    /\ header # "idle" ~> header = "idle"
    /\ footer # "idle" ~> footer = "idle"
=============================================================================
