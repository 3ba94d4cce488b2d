------------------------------ MODULE Operator ------------------------------
(***************************************************************************)
(* The paged lists of the operator: /admin/... of the facilitator,         *)
(* /credits/:wallet/transactions, and the refills of the treasury.  Each   *)
(* clamps the limit, counts the rows, and selects a page of them, newest   *)
(* first, by LIMIT and OFFSET: two statements without a transaction, while *)
(* rows are written.  A client walks the list, page by page.               *)
(*                                                                         *)
(* Data abstraction.  A row is its place in the order of created_at, which *)
(* is the order in which the transactions of the rows began; a row shows   *)
(* when its transaction has committed.  A condition on a column that no    *)
(* UPDATE touches leaves a smaller table of the same kind.  Walks with a   *)
(* condition on a status are left out, and so are deliveries that go with  *)
(* their subscription: rows that leave the middle of a list shift the      *)
(* others, and no walk by OFFSET can know.                                 *)
(***************************************************************************)
EXTENDS Integers, FiniteSets

CONSTANTS
    MaxRows,   \* bound: the rows of a table
    MaxPage,   \* the largest limit (200)
    Limits      \* the limits that a client asks for

ASSUME OperatorConstants ==
    /\ MaxRows \in Nat /\ MaxPage \in Nat \ {0} /\ Limits \subseteq Nat \ {0}

VARIABLES
    last,   \* the newest created_at
    open,   \* the rows that have a created_at, and have not committed
    shown,  \* the rows of the table
    walk    \* the client: its list, its page, and what it has seen
operatorVars == <<last, open, shown, walk>>

NoWalk == [at |-> "idle"]
OperatorInit == last = 0 /\ open = {} /\ shown = {} /\ walk = NoWalk

-----------------------------------------------------------------------------
(* The lists: which statement is first, and whether old rows are deleted. *)

ReceiptList == [first |-> "count", cleaned |-> FALSE]
ChannelList == [first |-> "count", cleaned |-> FALSE]
DeliveryList == [first |-> "either", cleaned |-> TRUE]   \* Promise.all
InvoiceList == [first |-> "count", cleaned |-> FALSE]
AccountList == [first |-> "count", cleaned |-> FALSE]
RefillList == [first |-> "count", cleaned |-> FALSE]
TreasuryRefillList == [first |-> "count", cleaned |-> FALSE]
TransactionList == [first |-> "rows", cleaned |-> FALSE]
Lists == {ReceiptList, ChannelList, DeliveryList, InvoiceList, AccountList, RefillList,
          TreasuryRefillList, TransactionList}

-----------------------------------------------------------------------------
(* The writers *)

RowBegins ==
    /\ last < MaxRows
    /\ last' = last + 1 /\ open' = open \cup {last'}
    /\ UNCHANGED <<shown, walk>>

RowCommits(r) ==
    /\ open' = open \ {r} /\ shown' = shown \cup {r}
    /\ UNCHANGED <<last, walk>>

\* cleanupDeliveries takes the oldest.
RowDeleted(r) ==
    /\ walk.at = "query" /\ walk.list.cleaned
    /\ \A s \in shown : r <= s
    /\ shown' = shown \ {r}
    /\ UNCHANGED <<last, open, walk>>

-----------------------------------------------------------------------------
(* The handler *)

PageSize(asked) == IF asked < MaxPage THEN asked ELSE MaxPage

Rank(r) == Cardinality({s \in shown : s > r})

CountRows ==
    /\ "count" \in walk.asking
    /\ walk.list.first # "rows" \/ walk.asking = {"count"}
    /\ walk' = [walk EXCEPT !.total = Cardinality(shown), !.asking = @ \ {"count"}]

SelectPage ==
    /\ "rows" \in walk.asking
    /\ walk.list.first # "count" \/ walk.asking = {"rows"}
    /\ walk' = [walk EXCEPT
          !.page = {r \in shown : Rank(r) \in walk.offset..(walk.offset + PageSize(walk.asked) - 1)},
          !.asking = @ \ {"rows"}]

Query ==
    /\ walk.at = "query"
    /\ CountRows \/ SelectPage
    /\ UNCHANGED <<last, open, shown>>

\* A statement fails: the reply is an error, and the walk is given up.
QueryFails ==
    /\ walk.at = "query" /\ walk.asking # {}
    /\ walk' = NoWalk
    /\ UNCHANGED <<last, open, shown>>

-----------------------------------------------------------------------------
(* The client (external) *)

BothQueries == {"count", "rows"}
Rules == {"short", "total"}   \* ends at a page that is not full, or at the total

StartWalk(list, asked, rule) ==
    /\ walk = NoWalk
    /\ walk' = [at |-> "query", list |-> list, rule |-> rule, asked |-> asked, offset |-> 0,
                asking |-> BothQueries, total |-> 0, page |-> {}, seen |-> {}, start |-> shown]
    /\ UNCHANGED <<last, open, shown>>

Replied == walk.at = "query" /\ walk.asking = {}

\* The limit that the reply names.  Mutant of Size: the one of the query string.
SizeAsked == walk.asked
Size == PageSize(walk.asked)

LastPage == IF walk.rule = "short" THEN Cardinality(walk.page) < Size
                                   ELSE walk.offset + Size >= walk.total

NextPage ==
    /\ Replied
    /\ walk' = [walk EXCEPT
          !.at = IF LastPage THEN "done" ELSE "query",
          !.offset = IF LastPage THEN @ ELSE @ + Size,
          !.asking = IF LastPage THEN {} ELSE BothQueries,
          !.seen = @ \cup walk.page]
    /\ UNCHANGED <<last, open, shown>>

OperatorNext ==
    \/ RowBegins \/ Query \/ QueryFails \/ NextPage
    \/ \E r \in open : RowCommits(r)
    \/ \E r \in shown : RowDeleted(r)
    \/ \E list \in Lists, asked \in Limits, rule \in Rules : StartWalk(list, asked, rule)

-----------------------------------------------------------------------------
(* Properties *)

\* A walk to the first page that is not full sees every row that was there when it
\* began, and still is, whatever is inserted meanwhile, and in whatever order rows
\* commit.  So does a walk to the total, where the total is asked after the page; where
\* it is asked before, it may end too early (operator.ts:108-551, credits.ts:98-138).
WalkMissesNothing ==
    (walk.at = "done" /\ (walk.rule = "short" \/ walk.list.first = "rows"))
        => (walk.start \cap shown) \subseteq walk.seen

\* A reply is no shorter than its total, where the total is asked first, and no longer,
\* where it is asked last, and nothing is deleted.
RepliesAgree ==
    (walk.at = "query" /\ Replied /\ ~walk.list.cleaned) =>
        LET n == walk.offset + Cardinality(walk.page)
        IN  /\ (walk.list.first = "count" /\ Cardinality(walk.page) < Size) => n >= walk.total
            /\ (walk.list.first = "rows" /\ walk.page # {}) => n <= walk.total

PagesAgree == WalkMissesNothing /\ RepliesAgree
=============================================================================
