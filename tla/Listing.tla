-------------------------------- MODULE Listing --------------------------------
(***************************************************************************)
(* Reading a list page by page (app/pagination.py and the endpoints for    *)
(* cases, vendors and properties) while its rows come, go and move.  A     *)
(* list is newest first; cases move up when something happens on them.     *)
(***************************************************************************)
EXTENDS Naturals, Sequences, FiniteSets

CONSTANTS
    MaxRow,    \* bound: rows, numbered by id
    PageSize,  \* the caller's limit
    MaxStamp   \* bound: instants at which something happens

ASSUME ListingAssumption ==
    MaxRow \in Nat /\ PageSize \in Nat \ {0} /\ MaxStamp \in Nat \ {0}

Rows == 1..MaxRow
Lists == {"cases", "vendors", "properties"}

VARIABLES
    list,      \* which list is read
    stamp,     \* per row: last_activity_at or created_at, 0 while not listed
    now,       \* the time
    cursor,    \* the caller's cursor, and whether the last page was read
    pages,     \* the pages read so far
    disturbed  \* rows that came, went or moved since the first page was read

listVars == <<list, stamp, now, cursor, pages, disturbed>>

\* encode_cursor: the order column and the id of a row.
CursorAt(r) == [at |-> stamp[r], id |-> r]
First == [at |-> MaxStamp + 1, id |-> 0]
NoCursor == [at |-> 0, id |-> 0]

\* Mutant: rows of one instant are told apart by nothing.
BeforeByStamp(r, c) == stamp[r] < c.at
\* (order_column, id) < (cursor_at, cursor_id).
Before(r, c) == stamp[r] < c.at \/ (stamp[r] = c.at /\ r < c.id)

Listed == {r \in Rows : stamp[r] > 0}
Newer(r, s) == stamp[r] > stamp[s] \/ (stamp[r] = stamp[s] /\ r > s)
Newest(S, n) == {r \in S : Cardinality({s \in S : Newer(s, r)}) < n}
Oldest(S) == CHOOSE r \in S : \A s \in S : r = s \/ Newer(s, r)

ListInit ==
    /\ list \in Lists
    /\ stamp \in [Rows -> 0..1] /\ now = 1
    /\ cursor = First /\ pages = <<>> /\ disturbed = {}

\* LIMIT limit + 1: the extra row says that there is a next page.
Fetched(c) == Newest({r \in Listed : Before(r, c)}, PageSize + 1)

\* paginate_rows: the cursor is the last row of the page, not the extra one.
NextPage ==
    LET page == Newest(Fetched(cursor), PageSize) IN
    /\ cursor # NoCursor
    /\ pages' = Append(pages, page)
    /\ cursor' = IF Cardinality(Fetched(cursor)) > PageSize THEN CursorAt(Oldest(page)) ELSE NoCursor
    /\ UNCHANGED <<list, stamp, now, disturbed>>

ListCases == list = "cases" /\ NextPage
ListVendors == list = "vendors" /\ NextPage
ListProperties == list = "properties" /\ NextPage

\* A transaction stamps with the time at which it began: a row may appear with
\* the stamp of a moment ago, or with the same as another.
Stamped(r) ==
    /\ \E t \in {now - 1, now} \ {0} : t # stamp[r] /\ stamp' = [stamp EXCEPT ![r] = t]
    /\ disturbed' = disturbed \cup {r}
    /\ UNCHANGED <<list, now, cursor, pages>>

\* A row is created, or comes to match the caller's filter.
RowAppears(r) == stamp[r] = 0 /\ Stamped(r)
\* cases.last_activity_at moves with every message and decision.
RowMoves(r) == stamp[r] > 0 /\ list = "cases" /\ Stamped(r)
\* A property is deleted; a case does not match the filter any more.
RowLeaves(r) ==
    /\ stamp[r] > 0 /\ list # "vendors"
    /\ stamp' = [stamp EXCEPT ![r] = 0]
    /\ disturbed' = disturbed \cup {r}
    /\ UNCHANGED <<list, now, cursor, pages>>

TimePasses ==
    /\ now < MaxStamp /\ now' = now + 1
    /\ UNCHANGED <<list, stamp, cursor, pages, disturbed>>

ListNext ==
    \/ ListCases \/ ListVendors \/ ListProperties
    \/ \E r \in Rows : RowAppears(r) \/ RowMoves(r) \/ RowLeaves(r)
    \/ TimePasses

ListSpec == ListInit /\ [][ListNext]_listVars

-----------------------------------------------------------------------------
(* Properties.                                                             *)

ListTypeOK ==
    /\ list \in Lists
    /\ stamp \in [Rows -> 0..MaxStamp] /\ now \in 1..MaxStamp
    /\ cursor \in [at : 0..(MaxStamp + 1), id : 0..MaxRow]
    /\ \A i \in DOMAIN pages : pages[i] \subseteq Rows /\ Cardinality(pages[i]) <= PageSize
    /\ disturbed \subseteq Rows

\* Whatever happens to other rows between two pages, a row that stays where it
\* was is shown exactly once, and those that stay are shown in order.
QuietRowsOnce ==
    LET quiet == Listed \ disturbed
        ShownOn(r) == {i \in DOMAIN pages : r \in pages[i]} IN
    /\ cursor = NoCursor => \A r \in quiet : Cardinality(ShownOn(r)) = 1
    /\ \A r, s \in quiet : \A i \in ShownOn(r), j \in ShownOn(s) : Newer(r, s) => i <= j
=============================================================================
