------------------------------ MODULE ListPages ------------------------------
(***************************************************************************)
(* A client pages through a list (List of every handler, service and       *)
(* repository): each page is one statement for the rows and one for their  *)
(* number, without an ORDER BY and without a transaction, while others     *)
(* write.  PostgreSQL promises no order then.  Assumed here is the one a   *)
(* sequential scan gives: the order of the rows' places in the table,      *)
(* where an insert may take any place that is free and an update moves its *)
(* row to one.  Under any other order a page may show what it likes.       *)
(***************************************************************************)
EXTENDS ListFilters

CONSTANTS
    Item,           \* ids of rows
    RowOf,          \* RowOf[x]: the columns of row x
    Queries,        \* the queries clients ask
    MaxPlace,       \* bound: places of the table
    MaxSize,        \* bound: the largest page
    MaxWrites       \* bound: writes of others

ASSUME PagesAssumption ==
    /\ IsFiniteSet(Item) /\ RowOf \in [Item -> Row]
    /\ \A q \in Queries :
          /\ q.listing \in Listing /\ q.search \subseteq Text /\ q.tags \subseteq Text
          /\ \A i \in 1..Len(q.clauses) : q.clauses[i] \in Clause
    /\ MaxPlace \in Nat /\ MaxSize \in Nat \ {0} /\ MaxWrites \in Nat

VARIABLES
    place,      \* place[x]: where the table holds row x (ctid)
    walk,       \* the client's walk through the pages of one query
    writes

pagesVars == <<place, walk, writes>>

Nowhere == 0
In(table) == {x \in Item : table[x] # Nowhere}

\* Where rows may be: one place holds one row.
Table == {table \in [Item -> Nowhere..MaxPlace] :
              \A x, y \in In(table) : table[x] = table[y] => x = y}

\* seen, twice: what the pages have shown, and whether one showed what another had.
\* stayed: rows of the query that have been in the table all the time.  shrunk, grown: a
\* row of the table went or moved, or one came or moved, since the walk began.
PagesTypeOK ==
    /\ place \in Table
    /\ walk \in [pc : {"off", "rows", "count", "page", "done", "error"}, query : Queries,
                page : Nat, size : 1..MaxSize, total : Nat, seen : SUBSET Item, twice : BOOLEAN,
                stayed : SUBSET Item, shrunk : BOOLEAN, grown : BOOLEAN]
    /\ writes \in 0..MaxWrites

Off(q) == [pc |-> "off", query |-> q, page |-> 1, size |-> 1, total |-> 0, seen |-> {},
           twice |-> FALSE, stayed |-> {}, shrunk |-> FALSE, grown |-> FALSE]

PagesInit ==
    /\ place \in Table
    /\ \E q \in Queries :
          walk = Off(q) /\ \A x \in In(place) : Fits(q.listing, RowOf[x])
    /\ writes = 0

\* The rows of a query, those of them that are in the table.
Answer == [q \in Queries |-> {x \in Item : Matches(q, RowOf[x])}]
Selected(q) == In(place) \cap Answer[q]

\* The number of x among these rows.
Rank(rows, x) == Cardinality({y \in rows : place[y] <= place[x]})

(***************************************************************************)
(* The client, and the service.                                            *)
(***************************************************************************)

Begin(size) ==
    /\ walk.pc = "off"
    /\ walk' = [walk EXCEPT !.pc = "rows", !.size = size, !.stayed = Selected(walk.query)]
    /\ UNCHANGED <<place, writes>>

\* Mutant of PageOf: pages count from zero.
PageOfZero(skip, limit) == skip \div limit

\* skip and limit become a page: skip is rounded down to a multiple of limit.
PageOf(skip, limit) == skip \div limit + 1

\* Mutant of Offset: pages are skipped as if they were rows.
OffsetOfPages(page, size) == page - 1

Offset(page, size) == (page - 1) * size

\* OFFSET and LIMIT.  Past the last row the page is empty.
Page(rows, from, size) ==
    {x \in rows : from < Rank(rows, x) /\ Rank(rows, x) <= from + size}

Rows ==
    /\ walk.pc = "rows"
    /\ LET got == Page(Selected(walk.query), Offset(walk.page, walk.size), walk.size)
       IN walk' = IF Broken(walk.query) THEN [walk EXCEPT !.pc = "error"]
                  ELSE [walk EXCEPT !.pc = "count", !.seen = @ \cup got,
                                    !.twice = @ \/ walk.seen \cap got # {}]
    /\ UNCHANGED <<place, writes>>

Counted(q) == Cardinality(Selected(q))

Count ==
    /\ walk.pc = "count"
    /\ walk' = [walk EXCEPT !.pc = "page", !.total = Counted(walk.query)]
    /\ UNCHANGED <<place, writes>>

\* Mutant of TotalPages: the last page is whole or does not count.
TotalPagesDown(total, size) == total \div size

\* PaginatedResponse.
TotalPages(total, size) ==
    LET whole == total \div size
        pages == IF total % size # 0 THEN whole + 1 ELSE whole
    IN IF pages = 0 THEN 1 ELSE pages

HasNextPage == walk.page < TotalPages(walk.total, walk.size)

\* The client asks for the page after, by its number or by the rows to skip.
Advance ==
    /\ walk.pc = "page"
    /\ walk' = IF HasNextPage
               THEN [walk EXCEPT !.pc = "rows",
                                 !.page = PageOf(walk.page * walk.size, walk.size)]
               ELSE [walk EXCEPT !.pc = "done"]
    /\ UNCHANGED <<place, writes>>

(***************************************************************************)
(* Others, while the client walks: the table that it begins with is any.   *)
(***************************************************************************)

Walking == walk.pc \in {"rows", "count", "page"}

Free == {p \in 1..MaxPlace : \A x \in Item : place[x] # p}

Insert(x) ==
    /\ Walking /\ writes < MaxWrites
    /\ x \notin In(place) /\ Fits(walk.query.listing, RowOf[x])
    /\ \E p \in Free : place' = [place EXCEPT ![x] = p]
    /\ walk' = [walk EXCEPT !.grown = TRUE]
    /\ writes' = writes + 1

Delete(x) ==
    /\ Walking /\ writes < MaxWrites /\ x \in In(place)
    /\ place' = [place EXCEPT ![x] = Nowhere]
    /\ walk' = [walk EXCEPT !.shrunk = TRUE, !.stayed = @ \ {x}]
    /\ writes' = writes + 1

\* An update of a column no query asks for.
Update(x) ==
    /\ Walking /\ writes < MaxWrites /\ x \in In(place)
    /\ \E p \in Free : place' = [place EXCEPT ![x] = p]
    /\ walk' = [walk EXCEPT !.shrunk = TRUE, !.grown = TRUE]
    /\ writes' = writes + 1

PagesNext ==
    \/ \E size \in 1..MaxSize : Begin(size)
    \/ Rows \/ Count \/ Advance
    \/ \E x \in Item : Insert(x) \/ Delete(x) \/ Update(x)

PagesSpec ==
    PagesInit /\ [][PagesNext]_pagesVars /\ WF_pagesVars(Rows \/ Count \/ Advance)

(***************************************************************************)
(* Properties.                                                             *)
(***************************************************************************)

Wanted(x) == x \in Answer[walk.query]

\* A client that follows HasNextPage has seen every row of its query that was there all
\* the time, although the rows and their number are read apart and others insert, unless
\* one was deleted or updated meanwhile, which moves the others into pages already read.
WalkComplete ==
    walk.pc = "done" /\ ~walk.shrunk => walk.stayed \subseteq walk.seen

\* And it has seen nothing else, and nothing twice unless one came or moved.
WalkExact ==
    /\ \A x \in walk.seen : Wanted(x)
    /\ ~walk.grown => ~walk.twice

\* The walk comes to an end: when the others stop writing, there is a last page.
WalkEnds == walk.pc = "rows" ~> walk.pc \in {"done", "error"}

\* Of a clause that is neither left out nor refused by the database, and its opposite, each
\* row is listed by exactly one: a description that is NULL does not fall between the two.
\* Only a row without a date does, which neither = nor <> lists (the comparisons of a date
\* have no "IS NULL OR").
Opposite == [is_present |-> "is_not_present", is_not_present |-> "is_present",
             equal_to |-> "not_equal_to", not_equal_to |-> "equal_to",
             contains |-> "does_not_contain", does_not_contain |-> "contains"]

OppositesPartition ==
    \A x \in In(place), i \in 1..Len(walk.query.clauses) :
        LET listing == walk.query.listing
            c == walk.query.clauses[i]
            d == [c EXCEPT !.op = Opposite[@]]
            lists == Condition(listing, <<c>>, RowOf[x])
            listsOther == Condition(listing, <<d>>, RowOf[x])
        IN Applies(listing, c) /\ ~ CastError(listing, c) =>
             /\ Applies(listing, d)
             /\ IF c.column = "created_at" /\ c.op \in Equality /\ RowOf[x].created_at = Null
                THEN ~ lists /\ ~ listsOther
                ELSE lists # listsOther
=============================================================================
