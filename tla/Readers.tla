------------------------------ MODULE Readers ------------------------------
(***************************************************************************)
(* Keyset pagination over the events table: queryEvents() of the stores    *)
(* (packages/store/src/sqlite-store.ts and postgres-store.ts, which run    *)
(* the same statements), a client that pages through REST or GraphQL, and  *)
(* the CSV export of packages/api/src/server.ts, while rows are inserted   *)
(* at any id and pruned from the oldest.                                   *)
(*                                                                         *)
(* An event is its id.  The total of a page, which may come from a cache,  *)
(* is left out.                                                            *)
(***************************************************************************)
EXTENDS Pages

CONSTANTS EventRow,             \* what each id says: ledger, tx, ok, addresses, topics
          Filters,              \* filters asked for
          Limit,                \* limit of a page
          ExportDirections,     \* directions a CSV export is asked for with
          MaxWrites             \* bound: inserts and prunes while a reader reads

ASSUME ReadersAssumption ==
    /\ Len(EventRow) \in Nat /\ DOMAIN EventRow = 1..Len(EventRow)
    /\ Limit \in Nat \ {0} /\ ExportDirections \subseteq {"forward", "backward"}

VARIABLES table,                \* ids in the table
          writes,
          query,                \* filter, order, direction, cursor
          at,                   \* rest, scan, probe
          reader,               \* pages, sizing, writing, done
          shown, hasMore,       \* the page: rows scanned, whether there was one more
          next, prev,           \* nextCursor, prevCursor
          cameFrom,             \* the page the reader came from (history)
          steady,               \* rows there since the last scan (history)
          listed, lasting       \* the export: ids written; rows there all along (history)
paging == <<query, at, reader, shown, hasMore, next, prev, cameFrom, listed>>
readersVars == <<table, writes, paging, steady, lasting>>

NullCursor == 0
EventIds == DOMAIN EventRow
Wild == "*"

\* All conditions are ANDed; a topic filter is a prefix with wildcards.
Where(f, id) ==
    LET e == EventRow[id] IN
    /\ \A k \in DOMAIN f \cap {"contract", "tx", "transactionIndex"} : e[k] = f[k]
    /\ "address" \in DOMAIN f => f.address \in e.addresses
    /\ "fromLedger" \in DOMAIN f => e.ledger >= f.fromLedger
    /\ "toLedger" \in DOMAIN f => e.ledger <= f.toLedger
    /\ "successfulOnly" \in DOMAIN f => e.ok
    /\ "topics" \in DOMAIN f =>
          \A i \in DOMAIN f.topics :
              f.topics[i] = Wild \/ (i \in DOMAIN e.topics /\ e.topics[i] = f.topics[i])
Matching(q, S) == {id \in S : Where(q.filter, id)}

\* a comes before b in the order asked for, and in the direction of the scan.
Before(q, a, b) == IF q.order = "asc" THEN a < b ELSE b < a
Backward(q) == q.direction = "backward"
ScanBefore(q, a, b) == IF Backward(q) THEN Before(q, b, a) ELSE Before(q, a, b)
Foremost(q, S) == CHOOSE a \in S : \A b \in S \ {a} : Before(q, a, b)
Hindmost(q, S) == CHOOSE a \in S : \A b \in S \ {a} : Before(q, b, a)

\* Variant: the cursor's own row is read again.
AheadInclusive(q, id) == q.cursor = NullCursor \/ id = q.cursor \/ ScanBefore(q, q.cursor, id)
Ahead(q, id) == q.cursor = NullCursor \/ ScanBefore(q, q.cursor, id)

\* The n rows nearest to where the scan starts.
Nearest(q, S, n) == {a \in S : Cardinality({b \in S : ScanBefore(q, b, a)}) < n}

AskPage(direction, cursor) ==
    /\ query' = [query EXCEPT !.direction = direction, !.cursor = cursor] /\ at' = "scan"
StartReading(f, order, c, direction) ==
    /\ reader = "none" /\ reader' = c
    /\ query' = [filter |-> f, order |-> order, direction |-> direction, cursor |-> NullCursor]
    /\ at' = "scan"
    /\ UNCHANGED <<table, writes, shown, hasMore, next, prev, cameFrom, listed, steady, lasting>>

ReadersInit ==
    /\ table \in {EventIds, {id \in EventIds : id % 2 = 0}} /\ writes = 0
    /\ query = [filter |-> <<>>, order |-> "asc", direction |-> "forward", cursor |-> NullCursor]
    /\ at = "rest" /\ reader = "none"
    /\ shown = {} /\ hasMore = FALSE /\ next = NullCursor /\ prev = NullCursor
    /\ cameFrom = {} /\ steady = {} /\ listed = <<>> /\ lasting = {}

\* SELECT ... LIMIT limit + 1: one row more than the page tells whether there are more.
Scan ==
    /\ at = "scan"
    /\ LET found == {id \in Matching(query, table) : Ahead(query, id)} IN
       shown' = Nearest(query, found, Limit) /\ hasMore' = (Cardinality(found) > Limit)
    /\ at' = "probe" /\ cameFrom' = shown /\ steady' = table
    /\ lasting' = IF reader \in {"sizing", "writing"} /\ query.cursor = NullCursor THEN table ELSE lasting
    /\ UNCHANGED <<table, writes, query, reader, next, prev, listed>>

\* SELECT 1 ... LIMIT 1, for the side the scan came from.
RowsBefore(id) == {b \in Matching(query, table) : Before(query, b, id)}
RowsAfter(id)  == {b \in Matching(query, table) : Before(query, id, b)}
First == Foremost(query, shown)
Last  == Hindmost(query, shown)
\* Variant: the cursor is the extra row, which the page does not hold.
NextCursorOfExtra ==
    IF shown # {} /\ hasMore /\ RowsAfter(Last) # {} THEN Foremost(query, RowsAfter(Last)) ELSE NullCursor
NextCursor ==
    IF shown # {} /\ IF Backward(query) THEN RowsAfter(Last) # {} ELSE hasMore THEN Last ELSE NullCursor
PrevCursor ==
    IF shown # {} /\ IF Backward(query) THEN hasMore ELSE RowsBefore(First) # {} THEN First ELSE NullCursor

Probe ==
    /\ at = "probe" /\ at' = "rest"
    /\ next' = NextCursor /\ prev' = PrevCursor
    /\ UNCHANGED <<table, writes, query, reader, shown, hasMore, cameFrom, steady, listed, lasting>>

\* The client follows a cursor of the page it has.
Follow(direction) ==
    /\ at = "rest" /\ reader = "pages"
    /\ LET cursor == IF direction = "forward" THEN next ELSE prev IN
       cursor # NullCursor /\ AskPage(direction, cursor)
    /\ UNCHANGED <<table, writes, reader, shown, hasMore, next, prev, cameFrom, steady, listed, lasting>>

\* The one list of S in the order asked for, as a set to choose from.
InQueryOrder(q, S) ==
    {list \in [1..Cardinality(S) -> S] :
        Range(list) = S /\ \A i, j \in DOMAIN list : i < j => Before(q, list[i], list[j])}

\* eachEventPage: the rows of a page go out, and the walk goes on from nextCursor.
ExportPage ==
    /\ at = "rest" /\ reader \in {"sizing", "writing"}
    /\ IF reader = "writing" THEN \E list \in InQueryOrder(query, shown) : listed' = listed \o list
       ELSE UNCHANGED listed
    /\ IF next # NullCursor THEN AskPage(query.direction, next) /\ UNCHANGED reader
       ELSE IF reader = "sizing"     \* csvExport scans once for the width of the header
       THEN AskPage(query.direction, NullCursor) /\ reader' = "writing"
       ELSE reader' = "done" /\ UNCHANGED <<query, at>>
    /\ shown' = {}
    /\ UNCHANGED <<table, writes, hasMore, next, prev, cameFrom, steady, lasting>>

\* The indexer inserts, or a backfill below what is there; a prune takes the oldest.
RowsChange(S) ==
    /\ reader \notin {"none", "done"} /\ writes < MaxWrites /\ writes' = writes + 1
    /\ table' = S /\ steady' = steady \cap S /\ lasting' = lasting \cap S
    /\ UNCHANGED paging
RowInserted(id) == id \notin table /\ RowsChange(table \cup {id})
Prune == table # {} /\ RowsChange(table \ {Min(table)})

ReadersNext ==
    \/ \E f \in Filters, order \in {"asc", "desc"} :
          \/ StartReading(f, order, "pages", "forward")
          \/ \E d \in ExportDirections : StartReading(f, order, "sizing", d)
    \/ Scan \/ Probe \/ \E d \in {"forward", "backward"} : Follow(d)
    \/ ExportPage \/ Prune \/ \E id \in EventIds : RowInserted(id)
ReadersSpec == ReadersInit /\ [][ReadersNext]_readersVars

-----------------------------------------------------------------------------
\* A page and the one the client came from adjoin: no row is on both, and none that was
\* there at the scan lies between them.  A page without a cursor on one side has nothing
\* there that was there at the scan (queryEvents, sqlite-store.ts 324-371).
PagesAdjoin == reader = "pages" /\ shown # {} =>
    /\ at = "probe" /\ cameFrom # {} =>
          /\ shown \cap cameFrom = {}
          /\ \A id \in Matching(query, steady) \ shown :
                IF Backward(query)
                THEN ~(Before(query, Last, id) /\ Before(query, id, Foremost(query, cameFrom)))
                ELSE ~(Before(query, Hindmost(query, cameFrom), id) /\ Before(query, id, First))
    /\ at = "rest" =>
          \A id \in Matching(query, steady) : /\ prev = NullCursor => ~Before(query, id, First)
                                              /\ next = NullCursor => ~Before(query, Last, id)

\* server.ts 188: "Every event matching `query`, a page at a time."  An export lists, in
\* order and once, every row that was there all along.
ExportListsEachEventOnce ==
    /\ \A i, j \in DOMAIN listed : i < j => Before(query, listed[i], listed[j])
    /\ reader = "done" => Matching(query, lasting) \subseteq Range(listed)
=============================================================================
