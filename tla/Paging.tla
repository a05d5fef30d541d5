------------------------------- MODULE Paging -------------------------------
(***************************************************************************)
(* Lists read page by page.  A cursor holds the sort key of the last row     *)
(* shown; the next page is the rows strictly after it.  Rows are inserted,    *)
(* moved and filtered away while somebody walks the list.  A list is sorted   *)
(* either by a column that people choose (a date) or by one that PostgreSQL   *)
(* stamps with the start of the transaction, in microseconds, while the       *)
(* cursor carries what toISOString leaves of it: whole milliseconds.          *)
(***************************************************************************)
EXTENDS Naturals, Sequences, FiniteSets, SequencesExt

CONSTANTS
    List,           \* the lists to walk: names in DOMAIN Lists
    Millisecond,    \* clock ticks (microseconds) in a millisecond
    Limit,          \* the page size
    Chosen,         \* the dates people choose
    MaxRows,        \* bound on the rows ever inserted
    MaxClock        \* bound on the clock

(* What each list sorts by, and in which direction. *)
Newest == [by |-> "stamp", dir |-> "desc"]

EnrollmentsList  == Newest
PostsList        == Newest
UsersList        == Newest
ApprovalsList    == Newest
PaymentsList     == Newest
InvoicesList     == Newest
StudentsList     == Newest
CertificatesList == Newest
ApplicationsList == Newest
CohortsList      == [by |-> "chosen", dir |-> "desc"]
PublishedList    == [by |-> "chosen", dir |-> "desc"]
OutstandingList  == [by |-> "chosen", dir |-> "asc"]

Lists ==
    [enrollments |-> EnrollmentsList, posts |-> PostsList, users |-> UsersList,
     approvals |-> ApprovalsList, payments |-> PaymentsList, invoices |-> InvoicesList,
     students |-> StudentsList, certificates |-> CertificatesList,
     applications |-> ApplicationsList, cohorts |-> CohortsList,
     publicPosts |-> PublishedList, outstanding |-> OutstandingList]

VARIABLES
    list,           \* the list somebody walks
    rows,           \* committed rows the list's filters let through: [id, key]
    tx,             \* the open transaction: its stamp and the rows it has inserted
    lastId,         \* UUIDv7 identifiers grow with time
    clock,
    cursor,         \* where the next page starts: at the start, after <<key, id>> or at the end
    seen,           \* the rows shown so far, in order
    staying         \* rows there when the walk began, and never moved or filtered since

vars == <<list, rows, tx, lastId, clock, cursor, seen, staying>>

Start == [at |-> "start"]
End   == [at |-> "end"]

Closed == [open |-> FALSE, stamp |-> 0, inserted |-> {}]

Init ==
    /\ list \in List
    /\ rows = {}
    /\ tx = Closed
    /\ lastId = 0
    /\ clock = 1
    /\ cursor = Start
    /\ seen = <<>>
    /\ staying = {}

-----------------------------------------------------------------------------
Walk == <<cursor, seen, staying>>

(* defaultNow(): the start of the transaction stamps every row of it. *)
Begin ==
    /\ ~tx.open
    /\ tx' = [open |-> TRUE, stamp |-> clock, inserted |-> {}]
    /\ UNCHANGED <<list, rows, lastId, clock, Walk>>

Insert ==
    /\ tx.open
    /\ lastId < MaxRows
    /\ \E key \in IF Lists[list].by = "stamp" THEN {tx.stamp} ELSE Chosen :
          tx' = [tx EXCEPT !.inserted = @ \cup {[id |-> lastId + 1, key |-> key]}]
    /\ lastId' = lastId + 1
    /\ UNCHANGED <<list, rows, clock, Walk>>

Commit ==
    /\ tx.open
    /\ rows' = rows \cup tx.inserted
    /\ tx' = Closed
    /\ UNCHANGED <<list, lastId, clock, Walk>>

Tick ==
    /\ clock < MaxClock
    /\ clock' = clock + 1
    /\ UNCHANGED <<list, rows, tx, lastId, Walk>>

(* Somebody edits the date a row is sorted by, or a row stops matching. *)
Move(r, key) ==
    /\ Lists[list].by = "chosen" /\ key # r.key
    /\ rows' = (rows \ {r}) \cup {[r EXCEPT !.key = key]}
    /\ staying' = staying \ {r}
    /\ UNCHANGED <<list, tx, lastId, clock, cursor, seen>>

Leave(r) ==
    /\ rows' = rows \ {r}
    /\ staying' = staying \ {r}
    /\ UNCHANGED <<list, tx, lastId, clock, cursor, seen>>

-----------------------------------------------------------------------------
Precedes(a, b) == a[1] < b[1] \/ (a[1] = b[1] /\ a[2] < b[2])

(* The order of the list: (key, id), ascending or descending. *)
After(a, b) == IF Lists[list].dir = "asc" THEN Precedes(b, a) ELSE Precedes(a, b)

SortKey(r) == <<r.key, r.id>>

(* Mutant: the cursor holds no identifier to break ties with. *)
EncodeKeyOnly(r) == <<r.key, IF Lists[list].dir = "asc" THEN MaxRows + 1 ELSE 0>>

(* encodeCursor of the row's key: a stamp loses what is below the millisecond. *)
EncodeCursor(r) ==
    IF Lists[list].by = "stamp" THEN <<(r.key \div Millisecond) * Millisecond, r.id>>
    ELSE SortKey(r)

AfterCursor(r) == cursor.at = "start" \/ After(SortKey(r), cursor.key)

(* ORDER BY the list's key and the identifier. *)
InOrder(read) ==
    CHOOSE s \in [1 .. Cardinality(read) -> read] :
        /\ ToSet(s) = read
        /\ \A j, k \in 1 .. Cardinality(read) :
              j < k => After(SortKey(s[k]), SortKey(s[j]))

(* toPage: limit + 1 rows are read, the extra one only says that there is more. *)
ToPage(read) ==
    LET hasMore == Len(read) > Limit
        items == IF hasMore THEN SubSeq(read, 1, Limit) ELSE read
    IN [items |-> items,
        nextCursor |-> IF hasMore THEN [at |-> "after", key |-> EncodeCursor(items[Limit])] ELSE End]

FetchPage ==
    /\ cursor # End
    /\ LET page == ToPage(InOrder({r \in rows : AfterCursor(r)}))
       IN /\ seen' = seen \o page.items
          /\ cursor' = page.nextCursor
    /\ staying' = IF cursor = Start THEN rows ELSE staying
    /\ UNCHANGED <<list, rows, tx, lastId, clock>>

Next ==
    \/ Begin \/ Insert \/ Commit \/ Tick
    \/ \E r \in rows : Leave(r) \/ \E key \in Chosen : Move(r, key)
    \/ FetchPage

Spec == Init /\ [][Next]_vars

-----------------------------------------------------------------------------
Skipped == staying \ ToSet(seen)

SameMillisecond(r, s) == r.key \div Millisecond = s.key \div Millisecond

(* A walk shows rows in the list's order, so that none comes twice at the same   *)
(* place, whatever is inserted, moved or filtered away between two pages, and    *)
(* its end has shown every row that was there all along; a list that is sorted   *)
(* by a stamp misses only rows stamped in the millisecond of a row it did show.  *)
PagesAreExact ==
    /\ \A k \in 1 .. Len(seen) - 1 : After(SortKey(seen[k + 1]), SortKey(seen[k]))
    /\ cursor = End =>
          \A r \in Skipped : /\ Lists[list].by = "stamp"
                             /\ \E s \in ToSet(seen) : SameMillisecond(r, s)

(* What the pagination test says of a walk: "walks every row exactly once,       *)
(* newest first".                                                               *)
WalksEveryRow == cursor = End => Skipped = {}

=============================================================================
