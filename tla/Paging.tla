------------------------------- MODULE Paging -------------------------------
(***************************************************************************)
(* A list read page by page while rows are created and deleted: the list   *)
(* of the SQL adapters (a query with a cursor clause, ORDER BY and LIMIT)  *)
(* and of the memory adapter (the sorted rows, sliced after the cursor),   *)
(* with the ways in which callers continue.                                *)
(*                                                                         *)
(* Ids are random, so the order of the ids says nothing of the order of    *)
(* creation; rows created in one millisecond have one createdAt.           *)
(***************************************************************************)
EXTENDS Integers, FiniteSets, FiniteSetsExt

CONSTANTS
    Ids,        \* the ids a row may be given, each once
    PageSize,   \* the limit of the query
    MaxClock,   \* bound on the clock
    PerHour,    \* ticks of the clock in one hour
    Walks       \* the ways to continue that are looked at

\* "memory": the cursor of the memory adapter, id and createdAt in one.
\* "keyset": the SQL adapters, given the createdAt that goes with the id.
\* "id":     the SQL adapters, given nextCursor as it is: an id.
\* "pages":  the SQL adapters, by page number.
\* "log":    the audit log in memory; "hours": the audit log in a table.  Their
\*           cursor is createdAt:id, read back up to its first colon, which is
\*           the one after the hour; the id is what comes behind.
WalkKinds == {"memory", "keyset", "id", "pages", "log", "hours"}

ASSUME PagingAssumption == /\ Ids \subseteq Int
                           /\ IsFiniteSet(Ids)
                           /\ PageSize \in Nat \ {0}
                           /\ MaxClock \in Nat
                           /\ PerHour \in Nat \ {0}
                           /\ Walks \subseteq WalkKinds

VARIABLES
    rows,       \* the rows stored
    used,       \* the ids given so far
    createdAt,  \* of each row
    clock,
    walk,       \* how this walk continues
    phase,      \* "ready", "walking" or "done"
    cursor,     \* the last row of the page before, NoCursor at first
    page,       \* the number of pages read, for a reader who counts them
    seen,       \* rows returned so far
    again,      \* rows returned more than once
    due,        \* rows stored ever since the walk began
    added,      \* rows created since the walk began
    removed     \* rows deleted since the walk began

table == <<rows, used, createdAt>>
reader == <<walk, phase, cursor, page, seen, again>>
pagingVars == <<table, clock, reader, due, added, removed>>

CONSTANT NoCursor   \* no row
ASSUME NoCursorAssumption == NoCursor \notin Ids

PagingInit == /\ rows = {}
              /\ used = {}
              /\ createdAt = [i \in Ids |-> 0]
              /\ clock = 0
              /\ walk \in Walks
              /\ phase = "ready"
              /\ cursor = NoCursor
              /\ page = 0
              /\ seen = {}
              /\ again = {}
              /\ due = {}
              /\ added = {}
              /\ removed = {}

-----------------------------------------------------------------------------
(* Writers. *)

AddRow(r) == /\ r \notin used
             /\ rows' = rows \cup {r}
             /\ used' = used \cup {r}
             /\ createdAt' = [createdAt EXCEPT ![r] = clock]
             /\ added' = IF phase = "walking" THEN added \cup {r} ELSE added
             /\ UNCHANGED <<clock, reader, due, removed>>

RemoveRow(r) == /\ r \in rows
                /\ rows' = rows \ {r}
                /\ due' = due \ {r}
                /\ removed' = IF phase = "walking" THEN removed \cup {r} ELSE removed
                /\ UNCHANGED <<used, createdAt, clock, reader, added>>

TickClock == /\ clock < MaxClock
             /\ clock' = clock + 1
             /\ UNCHANGED <<table, reader, due, added, removed>>

-----------------------------------------------------------------------------
(* One page. *)

\* ORDER BY created_at DESC, id DESC of the SQL adapters.
NewestFirst(a, b) == \/ createdAt[a] > createdAt[b]
                     \/ createdAt[a] = createdAt[b] /\ a > b

\* The default order of the memory adapter.
OldestFirst(a, b) == \/ createdAt[a] < createdAt[b]
                     \/ createdAt[a] = createdAt[b] /\ a < b

Precedes(a, b) == IF walk = "memory" THEN OldestFirst(a, b) ELSE NewestFirst(a, b)

Hour(r) == createdAt[r] \div PerHour

(* Variants with a bug, for comparison. *)

\* The keyset without its tie-break.
AfterKeysetByTimeOnly(r) == createdAt[cursor] > createdAt[r]

\* The audit cursor split at a dash: nothing is less than its year.
AfterYear(r) == FALSE

(* The code. *)

\* cursorClause: the keyset needs both columns.
AfterKeyset(r) == NewestFirst(cursor, r)

\* An id alone continues with the greater ids, whatever the order of the rows.
AfterId(r) == r > cursor

\* A time cut off after the hour is less than every time within it.
AfterHour(r) == Hour(r) < Hour(cursor)

\* cursorStart: the row of the cursor is looked for and the page begins behind it;
\* not found is index -1, and the slice starts over.
AfterFound(r) == cursor \in rows => OldestFirst(cursor, r)

\* The audit log in memory looks for an id with the rest of the time before it,
\* and finds none.
NeverFound(r) == TRUE

AfterCursor(r) ==
    CASE walk = "keyset" -> AfterKeyset(r)
      [] walk = "id" -> AfterId(r)
      [] walk = "hours" -> AfterHour(r)
      [] walk = "memory" -> AfterFound(r)
      [] walk = "log" -> NeverFound(r)
      [] walk = "pages" -> TRUE

Selected == {r \in rows : cursor # NoCursor => AfterCursor(r)}

Rank(r, S) == Cardinality({q \in S : Precedes(q, r)})

\* OFFSET and LIMIT, or slice(start, start + limit).
Skipped == IF walk = "pages" THEN page * PageSize ELSE 0

PageItems == {r \in Selected : Rank(r, Selected) \in Skipped .. Skipped + PageSize - 1}

HasMore == Cardinality(Selected) > Skipped + PageSize

LastItem == CHOOSE r \in PageItems : \A q \in PageItems : q = r \/ Precedes(q, r)

BeginWalk == /\ phase = "ready"
             /\ phase' = "walking"
             /\ due' = rows
             /\ UNCHANGED <<table, clock, walk, cursor, page, seen, again, added, removed>>

\* do { list(cursor) } while (nextCursor).
ReadPage == /\ phase = "walking"
            /\ seen' = seen \cup PageItems
            /\ again' = again \cup (seen \cap PageItems)
            /\ page' = IF walk = "pages" THEN page + 1 ELSE page
            /\ phase' = IF HasMore THEN phase ELSE "done"
            /\ cursor' = IF HasMore THEN LastItem ELSE cursor
            /\ UNCHANGED <<table, clock, walk, due, added, removed>>

PagingNext == \/ \E r \in Ids : AddRow(r) \/ RemoveRow(r)
              \/ TickClock
              \/ BeginWalk
              \/ ReadPage

PagingSpec == PagingInit /\ [][PagingNext]_pagingVars
-----------------------------------------------------------------------------

PagingTypeOK == /\ rows \subseteq used
                /\ used \subseteq Ids
                /\ createdAt \in [Ids -> 0..MaxClock]
                /\ clock \in 0..MaxClock
                /\ walk \in Walks
                /\ phase \in {"ready", "walking", "done"}
                /\ cursor \in Ids \cup {NoCursor}
                /\ page \in Nat
                /\ \A S \in {seen, again, due, added, removed} : S \subseteq used

\* The walks that Listing is promised for; the others do nothing it can see.
Promised == walk \in {"memory", "keyset"}

L == INSTANCE Listing WITH phase <- IF Promised THEN phase ELSE "ready",
                           due <- IF Promised THEN due ELSE {},
                           seen <- IF Promised THEN seen ELSE {}

\* Following the cursors of the memory adapter, or of an SQL adapter with both
\* columns of the key (adapter-kit cursorClause, query.ts cursorStart), returns
\* every row that was there from the first page to the last, whatever is
\* created or deleted in between, also at the cursor itself.
WalkImplementsListing == L!Spec

\* A row comes twice only for a reason: a deletion at the cursor sends the
\* memory adapter back to the first page, rows created in between shift the
\* numbered pages; the keyset never repeats a row.
RepeatsAreExplained ==
    /\ walk = "keyset" => again = {}
    /\ walk = "memory" /\ again # {} => removed \cap seen # {}
    /\ walk = "pages" => Cardinality(again) <= Cardinality(added)

\* The audit log's cursor has lost its minutes: in memory every page is the first
\* one again, in a table a walk leaves out entries of an hour in which a page
\* ended, and no others (audit store/memory.ts, store/drizzle.ts decodeCursor).
AuditCursorIsCutShort ==
    /\ walk = "log" /\ added \cup removed = {} => Cardinality(seen) <= PageSize
    /\ walk = "hours" /\ phase = "done" =>
           \A d \in due \ seen : \E s \in seen : Hour(s) = Hour(d)

\* Numbered pages lose at most as many rows as were deleted between two pages.
PagesMissAtMostTheDeleted ==
    walk = "pages" /\ phase = "done" => Cardinality(due \ seen) <= Cardinality(removed)

\* The walks that Listing is not promised for go wrong in these ways only.
OddWalksAreExplained ==
    RepeatsAreExplained /\ AuditCursorIsCutShort /\ PagesMissAtMostTheDeleted

\* The walks inside the CMS (which assets are in use, which records to
\* translate) pass nextCursor on as it is and are to meet every record that
\* was there all along.
WalkIsComplete == phase = "done" => due \subseteq seen
=============================================================================
