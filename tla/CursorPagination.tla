-------------------------- MODULE CursorPagination --------------------------
(***************************************************************************)
(* GET /tasks of the cursor pagination solution.  A client walks through   *)
(* the pages while other requests insert and delete tasks: every page is   *)
(* one statement, and a row is stamped when its INSERT starts but visible  *)
(* when it commits.                                                        *)
(***************************************************************************)
EXTENDS Integers, FiniteSets

CONSTANTS
    Ids,        \* identifiers that may be drawn, each once; UUIDs are ordered
    MaxTime,    \* last value of the database clock, in units of timestamp(6)
    MaxLimit    \* largest limit a page may be asked with

ASSUME PaginationAssumption ==
    /\ Ids \subseteq Nat /\ IsFiniteSet(Ids)
    /\ MaxTime \in Nat /\ MaxLimit \in Nat \ {0}

VARIABLES
    row,       \* of each id: "unused", "begun", "there" or "gone"
    at,        \* its created_at
    now,       \* CURRENT_TIMESTAMP
    walk,      \* the client: "idle", "on" or "done"
    position,  \* the cursor of its next request
    seen,      \* ids of the pages before the last one
    page,      \* ids of the last page
    steady     \* ids that have been there ever since the walk began

vars == <<row, at, now, walk, position, seen, page, steady>>

client == <<walk, position, seen, page>>

NoPosition == [has |-> FALSE, at |-> 0, id |-> 0]

There == {i \in Ids : row[i] = "there"}

Init ==
    /\ row = [i \in Ids |-> "unused"] /\ at = [i \in Ids |-> 0] /\ now = 0
    /\ walk = "idle" /\ position = NoPosition
    /\ seen = {} /\ page = {} /\ steady = {}

-----------------------------------------------------------------------------
(* Other requests *)

Tick ==
    /\ now < MaxTime /\ now' = now + 1
    /\ UNCHANGED <<row, at, client, steady>>

\* The INSERT starts and takes its stamp.
BeginCreate(i) ==
    /\ row[i] = "unused"
    /\ row' = [row EXCEPT ![i] = "begun"] /\ at' = [at EXCEPT ![i] = now]
    /\ UNCHANGED <<now, client, steady>>

\* It commits, or fails.
EndCreate(i) ==
    /\ row[i] = "begun"
    /\ \E s \in {"there", "gone"} : row' = [row EXCEPT ![i] = s]
    /\ UNCHANGED <<at, now, client, steady>>

Delete(i) ==
    /\ row[i] = "there"
    /\ row' = [row EXCEPT ![i] = "gone"] /\ steady' = steady \ {i}
    /\ UNCHANGED <<at, now, client>>

-----------------------------------------------------------------------------
(* The walk *)

\* (created_at, id) < (created_at, id) of two rows.
Before(i, j) == at[i] < at[j] \/ (at[i] = at[j] /\ i < j)

\* The WHERE clause of listTasksSQL.
AfterPosition(i, p) == p.has => at[i] > p.at \/ (at[i] = p.at /\ i > p.id)

\* ORDER BY created_at, id LIMIT n.
First(rows, n) == {i \in rows : Cardinality({j \in rows : Before(j, i)}) < n}

LastOf(rows) == CHOOSE i \in rows : \A j \in rows : i = j \/ Before(j, i)

\* A stamp written with no digits below a unit.
Format(t, unit) == t - (t % unit)

\* Defect: the cursor is written with fewer digits than the column has.
encodeCoarse(i) == [has |-> TRUE, at |-> Format(at[i], 2), id |-> i]

\* encodeCursor then decodeCursor: the format writes six digits and cuts the rest,
\* and a unit of the column's timestamp(6) is one of the last digit.
encodeCursor(i) == [has |-> TRUE, at |-> Format(at[i], 1), id |-> i]

\* Defect: the cursor is that of the row that shows there is another page.
ListSkipping(limit) ==
    /\ walk = "on"
    /\ LET items == First({i \in There : AfterPosition(i, position)}, limit + 1)
           more  == Cardinality(items) > limit
       IN /\ seen' = seen \cup page /\ page' = First(items, limit)
          /\ position' = IF more THEN encodeCursor(LastOf(items)) ELSE position
          /\ walk' = IF more THEN "on" ELSE "done"
    /\ UNCHANGED <<row, at, now, steady>>

\* Defect: every page has a cursor.
ListEndless(limit) ==
    /\ walk = "on"
    /\ LET items == First({i \in There : AfterPosition(i, position)}, limit + 1)
       IN /\ seen' = seen \cup page /\ page' = First(items, limit)
          /\ position' = IF items # {} THEN encodeCursor(LastOf(page')) ELSE position
    /\ UNCHANGED <<row, at, now, walk, steady>>

\* Service.List: one row more than asked for shows whether a page follows.  The
\* client goes on as long as it gets a nextCursor.
List(limit) ==
    /\ walk = "on"
    /\ LET items == First({i \in There : AfterPosition(i, position)}, limit + 1)
           more  == Cardinality(items) > limit
       IN /\ seen' = seen \cup page /\ page' = First(items, limit)
          /\ position' = IF more THEN encodeCursor(LastOf(page')) ELSE position
          /\ walk' = IF more THEN "on" ELSE "done"
    /\ UNCHANGED <<row, at, now, steady>>

\* The first request, without a cursor, is about to be sent.
StartWalk ==
    /\ walk = "idle" /\ walk' = "on" /\ steady' = There
    /\ UNCHANGED <<row, at, now, position, seen, page>>

Walk == \E limit \in 1..MaxLimit : List(limit)

Others == Tick \/ \E i \in Ids : BeginCreate(i) \/ EndCreate(i) \/ Delete(i)

Finished == walk = "done" /\ UNCHANGED vars

Next == StartWalk \/ Walk \/ Others \/ Finished

\* The client sends its next request; the others do what they like.
Spec == Init /\ [][Next]_vars /\ WF_vars(Walk)

-----------------------------------------------------------------------------
(* Properties *)

\* Every row of a page comes after every row of the pages before it, so that none
\* is returned twice, although rows with the same stamp, or an earlier one, appear
\* while the client walks and the limit changes from page to page.
PagesAscend == \A i \in page : \A j \in seen : Before(j, i)

\* A row that is there during the whole walk is never skipped: it was returned or
\* is still ahead of the cursor, and when no nextCursor is given it was returned.
NoRowSkipped ==
    /\ walk = "on" => \A i \in steady : i \in seen \cup page \/ AfterPosition(i, position)
    /\ walk = "done" => steady \subseteq seen \cup page

\* A client that follows nextCursor comes to a page without one, unless rows are
\* inserted for ever.
WalkEnds == walk = "on" ~> walk = "done"

-----------------------------------------------------------------------------
(* The inductive invariant *)

TypeOK ==
    /\ row \in [Ids -> {"unused", "begun", "there", "gone"}]
    /\ at \in [Ids -> Nat] /\ now \in Nat
    /\ walk \in {"idle", "on", "done"} /\ position \in [has : BOOLEAN, at : Nat, id : Nat]
    /\ seen \subseteq Ids /\ page \subseteq Ids /\ steady \subseteq Ids

\* A row that was returned, or counts as steady, keeps the stamp it was sorted by.
Stamped ==
    /\ \A i \in seen \cup page : row[i] \in {"there", "gone"}
    /\ steady \subseteq There

\* What was returned is not ahead of the cursor.
Behind ==
    /\ walk = "idle" => ~position.has
    /\ walk # "done" /\ ~position.has => seen = {} /\ page = {}
    /\ walk = "on" /\ position.has => \A i \in seen \cup page : ~AfterPosition(i, position)

WalkInv == TypeOK /\ Stamped /\ Behind /\ PagesAscend /\ NoRowSkipped

=============================================================================
