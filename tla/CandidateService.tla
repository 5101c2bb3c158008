------------------------- MODULE CandidateService --------------------------
(***************************************************************************)
(* What a candidate answers to one HTTP request: the reference solutions   *)
(* of fixtures/task-solutions (fault "none") and the broken candidates the *)
(* evaluator is meant to reject.  A request is served from the rows of the *)
(* table and leaves rows and a reply.  Titles are names, a padded title is *)
(* a name of its own; instants are numbers; a dueAt is the name of an      *)
(* instant; a cursor is the position it encodes.                           *)
(***************************************************************************)
EXTENDS Integers, Sequences, TLC

TaskBaseline   == "baseline-service"
TaskNullable   == "nullable-patch"
TaskLocking    == "optimistic-locking"
TaskPagination == "cursor-pagination"
Tasks == {TaskBaseline, TaskNullable, TaskLocking, TaskPagination}

\* Candidates that break what only one task asks for, and those that break
\* what every task asks for.
FaultsOf(task) ==
    {"none", "reversed list", "unexpected member", "wrong problem",
     "untyped problem", "unpersisted create", "unknown member accepted",
     "title kept padded", "delete ignored"}
    \cup CASE task = TaskNullable ->
                {"omitted clears", "null ignored", "offset kept"}
           [] task = TaskLocking ->
                {"version ignored", "check then write", "stale ETag"}
           [] task = TaskPagination ->
                {"boundary repeated", "ties skipped", "cursor cycles",
                 "null cursor", "cursor on full page", "limit unchecked"}
           [] OTHER -> {}

-----------------------------------------------------------------------------
(* Requests and replies *)

NoLimit   == -100     \* the parameter is absent
NotANumber == -101
BadId     == -1       \* not a UUID
UnknownId == 0        \* ffffffff-ffff-4fff-8fff-ffffffffffff
NoHeader  == -1       \* no If-Match; 0 is a malformed one, n the ETag "n"

NoCursor == [kind |-> "absent", pos |-> <<0, 0>>]
CursorAt(pos) == [kind |-> "at", pos |-> pos]

\* A body of a write; a member that is not in it is "absent".
Body(title)          == [title |-> title, dueAt |-> "absent", extra |-> FALSE]
WithDueAt(body, due) == [body EXCEPT !.dueAt = due]
WithExtra(body)      == [body EXCEPT !.extra = TRUE]

Request(method) == [method |-> method, id |-> UnknownId, body |-> Body("absent"),
                    ifMatch |-> NoHeader, limit |-> NoLimit, cursor |-> NoCursor]

NoReply == [status |-> 0, media |-> "", exact |-> TRUE, items |-> <<>>,
            cursor |-> NoCursor, etag |-> 0]

Problem(fault, status) ==
    [NoReply EXCEPT !.status = status,
                    !.media  = IF fault = "untyped problem" THEN "application/json"
                               ELSE "application/problem+json",
                    !.exact  = fault # "wrong problem"]

Represent(task, fault, row) ==
    [id |-> row.id, title |-> row.title, createdAt |-> row.createdAt,
     dueAt   |-> IF task # TaskNullable THEN "missing"
                 ELSE IF fault = "offset kept" /\ row.dueAt # "null" THEN "with offset"
                 ELSE row.dueAt,
     version |-> IF task = TaskLocking THEN row.version ELSE 0,
     extra   |-> fault = "unexpected member"]

Json(task, fault, status, rows) ==
    [NoReply EXCEPT !.status = status, !.media = "application/json",
                    !.items = [i \in DOMAIN rows |-> Represent(task, fault, rows[i])],
                    !.etag = IF task = TaskLocking /\ Len(rows) = 1
                             THEN rows[1].version ELSE 0]

-----------------------------------------------------------------------------
(* The table, as the sequence of its rows in the order of insertion *)

Row(id, title, createdAt) ==
    [id |-> id, title |-> title, createdAt |-> createdAt, dueAt |-> "null", version |-> 1]

Position(row) == <<row.createdAt, row.id>>
Before(p, q)  == p[1] < q[1] \/ (p[1] = q[1] /\ p[2] < q[2])

Find(table, id)    == SelectSeq(table, LAMBDA row : row.id = id)
Without(table, id) == SelectSeq(table, LAMBDA row : row.id # id)
Update(table, new) == [i \in DOMAIN table |-> IF table[i].id = new.id THEN new ELSE table[i]]
InOrder(table)     == SortSeq(table, LAMBDA a, b : Before(Position(a), Position(b)))

-----------------------------------------------------------------------------
(* Handlers: each gives the table it leaves and the reply *)

Left(table, reply) == [table |-> table, reply |-> reply]

\* normalizeTitle: what is stored for a title, "invalid" where it is refused.
Trim == ("  greeting  " :> "greeting") @@ ("  world  " :> "world")
        @@ ("  changed  " :> "changed") @@ ("  final  " :> "final")
        @@ ("  persisted  " :> "persisted")
normalizeTitle(fault, title) ==
    IF title \in {"absent", "null", "blank", "201 runes"} THEN "invalid"
    ELSE IF title \in DOMAIN Trim /\ fault # "title kept padded" THEN Trim[title]
    ELSE title

\* decodeJSON with DisallowUnknownFields.
Undecodable(fault, body, known) ==
    /\ fault # "unknown member accepted"
    /\ body.extra \/ (body.dueAt # "absent" /\ ~known)

createTask(task, fault, table, req, now) ==
    LET title == normalizeTitle(fault, req.body.title)
        row   == Row(now, title, now)
    IN  IF Undecodable(fault, req.body, FALSE) \/ title = "invalid"
        THEN Left(table, Problem(fault, 400))
        ELSE Left(IF fault = "unpersisted create" THEN table ELSE Append(table, row),
                  Json(task, fault, 201, <<row>>))

getTask(task, fault, table, req) ==
    Left(table, IF req.id = BadId THEN Problem(fault, 400)
                ELSE IF Find(table, req.id) = <<>> THEN Problem(fault, 404)
                ELSE Json(task, fault, 200, Find(table, req.id)))

deleteTask(fault, table, req) ==
    IF Find(table, req.id) = <<>> THEN Left(table, Problem(fault, 404))
    ELSE Left(IF fault = "delete ignored" THEN table ELSE Without(table, req.id),
              [NoReply EXCEPT !.status = 204])

\* What the service makes of the rows after the cursor; a row too many says
\* that there is another page.
PageOf(task, fault, rest, limit) ==
    LET items == SubSeq(rest, 1, IF Len(rest) < limit THEN Len(rest) ELSE limit)
        more  == \/ Len(rest) > limit
                 \/ Len(rest) = limit /\ fault = "cursor on full page"
    IN  [Json(task, fault, 200, items) EXCEPT
            !.etag = 0,
            !.cursor = IF more THEN CursorAt(Position(rest[limit]))
                       ELSE IF fault = "null cursor" THEN [NoCursor EXCEPT !.kind = "null"]
                       ELSE IF fault = "cursor cycles" THEN CursorAt(<<0, Len(rest)>>)
                       ELSE NoCursor]

\* List of the service: the limit and the cursor are checked, then the rows
\* after the cursor are read.
Page(task, fault, table, req) ==
    LET limit  == IF req.limit = NoLimit THEN 20 ELSE req.limit
        After(row) ==
            \/ req.cursor.kind = "absent"
            \/ Before(req.cursor.pos, Position(row)) /\ fault # "ties skipped"
            \/ req.cursor.pos[1] < row.createdAt
            \/ req.cursor.pos = Position(row) /\ fault = "boundary repeated"
    IN  IF \/ limit \notin 1 .. 100 /\ (fault # "limit unchecked" \/ limit < 1)
           \/ req.cursor.kind = "malformed"
        THEN Problem(fault, 400)
        ELSE PageOf(task, fault, SelectSeq(InOrder(table), After), limit)

Turned(fault, reply) ==
    IF fault = "reversed list"
    THEN [reply EXCEPT !.items = [i \in DOMAIN @ |-> @[Len(@) + 1 - i]]]
    ELSE reply

listTasks(task, fault, table, req) ==
    Left(table, Turned(fault, IF task = TaskPagination THEN Page(task, fault, table, req)
                              ELSE [Json(task, fault, 200, InOrder(table)) EXCEPT !.etag = 0]))

\* updateTask: the order of the checks is If-Match, body, row, version.
updateTask(task, fault, table, req) ==
    LET title == normalizeTitle(fault, req.body.title)
        row   == Find(table, req.id)[1]
        new   == [row EXCEPT !.title = title, !.version = @ + 1]
        reply == Json(task, fault, 200, <<new>>)
    IN  CASE req.ifMatch = NoHeader -> Left(table, Problem(fault, 428))
          [] req.ifMatch = 0 \/ Undecodable(fault, req.body, FALSE) \/ title = "invalid"
               -> Left(table, Problem(fault, 400))
          [] OTHER ->
               IF Find(table, req.id) = <<>> THEN Left(table, Problem(fault, 404))
               ELSE IF row.version # req.ifMatch /\ fault # "version ignored"
               THEN Left(table, Problem(fault, 412))
               ELSE Left(Update(table, new),
                         IF fault = "stale ETag" THEN [reply EXCEPT !.etag = row.version]
                         ELSE reply)

\* patchTask: a member that is present is stored, also when it is null.
patchTask(task, fault, table, req) ==
    LET body  == req.body
        title == normalizeTitle(fault, body.title)
        row   == Find(table, req.id)[1]
        due   == CASE body.dueAt = "absent" ->
                        IF fault = "omitted clears" THEN "null" ELSE row.dueAt
                   [] body.dueAt = "null" /\ fault = "null ignored" -> row.dueAt
                   [] OTHER -> body.dueAt
        new   == [row EXCEPT !.title = IF body.title = "absent" THEN @ ELSE title,
                             !.dueAt = due]
    IN  IF \/ Undecodable(fault, body, TRUE)
           \/ body.title = "absent" /\ body.dueAt = "absent"
           \/ body.title # "absent" /\ title = "invalid"
           \/ body.dueAt = "not-a-timestamp"
        THEN Left(table, Problem(fault, 400))
        ELSE IF Find(table, req.id) = <<>> THEN Left(table, Problem(fault, 404))
        ELSE Left(Update(table, new), Json(task, fault, 200, <<new>>))

Serve(task, fault, table, req, now) ==
    CASE req.method = "POST"   -> createTask(task, fault, table, req, now)
      [] req.method = "GET"    -> getTask(task, fault, table, req)
      [] req.method = "LIST"   -> listTasks(task, fault, table, req)
      [] req.method = "DELETE" -> deleteTask(fault, table, req)
      [] req.method = "PUT"    -> updateTask(task, fault, table, req)
      [] req.method = "PATCH"  -> patchTask(task, fault, table, req)

=============================================================================
