--------------------------- MODULE BehaviorCases ---------------------------
(***************************************************************************)
(* The behavior cases of the hidden evaluator, run in the order of the     *)
(* registry against a candidate that is the reference solution or one of   *)
(* a family of broken ones.  A case is written as the Go function is: a    *)
(* chain of requests, queries and checks over the state of the suite that  *)
(* stops at its first error.  The suite is one client, so a case is one    *)
(* step, except the case whose two PUTs are in flight together.            *)
(***************************************************************************)
EXTENDS CandidateService, SequencesExt

CONSTANTS
    Trials,    \* the candidates to run against, each with the set of requests,
               \* by ordinal, that get no answer in 5 s, and their delay
    MaxPages   \* pages after which collectPages gives up (100 in the code)

ASSUME CasesAssumption ==
    /\ \A t \in Trials : t.outage \subseteq Nat /\ t.delay \in Nat
    /\ MaxPages \in Nat \ {0}

VARIABLES
    task,      \* options.Task
    fault,     \* what is wrong with the candidate
    outage,    \* the requests that get no answer
    delay,     \* how many requests later the candidate handles them all the same:
               \* at once for 0, never when no request is that late
    next,      \* index of the case that runs next
    suite,     \* rows of the table, createdID, requests sent so far, those that
               \* are still to be handled, and of the running case the error
               \* state, the last reply and whether a late request disturbed it
    race,      \* the two PUTs of the concurrent case
    results    \* the cases so far: verdict, the requests they sent, disturbance

candidate == <<task, fault, outage, delay>>
vars == <<candidate, next, suite, race, results>>

-----------------------------------------------------------------------------
(* Requests and checks.  After an error everything is skipped: the case has *)
(* returned.                                                                *)

\* The time of the request that was sent last.
Now(s) == 1000 + 2 * s.sent

\* A request whose client is gone is handled after all, in the midst of a later
\* case: after the TRUNCATE before that case, if there is one.
Disturb(s, table) ==
    [s EXCEPT !.table = table, !.pending = Tail(@), !.disturbed = @ \/ table # s.table]
Late(s) ==
    IF s.pending = <<>> \/ Head(s.pending).at # s.sent THEN s
    ELSE Disturb(s, Serve(task, fault, s.table, Head(s.pending).req, Now(s) - 1).table)

\* client.Do: no answer within the timeout is an error, whether or not the
\* candidate has handled the request, or ever will.
Receive(s, req, done) ==
    IF s.sent \notin outage
    THEN [s EXCEPT !.table = done.table, !.reply = done.reply]
    ELSE [s EXCEPT !.ok = FALSE, !.reply = NoReply,
                   !.table   = IF delay = 0 THEN done.table ELSE @,
                   !.pending = IF delay = 0 THEN @
                               ELSE Append(@, [at |-> s.sent + delay, req |-> req])]

Answer(s, req) == Receive(s, req, Serve(task, fault, s.table, req, Now(s)))
Send(s, req)   == IF s.ok THEN Answer(Late([s EXCEPT !.sent = @ + 1]), req) ELSE s

Require(s, condition) == IF s.ok /\ ~condition THEN [s EXCEPT !.ok = FALSE] ELSE s

\* A statement of the suite's own connection.
Store(s, rows) == IF s.ok THEN [s EXCEPT !.table = @ \o rows] ELSE s
reset(s)       == IF s.ok THEN [s EXCEPT !.table = <<>>] ELSE s
NoRow          == [id |-> UnknownId, title |-> "no row", createdAt |-> 0,
                   dueAt |-> "no row", version |-> 0]
Stored(s, id)  == IF Find(s.table, id) = <<>> THEN NoRow ELSE Find(s.table, id)[1]

Post(s, body)   == Send(s, [Request("POST") EXCEPT !.body = body])
Get(s, id)      == Send(s, [Request("GET") EXCEPT !.id = id])
Delete(s, id)   == Send(s, [Request("DELETE") EXCEPT !.id = id])
Put(s, id, ifMatch, body) ==
    Send(s, [Request("PUT") EXCEPT !.id = id, !.ifMatch = ifMatch, !.body = body])
Patch(s, id, body) == Send(s, [Request("PATCH") EXCEPT !.id = id, !.body = body])
List(s, limit, cursor) ==
    Send(s, [Request("LIST") EXCEPT !.limit = limit, !.cursor = cursor])

expectStatusAndType(s, status) ==
    Require(s, s.reply.status = status /\ s.reply.media = "application/json")

expectProblemResponse(s, status) ==
    Require(s, /\ s.reply.status = status
               /\ s.reply.media = "application/problem+json" /\ s.reply.exact)

\* No member too many.
decodeExact(value) == ~value.extra

\* The members of the task that was selected, and of no other.
validateTaskValue(value) ==
    /\ decodeExact(value)
    /\ (value.dueAt # "missing") = (task = TaskNullable)
    /\ (value.version >= 1) = (task = TaskLocking)

\* The task, or the list, of a reply with the given status.
decodeTask(s, status) ==
    LET a == expectStatusAndType(s, status) IN
    Require(a, Len(a.reply.items) = 1 /\ validateTaskValue(a.reply.items[1]))
decodeTaskList(s) ==
    LET a == expectStatusAndType(s, 200) IN
    Require(a, /\ \A i \in DOMAIN a.reply.items : validateTaskValue(a.reply.items[i])
               /\ task = TaskPagination \/ a.reply.cursor.kind = "absent")

\* The value a decode call returned; the zero task after an error.
Got(s)  == IF s.reply.items = <<>> THEN Represent(task, fault, Row(UnknownId, "", 0))
           ELSE s.reply.items[1]

checkTaskIDs(items, ids) ==
    Len(items) = Len(ids) /\ \A i \in DOMAIN ids : items[i].id = ids[i]

-----------------------------------------------------------------------------
(* Baseline and contract cases *)

createValid(s) ==
    LET a == decodeTask(Post(s, Body("  greeting  ")), 201)
        b == Require(a, Got(a).title = "greeting")
    IN  IF b.ok THEN [b EXCEPT !.createdID = Got(b).id] ELSE b

createInvalidTitle(s) ==
    LET a == expectProblemResponse(Post(s, Body("blank")), 400) IN
    expectProblemResponse(Post(a, Body("201 runes")), 400)

\* A case that needs the created task fails without a request when there is none.
Created(s) == Require(s, s.createdID # UnknownId)

getExisting(s) ==
    LET a == decodeTask(Get(Created(s), s.createdID), 200) IN
    Require(a, Got(a).id = s.createdID /\ Got(a).title = "greeting")

getNotFound(s) == expectProblemResponse(Get(s, UnknownId), 404)

listOrdered(s) ==
    LET a == Store(s, <<Row(2, "tie two", 0), Row(1, "tie one", 0)>>)
        b == decodeTaskList(List(a, NoLimit, NoCursor))
    IN  Require(b, checkTaskIDs(b.reply.items, <<1, 2, s.createdID>>))

deleteExisting(s) ==
    LET a == Delete(Created(s), s.createdID) IN Require(a, a.reply.status = 204)

deleteAgainNotFound(s) == expectProblemResponse(Delete(Created(s), s.createdID), 404)

openapiConformance(s) ==
    LET a == decodeTaskList(List(s, NoLimit, NoCursor)) IN
    expectProblemResponse(Post(a, WithExtra(Body("ok"))), 400)

problemDetails(s) ==
    LET a == expectProblemResponse(Get(s, BadId), 400) IN
    expectProblemResponse(Get(a, UnknownId), 404)

databaseConsistency(s) ==
    LET a  == decodeTask(Post(s, Body("  persisted  ")), 201)
        id == Got(a).id
        b  == Require(a, /\ Stored(a, id).title = Got(a).title
                         /\ Stored(a, id).createdAt = Got(a).createdAt)
        c  == Delete(b, id)
        d  == Require(c, c.reply.status = 204)
    IN  Require(d, Find(d.table, id) = <<>>)

-----------------------------------------------------------------------------
(* Nullable PATCH *)

createNullable(s, title)   == decodeTask(Post(s, Body(title)), 201)
patchNullable(s, id, body) == decodeTask(Patch(s, id, body), 200)
Due == WithDueAt(Body("absent"), "2030-01-02")      \* nullableSetInput

\* dueAtValue: null, or a canonical timestamp.
dueAtValue(value, want) == value.dueAt = want

SameTask(a, b) == a.id = b.id /\ a.createdAt = b.createdAt

compareNullableState(s, before, title, due) ==
    Require(s, /\ SameTask(Got(s), before) /\ Got(s).title = title
               /\ dueAtValue(Got(s), due))

expectNullableStored(s, title, due) ==
    LET row == Stored(s, Got(s).id) IN
    Require(s, /\ Got(s).title = title /\ dueAtValue(Got(s), due)
               /\ row.title = title /\ row.dueAt = due)

nullableInitialNull(s) ==
    LET a == createNullable(s, "new task")
        b == Require(a, dueAtValue(Got(a), "null") /\ Stored(a, Got(a).id).dueAt = "null")
        c == decodeTask(Get(Store(b, <<Row(1, "existing", Now(b))>>), 1), 200)
    IN  Require(c, dueAtValue(Got(c), "null"))

expectRowCount(s, want) == Require(s, Len(s.table) = want)

nullablePostRejectsDueAt(s) ==
    LET Refused(t, due) ==
            expectProblemResponse(Post(t, WithDueAt(Body("task"), due)), 400)
        a == Refused(Refused(s, "null"), "2030-01-01")
    IN  expectRowCount(a, 0)

\* The created task is given a due date.
Dated(a) == patchNullable(a, Got(a).id, Due)

nullableOmittedPreserves(s) ==
    LET a == createNullable(s, "original")
        b == Dated(a)
        c == patchNullable(b, Got(a).id, Body("changed"))
    IN  compareNullableState(c, Got(b), "changed", "2030-01-02")

nullableNullClears(s) ==
    LET a == createNullable(s, "original")
        b == patchNullable(Dated(a), Got(a).id, WithDueAt(Body("absent"), "null"))
    IN  Require(b, /\ dueAtValue(Got(b), "null")
                   /\ SameTask(Got(b), Got(a)) /\ Got(b).title = Got(a).title
                   /\ Stored(b, Got(a).id).dueAt = "null")

nullableValueSets(s) ==
    expectNullableStored(Dated(createNullable(s, "original")), "original", "2030-01-02")

nullableTitleOnly(s) ==
    LET a == createNullable(s, "original")
        b == Dated(a)
        c == patchNullable(b, Got(a).id, Body("  world  "))
    IN  expectNullableStored(compareNullableState(c, Got(b), "world", "2030-01-02"),
                             "world", "2030-01-02")

nullableBothFields(s) ==
    LET a == createNullable(s, "original")
        b == patchNullable(a, Got(a).id, WithDueAt(Body("  changed  "), "2030-01-02"))
        c == Require(b, SameTask(Got(b), Got(a)))
    IN  expectNullableStored(c, "changed", "2030-01-02")

nullableRejectedWithoutMutation(s, body) ==
    LET a == createNullable(s, "original")
        b == Dated(a)
        c == expectProblemResponse(Patch(b, Got(a).id, body), 400)
        d == decodeTask(Get(c, Got(a).id), 200)
    IN  compareNullableState(d, Got(b), "original", "2030-01-02")

nullableEmptyRejected(s)        == nullableRejectedWithoutMutation(s, Body("absent"))
nullableUnknownFieldRejected(s) == nullableRejectedWithoutMutation(s, WithExtra(Body("changed")))
nullableTitleNullRejected(s)    == nullableRejectedWithoutMutation(s, Body("null"))
nullableInvalidTimestamp(s) ==
    nullableRejectedWithoutMutation(s, WithDueAt(Body("absent"), "not-a-timestamp"))

nullableInvalidTitle(s) ==
    LET a == reset(nullableRejectedWithoutMutation(s, Body("blank"))) IN
    reset(nullableRejectedWithoutMutation(a, Body("201 runes")))

nullableUnknownTask(s) ==
    expectProblemResponse(Patch(s, UnknownId, Body("changed")), 404)

nullableGetConsistent(s) ==
    LET a == createNullable(s, "original")
        b == patchNullable(a, Got(a).id, WithDueAt(Body("  final  "), "2030-01-02"))
        c == decodeTask(Get(b, Got(a).id), 200)
    IN  expectNullableStored(compareNullableState(c, Got(b), "final", "2030-01-02"),
                             "final", "2030-01-02")

-----------------------------------------------------------------------------
(* Optimistic locking; a version is at once the ETag that spells it *)

createLocking(s, title) == decodeTask(Post(s, Body(title)), 201)
putLocking(s, id, etag, body) == decodeTask(Put(s, id, etag, body), 200)

expectLockingStored(s, id, title, version) ==
    Require(s, Stored(s, id).title = title /\ Stored(s, id).version = version)

lockingInitialVersion(s) ==
    LET a == createLocking(s, "task")
        b == Require(a, /\ Got(a).version = 1 /\ a.reply.etag = 1
                        /\ Stored(a, Got(a).id).version = 1)
        c == decodeTaskList(List(b, NoLimit, NoCursor))
    IN  Require(c, Len(c.reply.items) = 1 /\ Got(c).version = 1)

lockingGetETag(s) ==
    LET a == createLocking(s, "task")
        b == decodeTask(Get(a, Got(a).id), 200)
    IN  Require(b, b.reply.etag = Got(b).version)

lockingPutSuccess(s) ==
    LET a == createLocking(s, "original")
        b == putLocking(a, Got(a).id, a.reply.etag, Body("  world  "))
        c == Require(b, /\ Got(b).title = "world" /\ Got(b).version = 2 /\ b.reply.etag = 2
                        /\ SameTask(Got(b), Got(a)))
    IN  expectLockingStored(c, Got(b).id, "world", 2)

lockingMissingIfMatch(s) ==
    expectProblemResponse(Put(s, UnknownId, NoHeader, Body("changed")), 428)

\* The ten spellings the case sends are one class: no version.
lockingMalformedIfMatch(s) ==
    expectProblemResponse(Put(s, UnknownId, 0, Body("changed")), 400)

lockingStaleIfMatch(s) ==
    LET a == createLocking(s, "original")
        b == putLocking(a, Got(a).id, a.reply.etag, Body("winner"))
        c == Put(b, Got(a).id, a.reply.etag, Body("stale"))
    IN  expectLockingStored(expectProblemResponse(c, 412), Got(a).id, "winner", 2)

lockingUnknownTask(s) ==
    expectProblemResponse(Put(s, UnknownId, 1, Body("changed")), 404)

lockingRejectedWithoutMutation(s, body) ==
    LET a == createLocking(s, "original")
        b == expectProblemResponse(Put(a, Got(a).id, a.reply.etag, body), 400)
    IN  expectLockingStored(b, Got(a).id, "original", 1)

lockingUnknownField(s) == lockingRejectedWithoutMutation(s, WithExtra(Body("changed")))

lockingInvalidTitle(s) ==
    LET a == reset(lockingRejectedWithoutMutation(s, Body("blank"))) IN
    reset(lockingRejectedWithoutMutation(a, Body("201 runes")))

Winners(replies) == {t \in DOMAIN replies : replies[t].status = 200}

\* Defect: a winner is enough, whatever became of the other PUT.
concurrentAnyWinner(s, id, replies) ==
    Require(s, \E t \in Winners(replies) :
                 expectLockingStored(s, id, replies[t].items[1].title, 2).ok)

\* The verdict over the two outcomes, and over the row they leave.
concurrentOutcome(s, id, replies) ==
    LET a == Require(s, \A t \in DOMAIN replies :
                 \/ /\ replies[t].status = 200 /\ replies[t].etag = 2
                    /\ validateTaskValue(replies[t].items[1])
                    /\ replies[t].items[1].version = 2
                 \/ expectProblemResponse([s EXCEPT !.reply = replies[t]], 412).ok)
        b == Require(a, \E t \in DOMAIN replies : Winners(replies) = {t})
    IN  Require(b, \A t \in Winners(replies) :
                     expectLockingStored(b, id, replies[t].items[1].title, 2).ok)

-----------------------------------------------------------------------------
(* Cursor pagination *)

seedPageTasks(s, count, tied) ==
    Store(s, [i \in 1 .. count |-> Row(i, "task", IF tied THEN 0 ELSE i)])
Ids(from, to) == [i \in 1 .. to - from + 1 |-> from + i - 1]

fetchPage(s, limit, cursor) == decodeTaskList(List(s, limit, cursor))

\* The page has these items, and a cursor or none; null is not none.
expectPage(s, ids, present) ==
    Require(s, /\ checkTaskIDs(s.reply.items, ids)
               /\ s.reply.cursor.kind = IF present THEN "at" ELSE "absent")

paginationDefaultLimit(s) ==
    expectPage(fetchPage(seedPageTasks(s, 21, FALSE), NoLimit, NoCursor), Ids(1, 20), TRUE)

paginationLimitBounds(s) ==
    LET a == expectPage(fetchPage(seedPageTasks(s, 101, FALSE), 1, NoCursor), Ids(1, 1), TRUE)
    IN  expectPage(fetchPage(a, 100, NoCursor), Ids(1, 100), TRUE)

paginationInvalidLimit(s) ==
    FoldLeft(LAMBDA t, limit : expectProblemResponse(List(t, limit, NoCursor), 400),
             s, <<0, -1, 101, NotANumber, NotANumber>>)

paginationMalformedCursor(s) ==
    expectProblemResponse(List(seedPageTasks(s, 1, FALSE), NoLimit,
                               [NoCursor EXCEPT !.kind = "malformed"]), 400)

paginationEmpty(s) == expectPage(fetchPage(s, NoLimit, NoCursor), <<>>, FALSE)

paginationSinglePage(s) ==
    expectPage(fetchPage(seedPageTasks(s, 3, FALSE), 10, NoCursor), Ids(1, 3), FALSE)

\* The next page of a collection; it is over after a page without a cursor.
collectPage(c, limit) ==
    LET page == fetchPage(c.suite, limit, c.cursor)
        after == page.reply.cursor
        good == Require(page, /\ Len(page.reply.items) <= limit
                              /\ after.kind # "null"
                              /\ after.kind = "at" => after # c.cursor)
    IN  IF c.over \/ ~c.suite.ok THEN c
        ELSE [suite |-> good, cursor |-> after, over |-> after.kind = "absent",
              ids |-> c.ids \o [i \in DOMAIN page.reply.items |-> page.reply.items[i].id]]

collectPages(s, limit) ==
    FoldLeft(LAMBDA c, n : collectPage(c, limit),
             [suite |-> s, cursor |-> NoCursor, over |-> FALSE, ids |-> <<>>],
             Ids(1, MaxPages))

\* checkStringIDs: the same sequence, and nothing twice.
expectPages(s, limit, ids) ==
    LET c == collectPages(s, limit) IN Require(c.suite, c.over /\ c.ids = ids)

paginationMultiplePages(s) == expectPages(seedPageTasks(s, 11, FALSE), 3, Ids(1, 11))
paginationTimestampTie(s)  == expectPages(seedPageTasks(s, 7, TRUE), 2, Ids(1, 7))

\* The first page has a cursor; what it holds is not checked.
firstPage(s) ==
    LET a == fetchPage(s, 2, NoCursor) IN Require(a, a.reply.cursor.kind = "at")

paginationFinalPage(s) ==
    LET a == firstPage(seedPageTasks(s, 3, FALSE)) IN
    expectPage(fetchPage(a, 2, a.reply.cursor), Ids(3, 3), FALSE)

paginationCursorAfterDelete(s) ==
    LET a == firstPage(seedPageTasks(s, 4, FALSE))
        b == IF a.ok THEN [a EXCEPT !.table = Without(Without(@, 3), 4)] ELSE a
    IN  expectPage(fetchPage(b, 2, a.reply.cursor), <<>>, FALSE)

-----------------------------------------------------------------------------
(* The registry *)

\* caseDefinitions: the identifiers in the order of the registry.
baselineIDs ==
    <<"baseline.create-valid", "baseline.create-invalid-title",
      "baseline.get-existing", "baseline.get-not-found", "baseline.list-ordered",
      "baseline.delete-existing", "baseline.delete-again-not-found">>
nullableIDs ==
    <<"nullable.initial-null", "nullable.post-rejects-due-at",
      "nullable.omitted-preserves", "nullable.null-clears",
      "nullable.value-sets", "nullable.title-only", "nullable.both-fields",
      "nullable.empty-rejected", "nullable.unknown-field-rejected",
      "nullable.title-null-rejected", "nullable.invalid-title",
      "nullable.invalid-timestamp", "nullable.unknown-task",
      "nullable.get-consistent">>
lockingIDs ==
    <<"locking.initial-version", "locking.get-etag", "locking.put-success",
      "locking.missing-if-match", "locking.malformed-if-match",
      "locking.stale-if-match", "locking.unknown-task", "locking.unknown-field",
      "locking.invalid-title", "locking.concurrent-single-winner">>
paginationIDs ==
    <<"pagination.default-limit", "pagination.limit-bounds",
      "pagination.invalid-limit", "pagination.malformed-cursor",
      "pagination.empty", "pagination.single-page", "pagination.multiple-pages",
      "pagination.timestamp-tie", "pagination.final-page",
      "pagination.cursor-after-delete">>
contractIDs ==
    <<"contract.openapi-conformance", "contract.problem-details",
      "contract.database-consistency">>
caseDefinitions == baselineIDs \o nullableIDs \o lockingIDs \o paginationIDs \o contractIDs

\* definition.Task, "all" for the cases of every task.
taskOf(id) ==
    CASE id \in Range(nullableIDs)   -> TaskNullable
      [] id \in Range(lockingIDs)    -> TaskLocking
      [] id \in Range(paginationIDs) -> TaskPagination
      [] OTHER -> "all"

Race == "locking.concurrent-single-winner"

\* definition.Run for every case but the one that races.
Run(id, s) ==
    CASE id = "baseline.create-valid" -> createValid(s)
      [] id = "baseline.create-invalid-title" -> createInvalidTitle(s)
      [] id = "baseline.get-existing" -> getExisting(s)
      [] id = "baseline.get-not-found" -> getNotFound(s)
      [] id = "baseline.list-ordered" -> listOrdered(s)
      [] id = "baseline.delete-existing" -> deleteExisting(s)
      [] id = "baseline.delete-again-not-found" -> deleteAgainNotFound(s)
      [] id = "nullable.initial-null" -> nullableInitialNull(s)
      [] id = "nullable.post-rejects-due-at" -> nullablePostRejectsDueAt(s)
      [] id = "nullable.omitted-preserves" -> nullableOmittedPreserves(s)
      [] id = "nullable.null-clears" -> nullableNullClears(s)
      [] id = "nullable.value-sets" -> nullableValueSets(s)
      [] id = "nullable.title-only" -> nullableTitleOnly(s)
      [] id = "nullable.both-fields" -> nullableBothFields(s)
      [] id = "nullable.empty-rejected" -> nullableEmptyRejected(s)
      [] id = "nullable.unknown-field-rejected" -> nullableUnknownFieldRejected(s)
      [] id = "nullable.title-null-rejected" -> nullableTitleNullRejected(s)
      [] id = "nullable.invalid-title" -> nullableInvalidTitle(s)
      [] id = "nullable.invalid-timestamp" -> nullableInvalidTimestamp(s)
      [] id = "nullable.unknown-task" -> nullableUnknownTask(s)
      [] id = "nullable.get-consistent" -> nullableGetConsistent(s)
      [] id = "locking.initial-version" -> lockingInitialVersion(s)
      [] id = "locking.get-etag" -> lockingGetETag(s)
      [] id = "locking.put-success" -> lockingPutSuccess(s)
      [] id = "locking.missing-if-match" -> lockingMissingIfMatch(s)
      [] id = "locking.malformed-if-match" -> lockingMalformedIfMatch(s)
      [] id = "locking.stale-if-match" -> lockingStaleIfMatch(s)
      [] id = "locking.unknown-task" -> lockingUnknownTask(s)
      [] id = "locking.unknown-field" -> lockingUnknownField(s)
      [] id = "locking.invalid-title" -> lockingInvalidTitle(s)
      [] id = "pagination.default-limit" -> paginationDefaultLimit(s)
      [] id = "pagination.limit-bounds" -> paginationLimitBounds(s)
      [] id = "pagination.invalid-limit" -> paginationInvalidLimit(s)
      [] id = "pagination.malformed-cursor" -> paginationMalformedCursor(s)
      [] id = "pagination.empty" -> paginationEmpty(s)
      [] id = "pagination.single-page" -> paginationSinglePage(s)
      [] id = "pagination.multiple-pages" -> paginationMultiplePages(s)
      [] id = "pagination.timestamp-tie" -> paginationTimestampTie(s)
      [] id = "pagination.final-page" -> paginationFinalPage(s)
      [] id = "pagination.cursor-after-delete" -> paginationCursorAfterDelete(s)
      [] id = "contract.openapi-conformance" -> openapiConformance(s)
      [] id = "contract.problem-details" -> problemDetails(s)
      [] id = "contract.database-consistency" -> databaseConsistency(s)

-----------------------------------------------------------------------------
(* The run over the registry *)

Done == next > Len(caseDefinitions)
Current == caseDefinitions[next]
Applicable(id) == taskOf(id) \in {"all", task}

Titles == {"first", "second"}
NoRace == [on |-> FALSE, id |-> UnknownId, etag |-> 0, overlap |-> FALSE,
           stage |-> [t \in Titles |-> "waits"], replies |-> [t \in Titles |-> NoReply]]

Init ==
    /\ task \in Tasks
    /\ \E t \in Trials : t.fault \in FaultsOf(task) /\ fault = t.fault /\ outage = t.outage
                         /\ delay = t.delay
    /\ next = 1
    /\ suite = [table |-> <<>>, createdID |-> UnknownId, sent |-> 0, ok |-> TRUE,
                reply |-> NoReply, pending |-> <<>>, disturbed |-> FALSE]
    /\ race = NoRace
    /\ results = <<>>

\* The verdict of the case that ends with the suite in state s.
Record(verdict, s) ==
    /\ results' = Append(results, [id |-> Current, verdict |-> verdict, to |-> s.sent,
                       disturbed |-> s.disturbed,
                       from |-> IF results = <<>> THEN 1 ELSE results[next - 1].to + 1])
    /\ next' = next + 1
    /\ suite' = [s EXCEPT !.ok = TRUE, !.reply = NoReply, !.disturbed = FALSE]

Verdict(s) == IF s.ok THEN "passed" ELSE "failed"

SkipCase ==
    /\ ~Done /\ ~race.on /\ ~Applicable(Current)
    /\ Record("not applicable", suite)
    /\ UNCHANGED <<candidate, race>>

\* Defect: the table is truncated once, not before every case.
PrepareOnce == IF Current = nullableIDs[1] THEN reset(suite) ELSE suite

\* TRUNCATE before a case of one task only.
Prepare == IF taskOf(Current) = "all" THEN suite ELSE reset(suite)

RunCase ==
    /\ ~Done /\ ~race.on /\ Applicable(Current) /\ Current # Race
    /\ \E s \in {Run(Current, Prepare)} : Record(Verdict(s), s)
    /\ UNCHANGED <<candidate, race>>

\* The concurrent case creates a task and releases its two goroutines.
StartRace ==
    /\ ~Done /\ ~race.on /\ Applicable(Current) /\ Current = Race
    /\ LET s == createLocking(Prepare, "original") IN
       \/ /\ s.ok
          /\ suite' = s
          /\ race' = [NoRace EXCEPT !.on = TRUE, !.id = Got(s).id, !.etag = s.reply.etag]
          /\ UNCHANGED <<next, results>>
       \/ ~s.ok /\ Record("failed", s) /\ UNCHANGED race
    /\ UNCHANGED candidate

\* The PUT of one goroutine reaches the candidate.  A candidate that checks
\* the version in one statement and writes in another stops in between.
SendPut(t) ==
    LET s == Put(suite, race.id, race.etag, Body(t)) IN
    /\ race.on /\ race.stage[t] = "waits"
    /\ \/ /\ fault = "check then write" /\ s.ok /\ s.reply.status = 200
          /\ suite' = [suite EXCEPT !.sent = @ + 1]
          /\ race' = [race EXCEPT !.stage[t] = "checked",
                                  !.overlap = \E u \in Titles : race.stage[u] = "checked"]
       \/ /\ fault # "check then write" \/ ~s.ok \/ s.reply.status # 200
          /\ suite' = [s EXCEPT !.ok = TRUE]
          /\ race' = [race EXCEPT !.stage[t] = "answered", !.replies[t] = s.reply]
    /\ UNCHANGED <<candidate, next, results>>

\* The write of such a candidate, with the version it had read.
WritePut(t) ==
    LET new == [Stored(suite, race.id) EXCEPT !.title = t, !.version = race.etag + 1] IN
    /\ race.on /\ race.stage[t] = "checked"
    /\ suite' = [suite EXCEPT !.table = Update(@, new)]
    /\ race' = [race EXCEPT !.stage[t] = "answered",
                            !.replies[t] = Json(task, fault, 200, <<new>>)]
    /\ UNCHANGED <<candidate, next, results>>

\* Both outcomes have come.
EndRace ==
    /\ race.on /\ \A t \in Titles : race.stage[t] = "answered"
    /\ LET s == concurrentOutcome(suite, race.id, race.replies) IN Record(Verdict(s), s)
    /\ race' = [race EXCEPT !.on = FALSE]
    /\ UNCHANGED candidate

Finished == Done /\ UNCHANGED vars

Next ==
    \/ SkipCase \/ RunCase \/ StartRace \/ EndRace \/ Finished
    \/ \E t \in Titles : SendPut(t) \/ WritePut(t)

Spec == Init /\ [][Next]_vars

-----------------------------------------------------------------------------
(* Properties *)

Failed(id) == \E i \in DOMAIN results : results[i].id = id /\ results[i].verdict = "failed"

\* The reference solution loses a case only by a request that got no answer: one of
\* the case itself; for a baseline case, which shares its rows and createdID with
\* those before it, one of an earlier case; and for a task specific case one of an
\* earlier case that is handled only between its TRUNCATE and its end.  Nothing that
\* was handled before costs a task specific case, and nothing a contract case.
AnsweredCasesPass ==
    fault = "none" =>
        \A i \in DOMAIN results : results[i].verdict = "failed" =>
            \E n \in outage :
                /\ n <= results[i].to
                /\ \/ results[i].from <= n
                   \/ results[i].id \in Range(baselineIDs)
                   \/ results[i].disturbed /\ results[i].id \notin Range(contractIDs)

\* The broken candidates of the evaluator's self-tests, and others of their
\* kind, with the case that is there to reject each of them.  No case rejects
\* "cursor on full page": none reads a final page that is full.
RejectedBy ==
    ("reversed list"           :> "baseline.list-ordered") @@
    ("unexpected member"       :> "contract.openapi-conformance") @@
    ("wrong problem"           :> "contract.problem-details") @@
    ("untyped problem"         :> "contract.problem-details") @@
    ("unpersisted create"      :> "contract.database-consistency") @@
    ("unknown member accepted" :> "contract.openapi-conformance") @@
    ("title kept padded"       :> "baseline.create-valid") @@
    ("delete ignored"          :> "contract.database-consistency") @@
    ("omitted clears"          :> "nullable.omitted-preserves") @@
    ("null ignored"            :> "nullable.null-clears") @@
    ("offset kept"             :> "nullable.value-sets") @@
    ("version ignored"         :> Race) @@
    ("stale ETag"              :> "locking.put-success") @@
    ("boundary repeated"       :> "pagination.multiple-pages") @@
    ("ties skipped"            :> "pagination.timestamp-tie") @@
    ("cursor cycles"           :> "pagination.multiple-pages") @@
    ("null cursor"             :> "pagination.final-page") @@
    ("limit unchecked"         :> "pagination.invalid-limit")

\* A broken candidate fails the case that is there to reject it, and one that
\* checks the version and then writes fails the concurrent case whenever its
\* two PUTs were between check and write together.
BrokenRejected ==
    Done => /\ fault \in DOMAIN RejectedBy => Failed(RejectedBy[fault])
            /\ race.overlap => Failed(Race)

=============================================================================
