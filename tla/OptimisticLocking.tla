------------------------- MODULE OptimisticLocking -------------------------
(***************************************************************************)
(* The task service with optimistic locking, the reference solution of     *)
(* fixtures/task-solutions/optimistic-locking-direct: its handlers, its    *)
(* service and its repository, used by several clients at once over one    *)
(* PostgreSQL table.  A title is abstracted to the set of edits it         *)
(* incorporates.  Clients follow the protocol the API is made for: read a  *)
(* task, edit the title that was read, send it with the ETag that was      *)
(* read; when Guessing they may also send an ETag they did not read.       *)
(***************************************************************************)
EXTENDS Integers, Sequences

CONSTANTS
    Clients,
    Ids,         \* task identifiers
    Edits,       \* what a client may add to a title
    MaxVersion,  \* the largest bigint and int64
    NoId,        \* not an identifier
    MayFail,     \* a statement, or the answer to it, may be lost
    Guessing     \* a client may send a version it has not read

ASSUME LockingAssumption ==
    /\ NoId \notin Ids
    /\ MaxVersion \in Nat \ {0}
    /\ MayFail \in BOOLEAN
    /\ Guessing \in BOOLEAN

VARIABLES
    rows,      \* the table tasks; version 0 where there is no row
    named,     \* identifiers that were generated or named in a request
    target,    \* the task of an Update between its two statements, or NoId
    expected,  \* and the version it expects
    resp,      \* status of the last response of a client, 0 while it waits
    cache,     \* the representation of a task a client read last
    observed,  \* history: how the target looked since the UPDATE statement
    wins,      \* history: successful writes that were answered with a version
    acked      \* history: edits whose write was answered with success

requestVars == <<target, expected>>
ackVars     == <<cache, wins, acked>>
vars == <<rows, named, resp, observed, requestVars, ackVars>>

-----------------------------------------------------------------------------
(* Values *)

Versions == 1 .. MaxVersion
NoTask   == [title |-> {}, version |-> 0]
Tasks    == [title : SUBSET Edits, version : 0 .. MaxVersion]
Statuses == {0, 200, 201, 204, 400, 404, 412, 428, 500}
Views    == {"absent", "match", "mismatch"}

Idle(c) == target[c] = NoId

\* How a row looks to a request that expects version v.
View(row, v) ==
    IF row.version = 0 THEN "absent"
    ELSE IF row.version = v THEN "match" ELSE "mismatch"

Init ==
    /\ rows     = [i \in Ids |-> NoTask]
    /\ named    = {}
    /\ target   = [c \in Clients |-> NoId]
    /\ expected = [c \in Clients |-> 0]
    /\ resp     = [c \in Clients |-> 0]
    /\ cache    = [c \in Clients |-> [i \in Ids |-> NoTask]]
    /\ observed = [c \in Clients |-> {}]
    /\ wins     = [i \in Ids |-> [v \in Versions |-> 0]]
    /\ acked    = [i \in Ids |-> {}]

-----------------------------------------------------------------------------
(* Responses and history *)

Answer(c, status) == resp' = [resp EXCEPT ![c] = status]

\* The client reads the representation and the ETag of its response.
Learn(c, i, row) == cache' = [cache EXCEPT ![c][i] = row]

\* A write was answered with success and the given row.
Win(c, i, row, e) ==
    /\ Learn(c, i, row)
    /\ wins'  = [wins EXCEPT ![i][row.version] = @ + 1]
    /\ acked' = [acked EXCEPT ![i] = @ \cup {e}]

\* Row i becomes row; c saw what is in seen, and every Update between its two
\* statements sees the new row.
Store(c, i, row, seen) ==
    /\ rows' = [rows EXCEPT ![i] = row]
    /\ observed' = [d \in Clients |->
         IF d = c THEN seen
         ELSE IF target[d] = i THEN observed[d] \cup {View(row, expected[d])}
         ELSE observed[d]]

\* The table is left alone.
Keep(c, seen) ==
    /\ observed' = [observed EXCEPT ![c] = seen]
    /\ UNCHANGED rows

-----------------------------------------------------------------------------
(* Handlers *)

\* 400: media type, body, UUID or title; no statement is sent.
Reject(c) ==
    /\ Idle(c)
    /\ Answer(c, 400)
    /\ Keep(c, {})
    /\ UNCHANGED <<named, requestVars, ackVars>>

\* createTask: newUUID, whose 122 random bits nobody named before, and INSERT.
CreateTask(c, i, e) ==
    LET row == [title |-> {e}, version |-> 1] IN
    /\ Idle(c) /\ i \notin named
    /\ named' = named \cup {i}
    /\ \/ Store(c, i, row, {}) /\ Answer(c, 201) /\ Win(c, i, row, e)
       \/ /\ MayFail
          /\ Store(c, i, row, {}) \/ Keep(c, {})
          /\ Answer(c, 500)
          /\ UNCHANGED ackVars
    /\ UNCHANGED requestVars

\* getTask: SELECT ... WHERE id = $1.
GetTask(c, i) ==
    /\ Idle(c)
    /\ named' = named \cup {i}
    /\ Keep(c, {View(rows[i], 0)})
    /\ \/ rows[i].version # 0 /\ Answer(c, 200) /\ Learn(c, i, rows[i])
       \/ rows[i].version = 0 /\ Answer(c, 404) /\ UNCHANGED cache
       \/ MayFail /\ Answer(c, 500) /\ UNCHANGED cache
    /\ UNCHANGED <<requestVars, wins, acked>>

\* listTasks: the items of the table at one instant.
ListTasks(c) ==
    /\ Idle(c)
    /\ Keep(c, {})
    /\ \/ /\ Answer(c, 200)
          /\ cache' = [cache EXCEPT ![c] =
               [i \in Ids |-> IF rows[i].version # 0 THEN rows[i] ELSE cache[c][i]]]
       \/ MayFail /\ Answer(c, 500) /\ UNCHANGED cache
    /\ UNCHANGED <<named, requestVars, wins, acked>>

\* deleteTask: DELETE ... RETURNING id.
DeleteTask(c, i) ==
    /\ Idle(c)
    /\ named' = named \cup {i}
    /\ \/ rows[i].version # 0 /\ Store(c, i, NoTask, {}) /\ Answer(c, 204)
       \/ rows[i].version = 0 /\ Keep(c, {"absent"}) /\ Answer(c, 404)
       \/ /\ MayFail
          /\ Store(c, i, NoTask, {}) \/ Keep(c, {})
          /\ Answer(c, 500)
    /\ UNCHANGED <<requestVars, ackVars>>

-----------------------------------------------------------------------------
(* updateTask *)

\* parseIfMatch over the values of the header.  A value is the number between
\* its quotes, or 0 when it is not a quoted number that starts with 1 to 9;
\* ParseInt fails above the largest int64.
ParseIfMatch(values) ==
    CASE Len(values) = 0 -> [version |-> 0, status |-> 428]
      [] Len(values) = 1 /\ values[1] \in Versions -> [version |-> values[1], status |-> 0]
      [] OTHER -> [version |-> 0, status |-> 400]

\* The If-Match headers a client may send for a task.
Headers(c, i) ==
    {<<>>, <<0>>, <<MaxVersion + 1>>, <<cache[c][i].version>>,
     <<cache[c][i].version, cache[c][i].version>>}
    \cup IF Guessing THEN {<<v>> : v \in Versions} ELSE {}

\* The header is examined before anything else.
RejectUpdate(c, i, values) ==
    /\ Idle(c)
    /\ ParseIfMatch(values).status # 0
    /\ named' = named \cup {i}
    /\ Answer(c, ParseIfMatch(values).status)
    /\ Keep(c, {})
    /\ UNCHANGED <<requestVars, ackVars>>

\* Defect: UPDATE ... WHERE id = $1.
MatchById(c, i, values) ==
    /\ ParseIfMatch(values).status = 0
    /\ rows[i].version # 0

\* UPDATE ... WHERE id = $1 AND version = $3.
Matches(c, i, values) ==
    /\ ParseIfMatch(values).status = 0
    /\ View(rows[i], ParseIfMatch(values).version) = "match"

\* Defect: SET title = $2, version unchanged.
UpdatedKeepingVersion(c, i, e) ==
    [title |-> cache[c][i].title \cup {e}, version |-> rows[i].version]

\* SET title = $2, version = version + 1.
Updated(c, i, e) ==
    [title |-> cache[c][i].title \cup {e}, version |-> rows[i].version + 1]

\* The UPDATE found its row; version + 1 beyond bigint is an error.
Update(c, i, values, e) ==
    /\ Idle(c) /\ Matches(c, i, values)
    /\ named' = named \cup {i}
    /\ \/ /\ rows[i].version < MaxVersion
          /\ Store(c, i, Updated(c, i, e), {})
          /\ \/ Answer(c, 200) /\ Win(c, i, Updated(c, i, e), e)
             \/ MayFail /\ Answer(c, 500) /\ UNCHANGED ackVars
       \/ /\ rows[i].version = MaxVersion \/ MayFail
          /\ Keep(c, {}) /\ Answer(c, 500)
          /\ UNCHANGED ackVars
    /\ UNCHANGED requestVars

\* The UPDATE found no row (ErrNoRows); the second statement is to come.
UpdateNoRows(c, i, values) ==
    LET p == ParseIfMatch(values) IN
    /\ Idle(c) /\ p.status = 0 /\ ~Matches(c, i, values)
    /\ named' = named \cup {i}
    /\ \/ /\ target'   = [target EXCEPT ![c] = i]
          /\ expected' = [expected EXCEPT ![c] = p.version]
          /\ Keep(c, {View(rows[i], p.version)}) /\ Answer(c, 0)
       \/ /\ MayFail
          /\ Keep(c, {}) /\ Answer(c, 500)
          /\ UNCHANGED requestVars
    /\ UNCHANGED ackVars

\* Defect: the two answers are swapped.
CheckExistsSwapped(c) ==
    /\ ~Idle(c)
    /\ Answer(c, IF rows[target[c]].version # 0 THEN 404 ELSE 412)
    /\ target'   = [target EXCEPT ![c] = NoId]
    /\ expected' = [expected EXCEPT ![c] = 0]
    /\ UNCHANGED <<rows, named, observed, ackVars>>

\* SELECT EXISTS, in a statement and a snapshot of its own.
CheckExists(c) ==
    /\ ~Idle(c)
    /\ \/ rows[target[c]].version = 0 /\ Answer(c, 404)
       \/ rows[target[c]].version # 0 /\ Answer(c, 412)
       \/ MayFail /\ Answer(c, 500)
    /\ target'   = [target EXCEPT ![c] = NoId]
    /\ expected' = [expected EXCEPT ![c] = 0]
    /\ UNCHANGED <<rows, named, observed, ackVars>>

-----------------------------------------------------------------------------
UpdateTask(c, i) ==
    \E values \in Headers(c, i) :
        \/ RejectUpdate(c, i, values)
        \/ UpdateNoRows(c, i, values)
        \/ \E e \in Edits : Update(c, i, values, e)

Next ==
    \E c \in Clients :
        \/ Reject(c) \/ ListTasks(c) \/ CheckExists(c)
        \/ \E i \in Ids : GetTask(c, i) \/ DeleteTask(c, i) \/ UpdateTask(c, i)
        \/ \E i \in Ids, e \in Edits : CreateTask(c, i, e)

Spec == Init /\ [][Next]_vars

-----------------------------------------------------------------------------
(* Properties *)

TypeOK ==
    /\ rows     \in [Ids -> Tasks]
    /\ named    \in SUBSET Ids
    /\ target   \in [Clients -> Ids \cup {NoId}]
    /\ expected \in [Clients -> 0 .. MaxVersion]
    /\ resp     \in [Clients -> Statuses]
    /\ cache    \in [Clients -> [Ids -> Tasks]]
    /\ observed \in [Clients -> SUBSET Views]
    /\ wins     \in [Ids -> [Versions -> Nat]]
    /\ acked    \in [Ids -> SUBSET Edits]

\* No lost update: as long as a task exists, its title incorporates every edit
\* whose PUT or POST was answered with success, whatever other clients did in
\* between and whichever answers were lost.
NoLostEdit == \A i \in Ids : rows[i].version # 0 => acked[i] \subseteq rows[i].title

\* At most one write per task and version is answered with success: of several
\* clients that send the same ETag, one wins.
SingleWinner == \A i \in Ids, v \in Versions : wins[i][v] =< 1

\* An Update that is answered 412 had, at some instant between its two
\* statements, an existing task with another version; one answered 404 had
\* none.  The answer is true of one instant although it takes two statements.
RepliesJustified ==
    \A c \in Clients : /\ resp[c] = 412 => "mismatch" \in observed[c]
                       /\ resp[c] = 404 => "absent" \in observed[c]

\* A version identifies a title: clients that read the same version of a task
\* read the same title, and it is the stored one if that is still current.
ETagIdentifies ==
    \A i \in Ids, c, d \in Clients :
        /\ cache[c][i].version = cache[d][i].version => cache[c][i] = cache[d][i]
        /\ cache[c][i].version = rows[i].version => cache[c][i] = rows[i]

\* A task that was deleted stays deleted; one that exists keeps its content
\* unless its version goes up, and then by one.
VersionsStep ==
    [][\A i \in Ids :
        /\ rows[i].version = 0 /\ i \in named => rows'[i].version = 0
        /\ rows[i].version # 0 /\ rows'[i] # rows[i] =>
              rows'[i].version \in {0, rows[i].version + 1}]_vars

-----------------------------------------------------------------------------
(* The inductive invariant behind the proofs of OptimisticLockingProofs *)

\* Nothing is known of an identifier nobody named.
Fresh ==
    \A i \in Ids \ named :
        /\ rows[i] = NoTask /\ acked[i] = {}
        /\ \A v \in Versions : wins[i][v] = 0
        /\ \A c \in Clients : cache[c][i] = NoTask

\* Between its two statements an Update has seen a mismatch, or its task was
\* absent and is so for good; an absence is always noticed.
Pending ==
    \A c \in Clients : target[c] # NoId =>
        /\ target[c] \in named
        /\ "mismatch" \in observed[c] \/ rows[target[c]].version = 0
        /\ rows[target[c]].version = 0 => "absent" \in observed[c]

\* Success was answered at most once per version, and not beyond the current.
Winners ==
    \A i \in Ids, v \in Versions :
        /\ wins[i][v] =< 1
        /\ rows[i].version # 0 /\ v > rows[i].version => wins[i][v] = 0

\* What clients read is not newer than the row.
Caches ==
    \A i \in Ids, c \in Clients :
        /\ cache[c][i].version = 0 => cache[c][i] = NoTask
        /\ rows[i].version = 0 => rows[i] = NoTask
        /\ rows[i].version # 0 => cache[c][i].version =< rows[i].version

LockingInv ==
    /\ TypeOK /\ Fresh /\ Pending /\ Winners
    /\ Caches /\ ETagIdentifies /\ RepliesJustified

=============================================================================
