---------------------- MODULE OptimisticLockingProofs ----------------------
(***************************************************************************)
(* Safety of the optimistic locking protocol for any number of clients,    *)
(* tasks and versions.  Every step is first reduced to one of three kinds  *)
(* by what it does to the table and to what clients know: it reads, it     *)
(* deletes, or it writes the next version of one task.                     *)
(***************************************************************************)
EXTENDS OptimisticLocking, TLAPS

USE LockingAssumption

\* The table is left alone; client c may take over rows as they are.
Reads(c) ==
    /\ UNCHANGED <<rows, wins, acked>>
    /\ named \subseteq named'
    /\ \E f \in [Ids -> Tasks] :
          /\ cache' = [cache EXCEPT ![c] = f]
          /\ \A j \in Ids : f[j] = cache[c][j] \/ (rows[j].version # 0 /\ f[j] = rows[j])

\* Row i goes away.
Deletes(i) ==
    /\ rows' = [rows EXCEPT ![i] = NoTask]
    /\ UNCHANGED ackVars
    /\ named \subseteq named' /\ i \in named'

\* Row i is created, or replaced by its next version; the client may learn it.
Writes(c, i, e, row) ==
    /\ rows' = [rows EXCEPT ![i] = row]
    /\ row \in Tasks /\ row.version = rows[i].version + 1
    /\ i \notin named \/ rows[i].version # 0
    /\ named \subseteq named' /\ i \in named'
    /\ Win(c, i, row, e) \/ UNCHANGED ackVars

\* The title written contains the new edit and, when versions are not guessed,
\* everything the replaced one did.
Extends(i, e, row) ==
    /\ e \in row.title
    /\ ~Guessing /\ rows[i].version # 0 => rows[i].title \subseteq row.title

-----------------------------------------------------------------------------
(* Headers and actions *)

\* What parseIfMatch makes of a header; a version it accepts is one the client
\* read, unless it guesses.
LEMMA HeaderParsed ==
  ASSUME TypeOK, NEW c \in Clients, NEW i \in Ids, NEW values \in Headers(c, i)
  PROVE  /\ ParseIfMatch(values).status \in {0, 400, 428}
         /\ ParseIfMatch(values).version \in 0 .. MaxVersion
         /\ ParseIfMatch(values).status = 0 =>
               /\ ParseIfMatch(values).version \in Versions
               /\ ~Guessing => ParseIfMatch(values).version = cache[c][i].version
<1>1. cache[c][i].version \in 0 .. MaxVersion
  BY DEF TypeOK, Tasks
<1>2. \/ values = <<>>
      \/ \E v \in 0 .. MaxVersion + 1 :
            /\ values = <<v>>
            /\ v \in Versions /\ ~Guessing => v = cache[c][i].version
      \/ \E v \in 0 .. MaxVersion : values = <<v, v>>
  BY <1>1 DEF Headers, Versions
<1>3. CASE values = <<>>
  BY <1>3 DEF ParseIfMatch
<1>4. ASSUME NEW v \in 0 .. MaxVersion, values = <<v, v>>
      PROVE  ParseIfMatch(values) = [version |-> 0, status |-> 400]
  BY <1>4 DEF ParseIfMatch
<1>5. ASSUME NEW v \in 0 .. MaxVersion + 1, values = <<v>>
      PROVE  ParseIfMatch(values) = IF v \in Versions THEN [version |-> v, status |-> 0]
                                    ELSE [version |-> 0, status |-> 400]
  BY <1>5 DEF ParseIfMatch
<1> QED
  BY <1>2, <1>3, <1>4, <1>5 DEF Versions

\* An UPDATE that finds its row replaces the version the header names.
LEMMA MatchFacts ==
  ASSUME TypeOK, NEW c \in Clients, NEW i \in Ids, NEW values \in Headers(c, i),
         Matches(c, i, values)
  PROVE  /\ rows[i].version \in Versions
         /\ ~Guessing => cache[c][i].version = rows[i].version
<1>1. /\ ParseIfMatch(values).version \in Versions
      /\ ~Guessing => ParseIfMatch(values).version = cache[c][i].version
  BY HeaderParsed DEF Matches
<1>2. rows[i].version = ParseIfMatch(values).version
  BY <1>1 DEF Matches, View, Versions
<1> QED
  BY <1>1, <1>2

\* A step that leaves the cache alone reads nothing.
LEMMA ReadsNothing ==
  ASSUME TypeOK, NEW c \in Clients, UNCHANGED <<rows, cache, wins, acked>>,
         named \subseteq named'
  PROVE  Reads(c)
<1>1. cache[c] \in [Ids -> Tasks] /\ cache' = [cache EXCEPT ![c] = cache[c]]
  BY DEF TypeOK
<1> QED
  BY <1>1 DEF Reads

\* Every step reads, deletes or writes.
LEMMA StepKinds ==
  ASSUME TypeOK, Fresh, ETagIdentifies, Next
  PROVE  \E c \in Clients :
            \/ Reads(c)
            \/ \E i \in Ids : Deletes(i)
            \/ \E i \in Ids, e \in Edits, row \in Tasks :
                  Writes(c, i, e, row) /\ Extends(i, e, row)
<1> USE DEF ackVars
<1>1. PICK c \in Clients :
        \/ Reject(c) \/ ListTasks(c) \/ CheckExists(c)
        \/ \E i \in Ids : GetTask(c, i) \/ DeleteTask(c, i) \/ UpdateTask(c, i)
        \/ \E i \in Ids, e \in Edits : CreateTask(c, i, e)
  BY DEF Next
<1>2. CASE Reject(c) \/ CheckExists(c)
  <2>1. UNCHANGED <<rows, cache, wins, acked, named>>
    BY <1>2 DEF Reject, CheckExists, Keep
  <2> QED
    BY <2>1, ReadsNothing
<1>3. CASE ListTasks(c)
  <2>1. UNCHANGED <<rows, wins, acked, named>>
    BY <1>3 DEF ListTasks, Keep
  <2>2. CASE UNCHANGED cache
    BY <2>1, <2>2, ReadsNothing
  <2>3. CASE cache' = [cache EXCEPT ![c] =
               [i \in Ids |-> IF rows[i].version # 0 THEN rows[i] ELSE cache[c][i]]]
    <3> DEFINE f == [i \in Ids |-> IF rows[i].version # 0 THEN rows[i] ELSE cache[c][i]]
    <3>1. f \in [Ids -> Tasks]
      BY DEF TypeOK
    <3>2. \A j \in Ids : f[j] = cache[c][j] \/ (rows[j].version # 0 /\ f[j] = rows[j])
      OBVIOUS
    <3>3. cache' = [cache EXCEPT ![c] = f]
      BY <2>3
    <3> HIDE DEF f
    <3> QED
      BY <2>1, <3>1, <3>2, <3>3 DEF Reads
  <2> QED
    BY <1>3, <2>2, <2>3 DEF ListTasks
<1>4. ASSUME NEW i \in Ids, GetTask(c, i) PROVE Reads(c)
  <2>1. UNCHANGED <<rows, wins, acked>> /\ named \subseteq named'
    BY <1>4 DEF GetTask, Keep
  <2>2. CASE UNCHANGED cache
    BY <2>1, <2>2, ReadsNothing
  <2>3. CASE rows[i].version # 0 /\ Learn(c, i, rows[i])
    <3> DEFINE f == [cache[c] EXCEPT ![i] = rows[i]]
    <3>1. f \in [Ids -> Tasks]
      BY DEF TypeOK
    <3>2. \A j \in Ids : f[j] = cache[c][j] \/ (rows[j].version # 0 /\ f[j] = rows[j])
      BY <2>3 DEF TypeOK
    <3>3. cache' = [cache EXCEPT ![c] = f]
      BY <2>3 DEF Learn
    <3> HIDE DEF f
    <3> QED
      BY <2>1, <3>1, <3>2, <3>3 DEF Reads
  <2> QED
    BY <1>4, <2>2, <2>3 DEF GetTask
<1>5. ASSUME NEW i \in Ids, DeleteTask(c, i) PROVE Reads(c) \/ Deletes(i)
  <2>1. UNCHANGED ackVars /\ named \subseteq named' /\ i \in named'
    BY <1>5 DEF DeleteTask
  <2>2. UNCHANGED rows \/ rows' = [rows EXCEPT ![i] = NoTask]
    BY <1>5 DEF DeleteTask, Store, Keep
  <2> QED
    BY <2>1, <2>2, ReadsNothing DEF Deletes
<1>6. ASSUME NEW i \in Ids, UpdateTask(c, i)
      PROVE  \/ Reads(c)
             \/ \E e \in Edits, row \in Tasks : Writes(c, i, e, row) /\ Extends(i, e, row)
  <2>1. PICK values \in Headers(c, i) :
           \/ RejectUpdate(c, i, values) \/ UpdateNoRows(c, i, values)
           \/ \E e \in Edits : Update(c, i, values, e)
    BY <1>6 DEF UpdateTask
  <2>2. CASE RejectUpdate(c, i, values) \/ UpdateNoRows(c, i, values)
    <3>1. UNCHANGED <<rows, cache, wins, acked>> /\ named \subseteq named'
      BY <2>2 DEF RejectUpdate, UpdateNoRows, Keep
    <3> QED
      BY <3>1, ReadsNothing
  <2>3. ASSUME NEW e \in Edits, Update(c, i, values, e)
        PROVE  Reads(c) \/ \E row \in Tasks : Writes(c, i, e, row) /\ Extends(i, e, row)
    <3>1. named \subseteq named' /\ i \in named' /\ Matches(c, i, values)
      BY <2>3 DEF Update
    <3>2. CASE UNCHANGED rows /\ UNCHANGED ackVars
      BY <3>1, <3>2, ReadsNothing
    <3>3. CASE /\ rows[i].version < MaxVersion
               /\ Store(c, i, Updated(c, i, e), {})
               /\ Win(c, i, Updated(c, i, e), e) \/ UNCHANGED ackVars
      <4> DEFINE row == Updated(c, i, e)
      <4>1. /\ rows[i].version \in Versions
            /\ ~Guessing => cache[c][i].version = rows[i].version
        BY <3>1, MatchFacts
      <4>2. row = [title |-> cache[c][i].title \cup {e}, version |-> rows[i].version + 1]
        BY DEF Updated
      <4>3. row \in Tasks
        BY <3>3, <4>1, <4>2 DEF Tasks, Versions, TypeOK
      <4>4. ~Guessing => rows[i].title \subseteq row.title
        BY <4>1, <4>2 DEF ETagIdentifies
      <4>5. e \in row.title /\ row.version = rows[i].version + 1
        BY <4>2
      <4>6. rows' = [rows EXCEPT ![i] = row] /\ (Win(c, i, row, e) \/ UNCHANGED ackVars)
        BY <3>3 DEF Store
      <4>7. rows[i].version # 0
        BY <4>1 DEF Versions
      <4> HIDE DEF row
      <4>8. Writes(c, i, e, row)
        BY <3>1, <4>3, <4>5, <4>6, <4>7 DEF Writes
      <4>9. Extends(i, e, row)
        BY <4>4, <4>5 DEF Extends
      <4> QED
        BY <4>3, <4>8, <4>9
    <3> QED
      BY <2>3, <3>2, <3>3 DEF Update, Keep
  <2> QED
    BY <2>1, <2>2, <2>3
<1>7. ASSUME NEW i \in Ids, NEW e \in Edits, CreateTask(c, i, e), rows[i].version = 0
      PROVE  Reads(c) \/ \E row \in Tasks : Writes(c, i, e, row) /\ Extends(i, e, row)
  <2> DEFINE row == [title |-> {e}, version |-> 1]
  <2>1. i \notin named /\ named \subseteq named' /\ i \in named'
    BY <1>7 DEF CreateTask
  <2>2. row \in Tasks /\ row.version = rows[i].version + 1 /\ e \in row.title
    BY <1>7 DEF Tasks
  <2>3. \/ UNCHANGED rows /\ UNCHANGED ackVars
        \/ /\ rows' = [rows EXCEPT ![i] = row]
           /\ Win(c, i, row, e) \/ UNCHANGED ackVars
    BY <1>7 DEF CreateTask, Store, Keep
  <2> HIDE DEF row
  <2>4. CASE UNCHANGED rows /\ UNCHANGED ackVars
    BY <2>1, <2>4, ReadsNothing
  <2>5. CASE rows' = [rows EXCEPT ![i] = row] /\ (Win(c, i, row, e) \/ UNCHANGED ackVars)
    BY <1>7, <2>1, <2>2, <2>5 DEF Writes, Extends
  <2> QED
    BY <2>3, <2>4, <2>5
<1>8. ASSUME NEW i \in Ids, NEW e \in Edits, CreateTask(c, i, e) PROVE rows[i].version = 0
  <2>1. i \in Ids \ named
    BY <1>8 DEF CreateTask
  <2> QED
    BY <2>1 DEF Fresh, NoTask
<1> QED
  BY <1>1, <1>2, <1>3, <1>4, <1>5, <1>6, <1>7, <1>8

-----------------------------------------------------------------------------
(* The table and what clients know of it *)

\* The parts of the invariant that the kind of a step decides.
TableInv == Fresh /\ Winners /\ Caches /\ ETagIdentifies

\* Reading preserves them.
LEMMA ReadsKeep ==
  ASSUME TypeOK, TableInv, TypeOK', NEW c \in Clients, Reads(c)
  PROVE  TableInv'
<1>1. PICK f \in [Ids -> Tasks] :
        /\ cache' = [cache EXCEPT ![c] = f]
        /\ \A j \in Ids : f[j] = cache[c][j] \/ (rows[j].version # 0 /\ f[j] = rows[j])
  BY DEF Reads
<1>2. UNCHANGED <<rows, wins, acked>> /\ named \subseteq named'
  BY DEF Reads
<1>3. \A d \in Clients, j \in Ids :
        \/ cache'[d][j] = cache[d][j]
        \/ rows[j].version # 0 /\ cache'[d][j] = rows[j]
  BY <1>1 DEF TypeOK
<1>4. Fresh'
  BY <1>2, <1>3 DEF TableInv, Fresh, NoTask
<1>5. Winners'
  BY <1>2 DEF TableInv, Winners
<1>6. Caches'
  <2>1. \A j \in Ids : rows[j].version \in Nat
    BY DEF TypeOK, Tasks
  <2> QED
    BY <1>2, <1>3, <2>1 DEF TableInv, Caches
<1>7. ETagIdentifies'
  BY <1>2, <1>3 DEF TableInv, ETagIdentifies
<1> QED
  BY <1>4, <1>5, <1>6, <1>7 DEF TableInv

\* Deleting preserves them.
LEMMA DeletesKeep ==
  ASSUME TypeOK, TableInv, TypeOK', NEW i \in Ids, Deletes(i)
  PROVE  TableInv'
<1>1. UNCHANGED <<cache, wins, acked>> /\ named \subseteq named' /\ i \in named'
  BY DEF Deletes, ackVars
<1>2. \A j \in Ids : rows'[j] = IF j = i THEN NoTask ELSE rows[j]
  BY DEF Deletes, TypeOK
<1>3. Fresh'
  BY <1>1, <1>2 DEF TableInv, Fresh
<1>4. Winners'
  BY <1>1, <1>2 DEF TableInv, Winners, NoTask
<1>5. Caches'
  BY <1>1, <1>2 DEF TableInv, Caches, NoTask
<1>6. ETagIdentifies'
  BY <1>1, <1>2 DEF TableInv, ETagIdentifies, Caches, NoTask
<1> QED
  BY <1>3, <1>4, <1>5, <1>6 DEF TableInv

\* Writing the next version preserves them: nobody knows that version yet.
LEMMA WritesKeep ==
  ASSUME TypeOK, TableInv, TypeOK', NEW c \in Clients, NEW i \in Ids, NEW e \in Edits,
         NEW row \in Tasks, Writes(c, i, e, row)
  PROVE  TableInv'
<1>1. \A j \in Ids : rows'[j] = IF j = i THEN row ELSE rows[j]
  BY DEF Writes, TypeOK
<1>2. row.version = rows[i].version + 1 /\ row.version \in Versions
  BY DEF Writes, TypeOK, Tasks, Versions
<1>3. named \subseteq named' /\ i \in named' /\ (i \notin named \/ rows[i].version # 0)
  BY DEF Writes
<1>4. \A j \in Ids, v \in Versions :
        wins'[j][v] = wins[j][v] \/ (j = i /\ v = row.version /\ wins'[j][v] = wins[j][v] + 1)
  BY <1>2 DEF Writes, Win, ackVars, TypeOK
<1>5. \A d \in Clients, j \in Ids :
        cache'[d][j] = cache[d][j] \/ (j = i /\ cache'[d][j] = row)
  <2>1. CASE UNCHANGED cache
    BY <2>1
  <2>2. CASE Learn(c, i, row)
    BY <2>2 DEF Learn, TypeOK
  <2> QED
    BY <2>1, <2>2 DEF Writes, Win, ackVars
<1>6. \A j \in Ids : j # i => acked'[j] = acked[j]
  BY DEF Writes, Win, ackVars, TypeOK
<1>7. \A d \in Clients : cache[d][i].version < row.version
  <2>1. \A d \in Clients : cache[d][i].version \in Nat /\ rows[i].version \in Nat
    BY DEF TypeOK, Tasks
  <2>2. CASE i \notin named
    BY <1>2, <2>1, <2>2 DEF TableInv, Fresh, NoTask
  <2>3. CASE rows[i].version # 0
    BY <1>2, <2>1, <2>3 DEF TableInv, Caches
  <2> QED
    BY <1>3, <2>2, <2>3
<1>8. \A v \in Versions : v >= row.version => wins[i][v] = 0
  <2>1. rows[i].version \in Nat
    BY DEF TypeOK, Tasks
  <2>2. CASE i \notin named
    BY <2>2 DEF TableInv, Fresh
  <2>3. CASE rows[i].version # 0
    BY <1>2, <2>1, <2>3 DEF TableInv, Winners, Versions
  <2> QED
    BY <1>3, <2>2, <2>3
<1>9. Fresh'
  <2>1. ASSUME NEW j \in Ids \ named' PROVE j \in Ids \ named /\ j # i
    BY <1>3
  <2>2. ASSUME NEW j \in Ids \ named'
        PROVE  /\ rows'[j] = NoTask /\ acked'[j] = {}
               /\ \A v \in Versions : wins'[j][v] = 0
               /\ \A d \in Clients : cache'[d][j] = NoTask
    BY <2>1, <1>1, <1>4, <1>5, <1>6 DEF TableInv, Fresh
  <2> QED
    BY <2>2 DEF Fresh
<1>10. Winners'
  <2>1. \A j \in Ids, v \in Versions : wins[j][v] \in Nat
    BY DEF TypeOK
  <2>2. \A j \in Ids, v \in Versions : wins'[j][v] =< 1
    BY <2>1, <1>2, <1>4, <1>8 DEF TableInv, Winners, Versions
  <2>3. \A j \in Ids, v \in Versions :
           rows'[j].version # 0 /\ v > rows'[j].version => wins'[j][v] = 0
    BY <2>1, <1>1, <1>2, <1>4, <1>8 DEF TableInv, Winners, Versions
  <2> QED
    BY <2>2, <2>3 DEF Winners
<1>11. Caches'
  <2>1. \A d \in Clients, j \in Ids : cache[d][j].version \in Nat
    BY DEF TypeOK, Tasks
  <2> QED
    BY <2>1, <1>1, <1>2, <1>5, <1>7 DEF TableInv, Caches, Versions
<1>12. ETagIdentifies'
  <2>1. \A d \in Clients, j \in Ids : cache[d][j].version \in Nat
    BY DEF TypeOK, Tasks
  <2>2. \A d \in Clients : cache[d][i].version # row.version
    BY <2>1, <1>2, <1>7 DEF Versions
  <2> QED
    BY <2>2, <1>1, <1>5 DEF TableInv, ETagIdentifies
<1> QED
  BY <1>9, <1>10, <1>11, <1>12 DEF TableInv

-----------------------------------------------------------------------------
(* Types *)

\* Storing a well-typed row and seeing well-typed views.
LEMMA StoreType ==
  ASSUME TypeOK, NEW c \in Clients, NEW i \in Ids, NEW row \in Tasks,
         Store(c, i, row, {})
  PROVE  rows' \in [Ids -> Tasks] /\ observed' \in [Clients -> SUBSET Views]
<1>1. rows' \in [Ids -> Tasks]
  BY DEF Store, TypeOK
<1>2. \A v : View(row, v) \in Views
  BY DEF View, Views
<1>3. \A d \in Clients : observed[d] \cup {View(row, expected[d])} \in SUBSET Views
  BY <1>2 DEF TypeOK
<1>4. observed' = [d \in Clients |->
         IF d = c THEN {}
         ELSE IF target[d] = i THEN observed[d] \cup {View(row, expected[d])}
         ELSE observed[d]]
  BY DEF Store
<1>5. observed' \in [Clients -> SUBSET Views]
  BY <1>3, <1>4 DEF TypeOK
<1> QED
  BY <1>1, <1>5

\* What a client has seen stays a set of views.
LEMMA KeepType ==
  ASSUME TypeOK, NEW c \in Clients, NEW seen \in SUBSET Views, Keep(c, seen)
  PROVE  rows' \in [Ids -> Tasks] /\ observed' \in [Clients -> SUBSET Views]
  BY DEF Keep, TypeOK

\* What an answered write records is well typed.
LEMMA WinType ==
  ASSUME TypeOK, NEW c \in Clients, NEW i \in Ids, NEW row \in Tasks, NEW e \in Edits,
         row.version \in Versions, Win(c, i, row, e)
  PROVE  /\ cache' \in [Clients -> [Ids -> Tasks]]
         /\ wins' \in [Ids -> [Versions -> Nat]]
         /\ acked' \in [Ids -> SUBSET Edits]
<1>1. cache' \in [Clients -> [Ids -> Tasks]]
  BY DEF Win, Learn, TypeOK
<1>2. wins' \in [Ids -> [Versions -> Nat]]
  <2>1. wins[i] \in [Versions -> Nat]
    BY DEF TypeOK
  <2>2. [wins[i] EXCEPT ![row.version] = @ + 1] \in [Versions -> Nat]
    BY <2>1
  <2>3. wins' = [wins EXCEPT ![i] = [wins[i] EXCEPT ![row.version] = @ + 1]]
    BY DEF Win, TypeOK
  <2> QED
    BY <2>2, <2>3 DEF TypeOK
<1>3. acked' \in [Ids -> SUBSET Edits]
  BY DEF Win, TypeOK
<1> QED
  BY <1>1, <1>2, <1>3

\* Every step keeps the types of what clients know and of the history.
AckType ==
    /\ cache \in [Clients -> [Ids -> Tasks]]
    /\ wins \in [Ids -> [Versions -> Nat]]
    /\ acked \in [Ids -> SUBSET Edits]

TableType == rows \in [Ids -> Tasks] /\ observed \in [Clients -> SUBSET Views]

RequestType ==
    /\ named \in SUBSET Ids
    /\ target \in [Clients -> Ids \cup {NoId}]
    /\ expected \in [Clients -> 0 .. MaxVersion]
    /\ resp \in [Clients -> Statuses]

\* Types are invariant.
LEMMA TypeStep ==
  ASSUME TypeOK, Next
  PROVE  TypeOK'
<1> USE DEF ackVars, requestVars
<1>0. SUFFICES AckType' /\ TableType' /\ RequestType'
  BY DEF TypeOK, AckType, TableType, RequestType
<1>1. PICK c \in Clients :
        \/ Reject(c) \/ ListTasks(c) \/ CheckExists(c)
        \/ \E i \in Ids : GetTask(c, i) \/ DeleteTask(c, i) \/ UpdateTask(c, i)
        \/ \E i \in Ids, e \in Edits : CreateTask(c, i, e)
  BY DEF Next
<1>2. AckType /\ TableType /\ RequestType /\ NoTask \in Tasks
  BY DEF TypeOK, AckType, TableType, RequestType, NoTask, Tasks
<1>3. \A s \in Statuses : Answer(c, s) => resp' \in [Clients -> Statuses]
  BY DEF Answer, TypeOK
<1>4. {} \in SUBSET Views /\ \A i \in Ids : \A v : {View(rows[i], v)} \in SUBSET Views
  BY DEF View, Views
<1>5. {0, 200, 201, 204, 400, 404, 412, 428, 500} \subseteq Statuses
  BY DEF Statuses
<1>6. CASE Reject(c)
  <2>1. TableType'
    BY <1>4, <1>6, KeepType DEF Reject, TableType
  <2> QED
    BY <1>2, <1>3, <1>5, <1>6, <2>1 DEF Reject, AckType, RequestType
<1>7. CASE ListTasks(c)
  <2>1. TableType'
    BY <1>4, <1>7, KeepType DEF ListTasks, TableType
  <2>2. AckType'
    <3> DEFINE f == [i \in Ids |-> IF rows[i].version # 0 THEN rows[i] ELSE cache[c][i]]
    <3>1. f \in [Ids -> Tasks]
      BY DEF TypeOK
    <3>2. cache' = [cache EXCEPT ![c] = f] \/ cache' = cache
      BY <1>7 DEF ListTasks
    <3>3. UNCHANGED <<wins, acked>>
      BY <1>7 DEF ListTasks
    <3> HIDE DEF f
    <3> QED
      BY <1>2, <3>1, <3>2, <3>3 DEF AckType
  <2> QED
    BY <1>2, <1>3, <1>5, <1>7, <2>1, <2>2 DEF ListTasks, RequestType
<1>8. CASE CheckExists(c)
  <2>1. RequestType'
    BY <1>2, <1>3, <1>5, <1>8 DEF CheckExists, RequestType
  <2> QED
    BY <1>2, <1>8, <2>1 DEF CheckExists, AckType, TableType
<1>9. ASSUME NEW i \in Ids, GetTask(c, i) PROVE AckType' /\ TableType' /\ RequestType'
  <2>1. TableType'
    BY <1>4, <1>9, KeepType DEF GetTask, TableType
  <2>2. AckType'
    <3>1. [cache[c] EXCEPT ![i] = rows[i]] \in [Ids -> Tasks]
      BY DEF TypeOK
    <3>2. cache' = [cache EXCEPT ![c] = [cache[c] EXCEPT ![i] = rows[i]]] \/ cache' = cache
      BY <1>9 DEF GetTask, Learn
    <3>3. UNCHANGED <<wins, acked>>
      BY <1>9 DEF GetTask
    <3>4. CASE cache' = cache
      BY <1>2, <3>3, <3>4 DEF AckType
    <3>5. CASE cache' = [cache EXCEPT ![c] = [cache[c] EXCEPT ![i] = rows[i]]]
      <4> DEFINE f == [cache[c] EXCEPT ![i] = rows[i]]
      <4>1. f \in [Ids -> Tasks] /\ cache' = [cache EXCEPT ![c] = f]
        BY <3>1, <3>5
      <4> HIDE DEF f
      <4> QED
        BY <1>2, <3>3, <4>1 DEF AckType
    <3> QED
      BY <3>2, <3>4, <3>5
  <2> QED
    BY <1>2, <1>3, <1>5, <1>9, <2>1, <2>2 DEF GetTask, RequestType
<1>10. ASSUME NEW i \in Ids, DeleteTask(c, i) PROVE AckType' /\ TableType' /\ RequestType'
  <2>1. {"absent"} \in SUBSET Views
    BY DEF Views
  <2>2. Store(c, i, NoTask, {}) \/ \E seen \in SUBSET Views : Keep(c, seen)
    BY <1>4, <1>10, <2>1 DEF DeleteTask
  <2>3. TableType'
    BY <1>2, <2>2, KeepType, StoreType DEF TableType
  <2> QED
    BY <1>2, <1>3, <1>5, <1>10, <2>3 DEF DeleteTask, AckType, RequestType
<1>11. ASSUME NEW i \in Ids, UpdateTask(c, i) PROVE AckType' /\ TableType' /\ RequestType'
  <2>1. PICK values \in Headers(c, i) :
           \/ RejectUpdate(c, i, values) \/ UpdateNoRows(c, i, values)
           \/ \E e \in Edits : Update(c, i, values, e)
    BY <1>11 DEF UpdateTask
  <2>2. /\ ParseIfMatch(values).status \in {0, 400, 428}
        /\ ParseIfMatch(values).version \in 0 .. MaxVersion
    BY HeaderParsed
  <2>3. CASE RejectUpdate(c, i, values)
    <3>1. TableType'
      BY <1>4, <2>3, KeepType DEF RejectUpdate, TableType
    <3> QED
      BY <1>2, <1>3, <1>5, <2>2, <2>3, <3>1 DEF RejectUpdate, AckType, RequestType
  <2>4. CASE UpdateNoRows(c, i, values)
    <3>1. \E seen \in SUBSET Views : Keep(c, seen)
      BY <1>4, <2>4 DEF UpdateNoRows
    <3>2. TableType'
      BY <3>1, KeepType DEF TableType
    <3>3. RequestType'
      BY <1>2, <1>3, <1>5, <2>2, <2>4 DEF UpdateNoRows, RequestType
    <3> QED
      BY <1>2, <2>4, <3>2, <3>3 DEF UpdateNoRows, AckType
  <2>5. ASSUME NEW e \in Edits, Update(c, i, values, e)
        PROVE  AckType' /\ TableType' /\ RequestType'
    <3>1. RequestType'
      BY <1>2, <1>3, <1>5, <2>5 DEF Update, RequestType
    <3>2. CASE Keep(c, {}) /\ UNCHANGED ackVars
      <4>1. TableType'
        BY <1>4, <3>2, KeepType DEF TableType
      <4> QED
        BY <1>2, <3>1, <3>2, <4>1 DEF AckType
    <3>3. CASE /\ rows[i].version < MaxVersion
               /\ Store(c, i, Updated(c, i, e), {})
               /\ Win(c, i, Updated(c, i, e), e) \/ UNCHANGED ackVars
      <4>1. rows[i].version \in Versions
        BY <2>5, MatchFacts DEF Update
      <4>2. Updated(c, i, e) \in Tasks
        BY <3>3, <4>1 DEF Updated, Tasks, Versions, TypeOK
      <4>3. Updated(c, i, e).version \in Versions
        BY <3>3, <4>1 DEF Updated, Versions
      <4>4. TableType'
        BY <3>3, <4>2, StoreType DEF TableType
      <4>5. AckType'
        BY <1>2, <3>3, <4>2, <4>3, WinType DEF AckType
      <4> QED
        BY <3>1, <4>4, <4>5
    <3> QED
      BY <2>5, <3>2, <3>3 DEF Update
  <2> QED
    BY <2>1, <2>3, <2>4, <2>5
<1>12. ASSUME NEW i \in Ids, NEW e \in Edits, CreateTask(c, i, e)
       PROVE  AckType' /\ TableType' /\ RequestType'
  <2> DEFINE row == [title |-> {e}, version |-> 1]
  <2>1. row \in Tasks /\ row.version \in Versions
    BY DEF Tasks, Versions
  <2>2. /\ Store(c, i, row, {}) \/ Keep(c, {})
        /\ Win(c, i, row, e) \/ UNCHANGED ackVars
    BY <1>12 DEF CreateTask
  <2>3. RequestType'
    BY <1>2, <1>3, <1>5, <1>12 DEF CreateTask, RequestType
  <2> HIDE DEF row
  <2>4. TableType'
    BY <1>4, <2>1, <2>2, KeepType, StoreType DEF TableType
  <2>5. AckType'
    BY <1>2, <2>1, <2>2, WinType DEF AckType
  <2> QED
    BY <2>3, <2>4, <2>5
<1> QED
  BY <1>1, <1>6, <1>7, <1>8, <1>9, <1>10, <1>11, <1>12

-----------------------------------------------------------------------------
(* Answers *)

\* A step that changes row i shows it to the requests waiting on it.
LEMMA StoreSeen ==
  ASSUME TypeOK, NEW c \in Clients, NEW i \in Ids, NEW row, Idle(c),
         Store(c, i, row, {}), NEW d \in Clients, target[d] # NoId
  PROVE  /\ observed[d] \subseteq observed'[d]
         /\ target[d] # i => rows'[target[d]] = rows[target[d]]
         /\ target[d] = i => rows'[i] = row /\ View(row, expected[d]) \in observed'[d]
<1>1. d # c
  BY DEF Idle
<1> QED
  BY <1>1 DEF Store, TypeOK

\* What is known of a client that waits for its second statement is kept by a
\* step of another one, which never brings a deleted task back.
LEMMA OthersPending ==
  ASSUME TypeOK, Pending, NEW c \in Clients, Idle(c), NEW d \in Clients,
         target[d] # NoId, target'[d] = target[d], named \subseteq named',
         NEW i \in Ids, NEW row \in Tasks,
         \/ UNCHANGED rows /\ observed[d] \subseteq observed'[d]
         \/ /\ Store(c, i, row, {})
            /\ i \notin named \/ rows[i].version # 0 \/ row = NoTask
  PROVE  /\ target'[d] \in named'
         /\ "mismatch" \in observed'[d] \/ rows'[target'[d]].version = 0
         /\ rows'[target'[d]].version = 0 => "absent" \in observed'[d]
<1>1. /\ target[d] \in named
      /\ "mismatch" \in observed[d] \/ rows[target[d]].version = 0
      /\ rows[target[d]].version = 0 => "absent" \in observed[d]
  BY DEF Pending
<1>2. CASE UNCHANGED rows /\ observed[d] \subseteq observed'[d]
  BY <1>1, <1>2
<1>3. CASE Store(c, i, row, {}) /\ target[d] # i
  BY <1>1, <1>3, StoreSeen
<1>4. CASE /\ Store(c, i, row, {}) /\ target[d] = i
           /\ i \notin named \/ rows[i].version # 0 \/ row = NoTask
  <2>1. /\ observed[d] \subseteq observed'[d] /\ rows'[i] = row
        /\ View(row, expected[d]) \in observed'[d]
    BY <1>4, StoreSeen
  <2>2. row.version = 0 => View(row, expected[d]) = "absent"
    BY DEF View
  <2>3. CASE row = NoTask
    BY <1>1, <1>4, <2>1, <2>2, <2>3 DEF NoTask
  <2>4. CASE rows[i].version # 0
    BY <1>1, <1>4, <2>1, <2>2, <2>4
  <2> QED
    BY <1>1, <1>4, <2>3, <2>4
<1> QED
  BY <1>2, <1>3, <1>4

\* The step of an idle client that ends or rejects its request at once.
Immediate(c) ==
    /\ UNCHANGED requestVars /\ named \subseteq named'
    /\ \/ \E seen : Keep(c, seen)
       \/ \E i \in Ids, row \in Tasks :
             /\ Store(c, i, row, {})
             /\ i \notin named \/ rows[i].version # 0 \/ row = NoTask
    /\ \E s \in Statuses : Answer(c, s) /\ s # 412 /\ (s = 404 => "absent" \in observed'[c])

\* Such a step preserves what is known of waiting requests, and its answer is
\* justified.
LEMMA ImmediateKeeps ==
  ASSUME TypeOK, Pending, RepliesJustified, NEW c \in Clients, Idle(c), Immediate(c)
  PROVE  Pending' /\ RepliesJustified'
<1>1. /\ UNCHANGED requestVars /\ named \subseteq named'
      /\ \/ \E seen : Keep(c, seen)
         \/ \E i \in Ids, row \in Tasks :
               /\ Store(c, i, row, {})
               /\ i \notin named \/ rows[i].version # 0 \/ row = NoTask
  BY DEF Immediate
<1>2. ASSUME NEW d \in Clients, target'[d] # NoId
      PROVE  /\ target'[d] \in named'
             /\ "mismatch" \in observed'[d] \/ rows'[target'[d]].version = 0
             /\ rows'[target'[d]].version = 0 => "absent" \in observed'[d]
  <2>1. target'[d] = target[d] /\ target[d] # NoId /\ d # c /\ target[d] \in Ids
    BY <1>1, <1>2 DEF requestVars, Idle, TypeOK
  <2>2. CASE \E seen : Keep(c, seen)
    <3>1. UNCHANGED rows /\ observed'[d] = observed[d]
      BY <2>1, <2>2 DEF Keep, TypeOK
    <3> QED
      BY <1>1, <2>1, <3>1 DEF Pending
  <2>3. CASE \E i \in Ids, row \in Tasks :
               /\ Store(c, i, row, {})
               /\ i \notin named \/ rows[i].version # 0 \/ row = NoTask
    BY <1>1, <2>1, <2>3, OthersPending
  <2> QED
    BY <1>1, <2>2, <2>3
<1>3. Pending'
  BY <1>2 DEF Pending
<1>4. PICK s \in Statuses : Answer(c, s) /\ s # 412 /\ (s = 404 => "absent" \in observed'[c])
  BY DEF Immediate
<1>5. \A d \in Clients : resp'[d] = IF d = c THEN s ELSE resp[d]
  BY <1>4 DEF Answer, TypeOK
<1>6. \A d \in Clients : d # c => observed[d] \subseteq observed'[d]
  <2>1. ASSUME NEW seen, Keep(c, seen)
        PROVE  \A d \in Clients : d # c => observed[d] \subseteq observed'[d]
    BY <2>1 DEF Keep, TypeOK
  <2>2. ASSUME NEW i \in Ids, NEW row \in Tasks, Store(c, i, row, {})
        PROVE  \A d \in Clients : d # c => observed[d] \subseteq observed'[d]
    BY <2>2 DEF Store
  <2> QED
    BY <1>1, <2>1, <2>2
<1>7. RepliesJustified'
  BY <1>4, <1>5, <1>6 DEF RepliesJustified
<1> QED
  BY <1>3, <1>7


\* Every step preserves what is known of waiting requests and justifies its
\* answer.
LEMMA AnswersStep ==
  ASSUME TypeOK, Fresh, ETagIdentifies, Pending, RepliesJustified, Next
  PROVE  Pending' /\ RepliesJustified'
<1> USE DEF requestVars
<1>1. PICK c \in Clients :
        \/ Reject(c) \/ ListTasks(c) \/ CheckExists(c)
        \/ \E i \in Ids : GetTask(c, i) \/ DeleteTask(c, i) \/ UpdateTask(c, i)
        \/ \E i \in Ids, e \in Edits : CreateTask(c, i, e)
  BY DEF Next
<1>2. \A seen : Keep(c, seen) => observed'[c] = seen
  BY DEF Keep, TypeOK
<1>3. NoTask \in Tasks
  BY DEF NoTask, Tasks
<1>4. CASE Reject(c) \/ ListTasks(c)
  <2>1. Idle(c) /\ Immediate(c)
    BY <1>4 DEF Reject, ListTasks, Immediate, Statuses
  <2> QED
    BY <2>1, ImmediateKeeps
<1>5. ASSUME NEW i \in Ids, GetTask(c, i) PROVE Pending' /\ RepliesJustified'
  <2>1. Idle(c) /\ named \subseteq named' /\ Keep(c, {View(rows[i], 0)}) /\ UNCHANGED requestVars
    BY <1>5 DEF GetTask
  <2>2. rows[i].version = 0 => View(rows[i], 0) = "absent"
    BY DEF View
  <2>3. \E s \in Statuses : Answer(c, s) /\ s # 412 /\ (s = 404 => "absent" \in observed'[c])
    BY <1>2, <1>5, <2>1, <2>2 DEF GetTask, Statuses
  <2>4. Immediate(c)
    BY <2>1, <2>3 DEF Immediate
  <2> QED
    BY <2>1, <2>4, ImmediateKeeps
<1>6. ASSUME NEW i \in Ids, DeleteTask(c, i) PROVE Pending' /\ RepliesJustified'
  <2>1. Idle(c) /\ named \subseteq named' /\ UNCHANGED requestVars
    BY <1>6 DEF DeleteTask
  <2>2. (\E seen : Keep(c, seen)) \/ Store(c, i, NoTask, {})
    BY <1>6 DEF DeleteTask
  <2>3. \E s \in Statuses : Answer(c, s) /\ s # 412 /\ (s = 404 => "absent" \in observed'[c])
    BY <1>2, <1>6 DEF DeleteTask, Statuses
  <2>4. Immediate(c)
    BY <1>3, <2>1, <2>2, <2>3 DEF Immediate
  <2> QED
    BY <2>1, <2>4, ImmediateKeeps
<1>7. ASSUME NEW i \in Ids, NEW e \in Edits, CreateTask(c, i, e)
      PROVE  Pending' /\ RepliesJustified'
  <2>1. Idle(c) /\ i \notin named /\ named \subseteq named' /\ UNCHANGED requestVars
    BY <1>7 DEF CreateTask
  <2>2. [title |-> {e}, version |-> 1] \in Tasks
    BY DEF Tasks
  <2>3. Keep(c, {}) \/ Store(c, i, [title |-> {e}, version |-> 1], {})
    BY <1>7 DEF CreateTask
  <2>4. \E s \in Statuses : Answer(c, s) /\ s # 412 /\ (s = 404 => "absent" \in observed'[c])
    BY <1>7 DEF CreateTask, Statuses
  <2>5. Immediate(c)
    BY <2>1, <2>2, <2>3, <2>4 DEF Immediate
  <2> QED
    BY <2>1, <2>5, ImmediateKeeps
<1>8. CASE CheckExists(c)
  <2>1. /\ UNCHANGED <<rows, named, observed>>
        /\ \A d \in Clients : d # c => target'[d] = target[d]
        /\ target'[c] = NoId
    BY <1>8 DEF CheckExists, TypeOK
  <2>2. Pending'
    BY <2>1 DEF Pending
  <2>3. \A d \in Clients : d # c => resp'[d] = resp[d]
    BY <1>8 DEF CheckExists, Answer, TypeOK
  <2>4. /\ resp'[c] = 404 => rows[target[c]].version = 0
        /\ resp'[c] = 412 => rows[target[c]].version # 0
    BY <1>8 DEF CheckExists, Answer, TypeOK
  <2>5. target[c] # NoId
    BY <1>8 DEF CheckExists, Idle
  <2>6. RepliesJustified'
    BY <2>1, <2>3, <2>4, <2>5 DEF RepliesJustified, Pending
  <2> QED
    BY <2>2, <2>6
<1>9. ASSUME NEW i \in Ids, UpdateTask(c, i) PROVE Pending' /\ RepliesJustified'
  <2>1. PICK values \in Headers(c, i) :
           \/ RejectUpdate(c, i, values) \/ UpdateNoRows(c, i, values)
           \/ \E e \in Edits : Update(c, i, values, e)
    BY <1>9 DEF UpdateTask
  <2>2. /\ ParseIfMatch(values).status \in {0, 400, 428}
        /\ ParseIfMatch(values).version \in 0 .. MaxVersion
    BY HeaderParsed
  <2>3. CASE RejectUpdate(c, i, values)
    <3>1. Idle(c) /\ Immediate(c)
      BY <2>2, <2>3 DEF RejectUpdate, Immediate, Statuses
    <3> QED
      BY <3>1, ImmediateKeeps
  <2>4. ASSUME NEW e \in Edits, Update(c, i, values, e) PROVE Pending' /\ RepliesJustified'
    <3>1. Idle(c) /\ named \subseteq named' /\ UNCHANGED requestVars
      BY <2>4 DEF Update
    <3>2. rows[i].version \in Versions
      BY <2>4, MatchFacts DEF Update
    <3>3. \/ Keep(c, {})
          \/ rows[i].version < MaxVersion /\ Store(c, i, Updated(c, i, e), {})
      BY <2>4 DEF Update
    <3>4. rows[i].version < MaxVersion => Updated(c, i, e) \in Tasks
      BY <3>2 DEF Updated, Tasks, Versions, TypeOK
    <3>5. \E s \in Statuses : Answer(c, s) /\ s # 412 /\ (s = 404 => "absent" \in observed'[c])
      BY <2>4 DEF Update, Statuses
    <3>6. rows[i].version # 0
      BY <3>2 DEF Versions
    <3>7. Immediate(c)
      BY <3>1, <3>3, <3>4, <3>5, <3>6 DEF Immediate
    <3> QED
      BY <3>1, <3>7, ImmediateKeeps
  <2>5. CASE UpdateNoRows(c, i, values)
    <3> DEFINE v == ParseIfMatch(values).version
    <3>1. Idle(c) /\ i \in named' /\ named \subseteq named' /\ View(rows[i], v) # "match"
      BY <2>5 DEF UpdateNoRows, Matches
    <3>2. CASE Keep(c, {}) /\ Answer(c, 500) /\ UNCHANGED requestVars
      <4>1. Immediate(c)
        BY <3>1, <3>2 DEF Immediate, Statuses
      <4> QED
        BY <3>1, <4>1, ImmediateKeeps
    <3>3. CASE /\ target'   = [target EXCEPT ![c] = i]
               /\ Keep(c, {View(rows[i], v)}) /\ Answer(c, 0)
      <4>1. /\ \A d \in Clients : d # c => /\ target'[d] = target[d]
                                            /\ observed'[d] = observed[d]
                                            /\ resp'[d] = resp[d]
            /\ target'[c] = i /\ resp'[c] = 0 /\ UNCHANGED rows
        BY <3>3 DEF Keep, Answer, TypeOK
      <4>2. observed'[c] = {View(rows[i], v)}
        BY <1>2, <3>3
      <4>3. /\ rows[i].version = 0 => View(rows[i], v) = "absent"
            /\ rows[i].version # 0 => View(rows[i], v) = "mismatch"
        BY <3>1 DEF View
      <4>4. Pending'
        BY <3>1, <4>1, <4>2, <4>3 DEF Pending
      <4>5. RepliesJustified'
        BY <4>1 DEF RepliesJustified
      <4> QED
        BY <4>4, <4>5
    <3> QED
      BY <2>5, <3>2, <3>3 DEF UpdateNoRows
  <2> QED
    BY <2>1, <2>3, <2>4, <2>5
<1> QED
  BY <1>1, <1>4, <1>5, <1>6, <1>7, <1>8, <1>9

-----------------------------------------------------------------------------
(* Theorems *)

\* The initial state satisfies the invariant.
LEMMA LockingInit == Init => LockingInv
<1> SUFFICES ASSUME Init PROVE LockingInv
  OBVIOUS
<1>1. NoTask \in Tasks
  BY DEF NoTask, Tasks
<1>2. TypeOK
  BY <1>1 DEF Init, TypeOK, Statuses
<1>3. Fresh /\ Winners
  BY DEF Init, Fresh, Winners
<1>4. Pending /\ RepliesJustified
  BY DEF Init, Pending, RepliesJustified
<1>5. Caches /\ ETagIdentifies
  BY DEF Init, Caches, ETagIdentifies, NoTask
<1> QED
  BY <1>2, <1>3, <1>4, <1>5 DEF LockingInv

\* Every step preserves it.
LEMMA LockingStep == LockingInv /\ [Next]_vars => LockingInv'
<1> SUFFICES ASSUME LockingInv, [Next]_vars PROVE LockingInv'
  OBVIOUS
<1>1. CASE UNCHANGED vars
  BY <1>1 DEF vars, requestVars, ackVars, LockingInv, TypeOK, Fresh, Pending, Winners,
              Caches, ETagIdentifies, RepliesJustified
<1>2. CASE Next
  <2>1. TypeOK /\ TableInv /\ Pending /\ RepliesJustified
    BY DEF LockingInv, TableInv
  <2>2. TypeOK'
    BY <1>2, <2>1, TypeStep
  <2>3. PICK c \in Clients :
            \/ Reads(c)
            \/ \E i \in Ids : Deletes(i)
            \/ \E i \in Ids, e \in Edits, row \in Tasks :
                  Writes(c, i, e, row) /\ Extends(i, e, row)
    BY <1>2, <2>1, StepKinds DEF TableInv
  <2>4. TableInv'
    BY <2>1, <2>2, <2>3, ReadsKeep, DeletesKeep, WritesKeep
  <2>5. Pending' /\ RepliesJustified'
    BY <1>2, <2>1, AnswersStep DEF TableInv
  <2> QED
    BY <2>2, <2>4, <2>5 DEF LockingInv, TableInv
<1> QED
  BY <1>1, <1>2

\* The invariant holds in every reachable state.
THEOREM LockingInvariance == Spec => []LockingInv
<1> QED
  BY LockingInit, LockingStep, PTL DEF Spec

\* Of all clients that send the same ETag for a task, at most one is answered
\* with success, whatever versions clients guess and whatever fails.
THEOREM OneWinner == Spec => []SingleWinner
<1>1. LockingInv => SingleWinner
  BY DEF LockingInv, Winners, SingleWinner
<1> QED
  BY <1>1, LockingInvariance, PTL

\* 404 and 412 of the two-statement Update are true of one instant.
THEOREM AnswersJustified == Spec => []RepliesJustified
<1>1. LockingInv => RepliesJustified
  BY DEF LockingInv
<1> QED
  BY <1>1, LockingInvariance, PTL

\* An ETag identifies one content of a task for all clients.
THEOREM StrongETags == Spec => []ETagIdentifies
<1>1. LockingInv => ETagIdentifies
  BY DEF LockingInv
<1> QED
  BY <1>1, LockingInvariance, PTL

\* A row's version goes up by one with every change, and a deleted task never
\* comes back.
THEOREM VersionsMonotonic == Spec => VersionsStep
<1> DEFINE Step == \A i \in Ids :
        /\ rows[i].version = 0 /\ i \in named => rows'[i].version = 0
        /\ rows[i].version # 0 /\ rows'[i] # rows[i] =>
              rows'[i].version \in {0, rows[i].version + 1}
<1>1. ASSUME LockingInv, [Next]_vars PROVE [Step]_vars
  <2>1. CASE UNCHANGED vars
    BY <2>1
  <2>2. CASE Next
    <3>1. PICK c \in Clients :
            \/ Reads(c)
            \/ \E i \in Ids : Deletes(i)
            \/ \E i \in Ids, e \in Edits, row \in Tasks :
                  Writes(c, i, e, row) /\ Extends(i, e, row)
      BY <1>1, <2>2, StepKinds DEF LockingInv
    <3>2. ASSUME Reads(c) PROVE Step
      BY <3>2 DEF Reads
    <3>3. ASSUME NEW i \in Ids, Deletes(i) PROVE Step
      <4>1. \A j \in Ids : rows'[j] = IF j = i THEN NoTask ELSE rows[j]
        BY <1>1, <3>3 DEF Deletes, LockingInv, TypeOK
      <4> QED
        BY <4>1 DEF NoTask
    <3>4. ASSUME NEW i \in Ids, NEW e \in Edits, NEW row \in Tasks, Writes(c, i, e, row)
          PROVE  Step
      <4>1. \A j \in Ids : rows'[j] = IF j = i THEN row ELSE rows[j]
        BY <1>1, <3>4 DEF Writes, LockingInv, TypeOK
      <4>2. row.version = rows[i].version + 1 /\ (i \notin named \/ rows[i].version # 0)
        BY <3>4 DEF Writes
      <4> QED
        BY <4>1, <4>2
    <3>5. Step
      BY <3>1, <3>2, <3>3, <3>4
    <3> QED
      BY <3>5
  <2> QED
    BY <1>1, <2>1, <2>2
<1> QED
  BY <1>1, LockingInvariance, PTL DEF Spec, VersionsStep

\* No update is lost when every client sends the ETag of the representation it
\* edited: success answered to an edit means that the task incorporates it for
\* as long as it exists.
THEOREM NoUpdateLost ==
  ASSUME ~Guessing
  PROVE  Spec => []NoLostEdit
<1> DEFINE Inv == LockingInv /\ NoLostEdit
<1>1. Init => Inv
  <2>1. Init => NoLostEdit
    BY DEF Init, NoLostEdit, NoTask
  <2> QED
    BY <2>1, LockingInit
<1>2. Inv /\ [Next]_vars => Inv'
  <2> SUFFICES ASSUME LockingInv, NoLostEdit, [Next]_vars PROVE NoLostEdit'
    BY LockingStep
  <2>1. CASE UNCHANGED vars
    BY <2>1 DEF vars, ackVars, NoLostEdit
  <2>2. CASE Next
    <3>1. PICK c \in Clients :
            \/ Reads(c)
            \/ \E i \in Ids : Deletes(i)
            \/ \E i \in Ids, e \in Edits, row \in Tasks :
                  Writes(c, i, e, row) /\ Extends(i, e, row)
      BY <2>2, StepKinds DEF LockingInv
    <3>2. ASSUME Reads(c) PROVE NoLostEdit'
      BY <3>2 DEF Reads, NoLostEdit
    <3>3. ASSUME NEW i \in Ids, Deletes(i) PROVE NoLostEdit'
      <4>1. \A j \in Ids : rows'[j] = IF j = i THEN NoTask ELSE rows[j]
        BY <3>3 DEF Deletes, LockingInv, TypeOK
      <4>2. UNCHANGED acked
        BY <3>3 DEF Deletes, ackVars
      <4> QED
        BY <4>1, <4>2 DEF NoLostEdit, NoTask
    <3>4. ASSUME NEW i \in Ids, NEW e \in Edits, NEW row \in Tasks,
                 Writes(c, i, e, row), Extends(i, e, row)
          PROVE  NoLostEdit'
      <4>1. \A j \in Ids : rows'[j] = IF j = i THEN row ELSE rows[j]
        BY <3>4 DEF Writes, LockingInv, TypeOK
      <4>2. \A j \in Ids : acked'[j] \subseteq IF j = i THEN acked[j] \cup {e} ELSE acked[j]
        BY <3>4 DEF Writes, Win, ackVars, LockingInv, TypeOK
      <4>3. acked[i] \subseteq row.title
        <5>1. CASE i \notin named
          BY <5>1 DEF LockingInv, Fresh
        <5>2. CASE rows[i].version # 0
          BY <3>4, <5>2 DEF NoLostEdit, Extends
        <5> QED
          BY <3>4, <5>1, <5>2 DEF Writes
      <4>4. e \in row.title
        BY <3>4 DEF Extends
      <4> QED
        BY <4>1, <4>2, <4>3, <4>4 DEF NoLostEdit
    <3> QED
      BY <3>1, <3>2, <3>3, <3>4
  <2> QED
    BY <2>1, <2>2
<1>3. Inv => NoLostEdit
  OBVIOUS
<1> QED
  BY <1>1, <1>2, <1>3, PTL DEF Spec
=============================================================================
