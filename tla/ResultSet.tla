----------------------------- MODULE ResultSet -----------------------------
(***************************************************************************)
(* The results directory of one phase.  The driver adds run directories, a *)
(* reviewer excludes failed runs and links their replacements, by hand and *)
(* one file at a time; freezecheck results and the analysis loader read    *)
(* the directory at any moment.                                            *)
(***************************************************************************)
EXTENDS Integers, FiniteSets

CONSTANTS
    Dirs,        \* names of run directories
    Scheduled,   \* run identifiers of the frozen schedule
    Extra,       \* run identifiers that a reviewer assigns to replacements
    Cell,        \* cell of each run identifier
    Null         \* JSON null; no run-result.json

ASSUME SetAssumption == IsFiniteSet(Dirs) /\ Null \notin Scheduled \cup Extra

RunIDs == Scheduled \cup Extra
VARIABLES
    present,   \* run directories that exist
    result     \* run-result.json of each directory

vars == <<present, result>>

WithResult == {d \in present : result[d] # Null}
Holding(id) == {d \in WithResult : result[d].id = id}

Init == present = {} /\ result = [d \in Dirs |-> Null]

-----------------------------------------------------------------------------
(* Run driver and reviewer *)

NewResult(id, failure, replaces) ==
    [id |-> id, cell |-> Cell[id], isFailure |-> failure, eligible |-> FALSE,
     excluded |-> FALSE, replacement |-> Null, replaces |-> replaces]

\* The driver takes the cell of a run from a schedule that names it, refuses a
\* directory that exists, and may stop before there is a result.
Drive(d, id) ==
    /\ d \notin present
    /\ present' = present \cup {d}
    /\ \/ UNCHANGED result
       \/ \E failure \in BOOLEAN :
            result' = [result EXCEPT ![d] = NewResult(id, failure, Null)]

\* A reviewer excludes a failed run and names its replacement.
Exclude(d, id) ==
    /\ d \in WithResult /\ result[d].isFailure /\ result[d].replacement = Null
    /\ result' = [result EXCEPT ![d].eligible = TRUE, ![d].excluded = TRUE, ![d].replacement = id]
    /\ UNCHANGED present

\* A reviewer links a run back to the one it replaces.
LinkBack(d, id) ==
    /\ d \in WithResult /\ result[d].replaces = Null
    /\ result' = [result EXCEPT ![d].replaces = id]
    /\ UNCHANGED present

\* The whole of the replacement rules: a new run identifier, the same cell, and
\* links in both results.
Replace(o, d, id) ==
    /\ d \notin present /\ o \in WithResult
    /\ result[o].isFailure /\ ~result[o].excluded
    /\ Holding(id) = {} /\ Cell[id] = result[o].cell
    /\ present' = present \cup {d}
    /\ result' = [result EXCEPT ![o].eligible = TRUE, ![o].excluded = TRUE, ![o].replacement = id,
                                ![d] = NewResult(id, FALSE, result[o].id)]

\* The validator and the loader change nothing.
Read == UNCHANGED vars

Next ==
    \/ \E d \in Dirs, id \in RunIDs : Drive(d, id) \/ Exclude(d, id) \/ LinkBack(d, id)
    \/ \E o, d \in Dirs, id \in RunIDs : Replace(o, d, id)
    \/ Read

Spec == Init /\ [][Next]_vars

-----------------------------------------------------------------------------
(* freezecheck results *)

\* The rules for one result that concern the schedule, exclusion and links.
validateRunDocument(r) ==
    /\ r.id \in Scheduled
    /\ r.excluded => r.isFailure /\ r.eligible /\ r.replacement # Null
    /\ ~r.isFailure => r.replacement = Null

resolves(id, r) == id # r.id /\ Cardinality(Holding(id)) = 1

\* Defect: a replacement may stand in for a run of any cell.
linkedAnyCell(id, r, back) ==
    resolves(id, r) /\ \A d \in Holding(id) : (IF back THEN result[d].replacement ELSE result[d].replaces) = r.id

\* The run named by id resolves uniquely, has the same cell and points back.
linked(id, r, back) ==
    /\ resolves(id, r)
    /\ \A d \in Holding(id) :
         /\ result[d].cell = r.cell
         /\ (IF back THEN result[d].replacement ELSE result[d].replaces) = r.id

links(r) ==
    /\ r.replacement # Null => linked(r.replacement, r, FALSE)
    /\ r.replaces # Null => linked(r.replaces, r, TRUE)

\* Defect: two results for one run are not noticed.
validateResultsLoose ==
    WithResult # {} /\ \A d \in WithResult : validateRunDocument(result[d]) /\ links(result[d])

\* Directories without run-result.json are skipped.
validateResults ==
    /\ WithResult # {}
    /\ \A d \in WithResult :
         /\ validateRunDocument(result[d])
         /\ Holding(result[d].id) = {d}
         /\ links(result[d])

-----------------------------------------------------------------------------
(* The analysis loader *)

\* load refuses the directory.
Refused ==
    \/ present = {} \/ WithResult # present
    \/ \E d \in present : Holding(result[d].id) # {d}

-----------------------------------------------------------------------------
(* Properties *)

\* run-result.json as the driver writes it and a reviewer edits it.
Results ==
    [id : RunIDs, cell : {Cell[id] : id \in RunIDs}, isFailure : BOOLEAN, eligible : BOOLEAN,
     excluded : BOOLEAN, replacement : RunIDs \cup {Null}, replaces : RunIDs \cup {Null}]

TypeOK == present \subseteq Dirs /\ result \in [Dirs -> Results \cup {Null}]

\* path follows n links to a replacement, all within the cell of its first run.
Chain(path, n) ==
    \A i \in 1 .. n :
        /\ path[i] \in Holding(result[path[i - 1]].replacement)
        /\ result[path[i]].cell = result[path[0]].cell

\* In an accepted set no two runs share a replacement, and the replacements of
\* an excluded run lead, through runs of its cell, to one that counts, or come
\* back to the run itself: a ring of failed runs that replace one another is
\* all that pairwise checks of the links leave open.
ChainsEndCounted ==
    validateResults =>
        \A d \in WithResult : result[d].excluded =>
            /\ \A e \in WithResult \ {d} : result[e].replacement # result[d].replacement
            /\ \E n \in 1 .. Cardinality(Dirs) : \E path \in [0 .. n -> WithResult] :
                 /\ path[0] = d /\ Chain(path, n)
                 /\ ~result[path[n]].excluded \/ path[n] = d

\* The analysis refuses a set that the validator accepts exactly when some run
\* directory has no result, which the validator skips.
AcceptedLoads == validateResults => (Refused <=> WithResult # present)

=============================================================================
