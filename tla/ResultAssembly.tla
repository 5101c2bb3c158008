--------------------------- MODULE ResultAssembly ---------------------------
(***************************************************************************)
(* runresult turns one preserved run directory into run-result.json: it    *)
(* runs the evaluator, derives gates from the cases it reports, and writes *)
(* the artifacts one after the other.  The semantic validator and the      *)
(* analysis loader read what it leaves, after a crash too.                 *)
(***************************************************************************)
EXTENDS Sequences, FiniteSets, Integers

CONSTANTS
    Manifest,      \* case-manifest.json: a sequence of [id, task]
    Kind,          \* of an identifier: "baseline", "api", "database" or its task
    Registries,    \* rosters an evaluator image may have been built with
    Cells,         \* [task, mode, treatment] of the experiment matrix
    Workspaces,    \* preserved workspaces, and one that does not exist
    TargetFiles,   \* content of the files of target-manifest.json, by path
    Null           \* a JSON null, an absent value

ManifestIDs == {Manifest[i].id : i \in DOMAIN Manifest}
TaskOf(id) == Manifest[CHOOSE i \in DOMAIN Manifest : Manifest[i].id = id].task

Rosters == Seq([id : DOMAIN Kind, task : STRING])

ASSUME AssemblyAssumption ==
    /\ Manifest \in Rosters /\ Manifest # <<>> /\ Cardinality(ManifestIDs) = Len(Manifest)
    /\ \A i \in DOMAIN Manifest :
         Kind[Manifest[i].id] \in {"baseline", "api", "database"} => Manifest[i].task = "all"
    /\ Registries \subseteq Rosters
    /\ \A ws \in Workspaces : ws.exists \in BOOLEAN
    /\ Null \notin BOOLEAN /\ Null # "text"

Failures == {"infrastructure-failure", "harness-failure"}
Outputs == {"evaluation", "commands", "manifest", "result"}   \* in this order

VARIABLES
    cell, metadata, workspace,   \* what the driver left
    registry,                    \* roster of the evaluator image
    pc, evaluated,               \* the assembler, and its copy of the verdict
    files,                       \* each output: "absent", "torn" or "whole"
    recorded,                    \* content of workspace-manifest.json
    result,                      \* content of run-result.json
    verdict                      \* history: what the evaluator did

inputs == <<cell, metadata, workspace, registry>>
vars == <<inputs, pc, evaluated, files, recorded, result, verdict>>

-----------------------------------------------------------------------------
(* Formal inputs *)

Api == "api"
Queries == "queries"
Migrations(ws) == {p \in DOMAIN ws.files \ {Api, Queries} : ws.migration[p]}

checkPropagationTarget(ws) ==
    \A p \in DOMAIN TargetFiles : p \in DOMAIN ws.files /\ ws.files[p] = TargetFiles[p]

\* formal.sha256 is a sequence of lines [path, content hashed]; a line that is
\* not a hash and a path is one for the path Null.
checkFormalManifest(ws, expected) ==
    /\ ws.declared # <<>>
    /\ \A i \in DOMAIN ws.declared :
         LET line == ws.declared[i] IN
         /\ line.path \in expected
         /\ \A j \in 1 .. i - 1 : ws.declared[j].path # line.path
         /\ ws.files[line.path] = line.content
    /\ \A p \in expected : \E i \in DOMAIN ws.declared : ws.declared[i].path = p

checkFormalInputs(ws, mode) ==
    IF mode = "propagation-only" THEN checkPropagationTarget(ws)
    ELSE /\ {Api, Queries} \subseteq DOMAIN ws.files
         /\ ws.files[Api] \notin {"empty", "unparseable"} /\ ws.files[Queries] # "empty"
         /\ Migrations(ws) # {}
         /\ checkFormalManifest(ws, {Api, Queries} \cup Migrations(ws))

-----------------------------------------------------------------------------
(* The evaluator *)

Gates == <<"postgres", "build", "migrations", "ready">>

\* A report: the setup gates that were passed, a prefix of Gates, and one
\* entry for each case of the registry.  When setup fails, every applicable
\* case fails.
Case(entry, task, ok) ==
    LET applicable == entry.task \in {"all", task}
    IN  [id |-> entry.id, applicable |-> applicable,
         passed |-> IF applicable THEN entry.id \in ok ELSE Null,
         evidence |-> IF applicable THEN "text" ELSE Null]

Report(task, n, ok) ==
    [setup |-> {Gates[g] : g \in 1 .. n},
     cases |-> [i \in DOMAIN registry |-> Case(registry[i], task, ok)]]
Reports(task) ==
    {Report(task, n, {}) : n \in 0 .. 4} \cup {Report(task, 4, ok) : ok \in SUBSET ManifestIDs}

\* Ways the evaluator process ends without a report that may be read.
Crashes == {"deadline", "not started", "exit 2", "exit other", "no JSON"}

-----------------------------------------------------------------------------
(* Gates and classification *)

passed(cases, kinds) ==
    \A i \in DOMAIN cases :
        Kind[cases[i].id] \in kinds => cases[i].applicable /\ cases[i].passed = TRUE

deriveGates(report, formalOK, task) ==
    LET baselineOK == passed(report.cases, {"baseline"})
        taskOK == \A i \in DOMAIN report.cases :
                    LET c == report.cases[i]
                    IN  Kind[c.id] = task /\ c.applicable => c.passed = TRUE
    IN  [formalInputs |-> formalOK,
         build |-> "build" \in report.setup,
         migrations |-> "migrations" \in report.setup,
         serviceStart |-> "ready" \in report.setup,
         baselineBehavior |-> baselineOK,
         taskBehavior |-> IF task = "baseline-service" THEN baselineOK ELSE taskOK,
         regressions |-> baselineOK /\ passed(report.cases, {"api", "database"}),
         apiConformance |-> passed(report.cases, {"api"}),
         databaseConsistency |-> passed(report.cases, {"database"})]

\* Defect: a case missing from the evaluator's roster is not noticed.
checkRosterKnown(cases) ==
    \A i \in DOMAIN cases :
        /\ cases[i].id \in ManifestIDs
        /\ \A j \in 1 .. i - 1 : cases[j].id # cases[i].id

checkRoster(cases) ==
    /\ \A i \in DOMAIN cases :
         /\ cases[i].id \in ManifestIDs
         /\ \A j \in 1 .. i - 1 : cases[j].id # cases[i].id
    /\ \A id \in ManifestIDs : \E i \in DOMAIN cases : cases[i].id = id

Failure(status, category) == [status |-> status, category |-> category, evaluation |-> Null]

Evaluation(report, health) ==
    LET gates == deriveGates(report, checkFormalInputs(workspace, cell.mode), cell.task)
        failed == {report.cases[i].id : i \in
                     {j \in DOMAIN report.cases :
                        report.cases[j].applicable /\ report.cases[j].passed # TRUE}}
    IN  [status |-> metadata.status, category |-> Null,
         evaluation |->
           [gates |-> gates, cases |-> report.cases, health |-> health,
            residual |-> failed \cup (IF gates.formalInputs THEN {} ELSE {"gate:formal-inputs"}),
            complete |-> (\A g \in DOMAIN gates : gates[g]) /\ failed = {}]]

\* The outcome of a report; codegen is how the health container ends.
Classify(report, codegen) ==
    CASE "postgres" \notin report.setup ->
            Failure("infrastructure-failure", "evaluator-infrastructure-failure")
      [] "postgres" \in report.setup /\ ~checkRoster(report.cases) ->
            Failure("harness-failure", "harness-process-crash")
      [] OTHER ->
            IF cell.treatment # "codegen" THEN Evaluation(report, Null)
            ELSE IF codegen = "failed"
                 THEN Failure("infrastructure-failure", "host-container-runtime-failure")
                 ELSE Evaluation(report, codegen)

-----------------------------------------------------------------------------
(* assemble *)

Metadata(status) ==
    [status |-> status, replaces |-> FALSE, wall |-> "within",
     category |-> IF status \in Failures THEN "harness-process-crash" ELSE Null]

Init ==
    /\ cell \in Cells /\ workspace \in Workspaces /\ registry \in Registries
    /\ metadata \in {Metadata(s) : s \in Failures \cup {"submitted", "timed-out"}}
                \cup {[Metadata("submitted") EXCEPT !.wall = "over"],
                      [Metadata("submitted") EXCEPT !.replaces = TRUE]}
    /\ pc = "read" /\ evaluated = Null /\ recorded = Null /\ result = Null
    /\ (\E p \in DOMAIN workspace.files : workspace.hidden[p]) => metadata.status = "harness-failure"
    /\ files = [f \in Outputs |-> "absent"]
    /\ verdict = [reported |-> FALSE, report |-> Null, codegen |-> Null]

Writes(f) == files' = [files EXCEPT ![f] = "whole"]

\* metadata.json is read and checked; of what a driver may write, a wall clock over
\* the limit is refused, and a run to be evaluated that has no workspace.
Refuse ==
    /\ pc = "read"
    /\ metadata.wall = "over" \/ (metadata.status \notin Failures /\ ~workspace.exists)
    /\ pc' = "error"
    /\ UNCHANGED <<inputs, evaluated, files, recorded, result, verdict>>

\* The driver has already classified the run.
SkipEvaluation ==
    /\ pc = "read" /\ metadata.wall # "over" /\ metadata.status \in Failures
    /\ evaluated' = Failure(metadata.status, metadata.category)
    /\ Writes("evaluation") /\ pc' = "transcript"
    /\ UNCHANGED <<inputs, recorded, result, verdict>>

evaluateCandidate ==
    /\ pc = "read" /\ metadata.wall # "over" /\ metadata.status \notin Failures
    /\ workspace.exists
    /\ \/ \E crash \in Crashes :
            /\ verdict' = [reported |-> FALSE, report |-> Null, codegen |-> crash]
            /\ evaluated' = Failure("harness-failure", "harness-process-crash")
       \/ \E report \in Reports(cell.task), codegen \in {"failed", "canonical", "edited"} :
            /\ verdict' = [reported |-> TRUE, report |-> report, codegen |-> codegen]
            /\ evaluated' = Classify(report, codegen)
    /\ Writes("evaluation") /\ pc' = "transcript"
    /\ UNCHANGED <<inputs, recorded, result>>

\* parseTranscript, writeCommands and classifyPatch.
Transcript ==
    /\ pc = "transcript"
    /\ \/ Writes("commands") /\ pc' = "manifest"
       \/ UNCHANGED files /\ pc' = "error"
    /\ UNCHANGED <<inputs, evaluated, recorded, result, verdict>>

Visible(ws) == {p \in DOMAIN ws.files : ~ws.hidden[p]}
Walked(ws) == IF ws.exists THEN Visible(ws) ELSE {}

\* Defect: files in hidden directories are recorded too.
writeWorkspaceManifestAll ==
    /\ pc = "manifest"
    /\ recorded' = workspace.files
    /\ Writes("manifest") /\ pc' = "write"
    /\ UNCHANGED <<inputs, evaluated, result, verdict>>

\* A missing workspace produces an empty manifest rather than an error.
writeWorkspaceManifest ==
    /\ pc = "manifest"
    /\ recorded' = [p \in Walked(workspace) |-> workspace.files[p]]
    /\ Writes("manifest") /\ pc' = "write"
    /\ UNCHANGED <<inputs, evaluated, result, verdict>>

\* run-result.schema.json, which says nothing of category names or rosters.
Schema(r) ==
    /\ IF r.status \in Failures THEN r.evaluation = Null /\ r.isFailure ELSE r.evaluation # Null
    /\ ~r.isFailure => r.category = Null
    /\ r.evaluation # Null =>
         /\ (r.evaluation.health = Null) = (r.cell.treatment # "codegen")
         /\ \A i \in DOMAIN r.evaluation.cases :
              LET c == r.evaluation.cases[i] IN
              /\ c.applicable = (c.passed # Null)
              /\ r.evaluation.complete => c.passed # FALSE
         /\ r.evaluation.complete => \A g \in DOMAIN r.evaluation.gates : r.evaluation.gates[g]

Assembled ==
    [cell |-> cell, status |-> evaluated.status, evaluation |-> evaluated.evaluation,
     isFailure |-> evaluated.status \in Failures, category |-> evaluated.category,
     replaces |-> metadata.replaces]

WriteResult ==
    /\ pc = "write"
    /\ IF Schema(Assembled)
       THEN result' = Assembled /\ Writes("result") /\ pc' = "done"
       ELSE UNCHANGED <<result, files>> /\ pc' = "error"
    /\ UNCHANGED <<inputs, evaluated, recorded, verdict>>

\* The output that the assembler writes next.
NextOutput == CASE pc = "read" -> "evaluation" [] pc = "transcript" -> "commands"
                [] pc = "manifest" -> "manifest" [] OTHER -> "result"

\* The process is killed, in the middle of a write or between two; the host goes on,
\* so that what was written before is there.
Crash ==
    /\ pc \in {"read", "transcript", "manifest", "write"}
    /\ pc' = "crashed"
    /\ files' \in {files, [files EXCEPT ![NextOutput] = "torn"]}
    /\ UNCHANGED <<inputs, evaluated, recorded, result, verdict>>

Finished == pc \in {"done", "error", "crashed"} /\ UNCHANGED vars

Next == Refuse \/ SkipEvaluation \/ evaluateCandidate \/ Transcript
        \/ writeWorkspaceManifest \/ WriteResult \/ Crash \/ Finished

Spec == Init /\ [][Next]_vars

-----------------------------------------------------------------------------
(* Readers of the run directory *)

Categories == {"model-provider-outage", "harness-process-crash", "host-container-runtime-failure",
               "evaluator-infrastructure-failure", "artifact-storage-failure"}

\* Defect: the applicability of a case is taken from the result.
validCaseAsReported(c, task) == (c.passed # Null) = c.applicable /\ (c.evidence # Null) = c.applicable

validCase(c, task) ==
    /\ c.applicable = (TaskOf(c.id) \in {"all", task})
    /\ (c.passed # Null) = c.applicable /\ (c.evidence # Null) = c.applicable

\* All cases of the manifest are required.
validateEvaluation(r) ==
    IF r.status \in Failures
    THEN r.evaluation = Null /\ r.isFailure /\ r.category \in Categories
    ELSE /\ r.evaluation # Null /\ ~r.isFailure
         /\ LET cases == r.evaluation.cases IN
            /\ checkRoster(cases)
            /\ \A i \in DOMAIN cases : validCase(cases[i], r.cell.task)
            /\ r.evaluation.complete =
                 /\ \A g \in DOMAIN r.evaluation.gates : r.evaluation.gates[g]
                 /\ \A i \in DOMAIN cases : cases[i].applicable => cases[i].passed = TRUE

\* The workspace is required, whatever the status of the run.
verifyManifest ==
    /\ workspace.exists
    /\ DOMAIN recorded = Visible(workspace)
    /\ \A p \in DOMAIN recorded : recorded[p] = workspace.files[p]

\* freezecheck run: every artifact exists, whole or not.
validateRunDocument ==
    /\ files["result"] = "whole" /\ Schema(result) /\ result.cell = cell
    /\ \A f \in Outputs : files[f] # "absent"
    /\ verifyManifest /\ validateEvaluation(result) /\ ~result.replaces

\* The entry of the analysis index; Null when load refuses the directory.
load ==
    IF files["result"] # "whole" \/ ~Schema(result) THEN Null
    ELSE [status |-> result.status,
          completeSuccess |-> IF result.evaluation = Null THEN Null ELSE result.evaluation.complete]

-----------------------------------------------------------------------------
(* Properties *)

\* Every case of the roster has the task the manifest gives it.
TasksAgree == \A i \in DOMAIN registry :
                 registry[i].id \in ManifestIDs => registry[i].task = TaskOf(registry[i].id)

\* What runresult publishes the semantic validator accepts, wherever the
\* assembler may be killed: run-result.json comes last, its artifacts are
\* whole, and both programs walk the same files and count the same cases.
\* Excepted are replacements, which one-run validation refuses, an evaluator
\* that runs a case for another task than the manifest names, and exactly the
\* failed runs without a workspace, for which runresult writes an empty manifest
\* that the validator refuses for want of a directory to compare it with.
AssembledAccepted ==
    files["result"] = "whole" /\ ~result.replaces /\ TasksAgree =>
        /\ \A f \in Outputs : files[f] = "whole"
        /\ validateRunDocument <=> workspace.exists
        /\ workspace.exists \/ metadata.status \in Failures

\* Whatever roster the evaluator has, a result that the validator accepts says
\* completeSuccess exactly when setup and formal inputs were right and every
\* case the manifest asks of this task was run and passed: no gate is true
\* because its case was not reported or not run.
AcceptedVerdictExact ==
    validateRunDocument /\ result.evaluation # Null =>
        (result.evaluation.complete <=>
            /\ verdict.report.setup = {Gates[g] : g \in 1 .. 4}
            /\ checkFormalInputs(workspace, cell.mode)
            /\ \A id \in ManifestIDs : TaskOf(id) \in {"all", cell.task} =>
                 \E i \in DOMAIN verdict.report.cases :
                     verdict.report.cases[i].id = id /\ verdict.report.cases[i].passed = TRUE)

\* The evaluator gave a verdict on the candidate: it had its database, ran the
\* roster of the manifest, and the generators could be run.
Trustworthy ==
    /\ verdict.reported
    /\ "postgres" \in verdict.report.setup
    /\ Len(registry) = Len(Manifest) /\ {registry[i].id : i \in DOMAIN registry} = ManifestIDs
    /\ cell.treatment = "codegen" => verdict.codegen # "failed"

\* The analysis index holds a success or a failure of the candidate when the
\* evaluator gave a verdict on it, and only then: neither is a candidate
\* charged with a failure of the harness, nor excused from one of its own.
IndexedIffTrustworthy ==
    load # Null => (load.completeSuccess # Null <=> metadata.status \notin Failures /\ Trustworthy)

-----------------------------------------------------------------------------
(* The inductive invariant *)

Inputs ==
    /\ registry \in Registries
    /\ metadata.status \in Failures => metadata.category \in Categories

\* What the assembler holds is what its inputs and the evaluator made of the run.
Judged ==
    \/ metadata.status \in Failures /\ evaluated = Failure(metadata.status, metadata.category)
    \/ /\ metadata.status \notin Failures /\ workspace.exists /\ ~verdict.reported
       /\ evaluated = Failure("harness-failure", "harness-process-crash")
    \/ /\ metadata.status \notin Failures /\ workspace.exists /\ verdict.reported
       /\ verdict.report \in Reports(cell.task)
       /\ evaluated = Classify(verdict.report, verdict.codegen)

\* The outputs are written in their order, each whole before the next.
Outputted ==
    /\ DOMAIN files = Outputs
    /\ files["result"] = "whole" => pc = "done"
    /\ pc \in {"transcript", "manifest", "write", "done"} => Judged /\ files["evaluation"] = "whole"
    /\ pc \in {"manifest", "write", "done"} => files["commands"] = "whole"
    /\ pc \in {"write", "done"} =>
         files["manifest"] = "whole" /\ recorded = [p \in Walked(workspace) |-> workspace.files[p]]
    /\ pc = "done" => files["result"] = "whole" /\ result = Assembled /\ Schema(result)

AssemblyInv == Inputs /\ Outputted

=============================================================================
