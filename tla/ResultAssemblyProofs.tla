------------------------ MODULE ResultAssemblyProofs ------------------------
(***************************************************************************)
(* What the result assembler publishes, for every manifest, every roster   *)
(* an evaluator may have and every workspace.                              *)
(***************************************************************************)
EXTENDS ResultAssembly, FiniteSetTheorems, TLAPS

-----------------------------------------------------------------------------
(* Rosters and reports *)

\* The indices and members of a sequence.
LEMMA SequenceShape ==
  ASSUME NEW S, NEW r \in Seq(S)
  PROVE  /\ Len(r) \in Nat /\ DOMAIN r = 1 .. Len(r)
         /\ \A i \in DOMAIN r : r[i] \in S
  OBVIOUS

\* The indices and identifiers of a roster.
LEMMA RosterShape ==
  ASSUME NEW r \in Rosters
  PROVE  /\ Len(r) \in Nat /\ DOMAIN r = 1 .. Len(r)
         /\ \A i \in DOMAIN r : r[i].id \in DOMAIN Kind
<1>1. /\ Len(r) \in Nat /\ DOMAIN r = 1 .. Len(r)
      /\ \A i \in DOMAIN r : r[i] \in [id : DOMAIN Kind, task : STRING]
  BY SequenceShape DEF Rosters
<1> QED
  BY <1>1

\* An entry of a report says what the registry says of it.
Reported(c, entry, task) ==
  /\ c.id = entry.id
  /\ c.applicable = (entry.task \in {"all", task})
  /\ IF c.applicable THEN c.passed \in BOOLEAN /\ c.evidence = "text"
                     ELSE c.passed = Null /\ c.evidence = Null

\* A report has one case per entry of the registry, and the gates up to the first that failed.
LEMMA ReportShape ==
  ASSUME registry \in Registries, NEW task, NEW report \in Reports(task)
  PROVE  /\ DOMAIN report.cases = DOMAIN registry
         /\ \A i \in DOMAIN registry : Reported(report.cases[i], registry[i], task)
         /\ \E n \in 0 .. 4 : report.setup = {Gates[g] : g \in 1 .. n}
<1>1. PICK n \in 0 .. 4, ok \in SUBSET ManifestIDs : report = Report(task, n, ok)
  BY DEF Reports
<1>2. /\ report.setup = {Gates[g] : g \in 1 .. n}
      /\ report.cases = [i \in DOMAIN registry |-> Case(registry[i], task, ok)]
  BY <1>1 DEF Report
<1>3. \A i \in DOMAIN registry : Reported(Case(registry[i], task, ok), registry[i], task)
  <2>1. SUFFICES ASSUME NEW e PROVE Reported(Case(e, task, ok), e, task)
    OBVIOUS
  <2>2. /\ Case(e, task, ok).id = e.id
        /\ Case(e, task, ok).applicable <=> e.task \in {"all", task}
    BY DEF Case
  <2>3. Case(e, task, ok).applicable = (e.task \in {"all", task})
    BY DEF Case
  <2>4. CASE e.task \in {"all", task}
    <3>1. Case(e, task, ok).passed \in BOOLEAN
      BY <2>4 DEF Case
    <3>2. Case(e, task, ok).evidence = "text"
      BY <2>4 DEF Case
    <3> QED
      BY <2>2, <2>3, <2>4, <3>1, <3>2 DEF Reported
  <2>5. CASE e.task \notin {"all", task}
    <3>1. Case(e, task, ok).passed = Null
      BY <2>5 DEF Case
    <3>2. Case(e, task, ok).evidence = Null
      BY <2>5 DEF Case
    <3> QED
      BY <2>2, <2>3, <2>5, <3>1, <3>2 DEF Reported
  <2> QED
    BY <2>4, <2>5
<1> QED
  BY <1>2, <1>3

\* Setup gates are passed in their order, so that the service being ready stands for
\* all of them.
LEMMA SetupComplete ==
  ASSUME NEW n \in 0 .. 4, NEW S, S = {Gates[g] : g \in 1 .. n}
  PROVE  /\ "ready" \in S => S = {Gates[g] : g \in 1 .. 4}
         /\ S = {Gates[g] : g \in 1 .. 4} =>
               "postgres" \in S /\ "build" \in S /\ "migrations" \in S /\ "ready" \in S
<1>1. /\ Gates[1] = "postgres" /\ Gates[2] = "build" /\ Gates[3] = "migrations" /\ Gates[4] = "ready"
  BY DEF Gates
<1>2. ASSUME "ready" \in S PROVE n = 4
  <2>1. PICK g \in 1 .. n : Gates[g] = "ready"
    BY <1>2
  <2>2. g = 1 \/ g = 2 \/ g = 3 \/ g = 4
    OBVIOUS
  <2> QED
    BY <1>1, <2>1, <2>2
<1>3. ASSUME S = {Gates[g] : g \in 1 .. 4}
      PROVE  "postgres" \in S /\ "build" \in S /\ "migrations" \in S /\ "ready" \in S
  <2>1. 1 \in 1 .. 4 /\ 2 \in 1 .. 4 /\ 3 \in 1 .. 4 /\ 4 \in 1 .. 4
    OBVIOUS
  <2> QED
    BY <1>1, <1>3, <2>1
<1> QED
  BY <1>2, <1>3

\* TaskOf is the task of the entry of the manifest.
LEMMA TaskOfEntry ==
  ASSUME NEW id \in ManifestIDs
  PROVE  /\ id \in DOMAIN Kind
         /\ Kind[id] \in {"baseline", "api", "database"} => TaskOf(id) = "all"
<1> DEFINE k == CHOOSE i \in DOMAIN Manifest : Manifest[i].id = id
<1>1. \E i \in DOMAIN Manifest : Manifest[i].id = id
  BY DEF ManifestIDs
<1>2. k \in DOMAIN Manifest /\ Manifest[k].id = id
  BY <1>1
<1>3. TaskOf(id) = Manifest[k].task
  BY DEF TaskOf
<1> HIDE DEF k
<1> QED
  BY <1>2, <1>3, RosterShape, AssemblyAssumption

\* checkRoster finds no fault with a roster exactly when it has the cases of the
\* manifest, each once: comparing lengths and sets would do.
LEMMA RosterExact ==
  ASSUME registry \in Registries, NEW task, NEW report \in Reports(task)
  PROVE  checkRoster(report.cases) <=>
            Len(registry) = Len(Manifest) /\ {registry[i].id : i \in DOMAIN registry} = ManifestIDs
<1> DEFINE n == Len(registry)
           ids == {registry[i].id : i \in DOMAIN registry}
           f == [i \in 1 .. n |-> registry[i].id]
<1>1. n \in Nat /\ DOMAIN registry = 1 .. n
  BY RosterShape, AssemblyAssumption
<1>2. /\ DOMAIN report.cases = 1 .. n
      /\ \A i \in 1 .. n : report.cases[i].id = f[i]
  BY <1>1, ReportShape DEF Reported
<1>3. f \in Surjection(1 .. n, ids)
  BY <1>1 DEF Surjection
<1>4. IsFiniteSet(1 .. n) /\ Cardinality(1 .. n) = n
  <2>1. 1 \in Int /\ n \in Int /\ (1 > n => n = 0) /\ n - 1 + 1 = n
    BY <1>1
  <2> QED
    BY <2>1, FS_Interval
<1>5. \A x : x \in ids <=> \E i \in 1 .. n : f[i] = x
  BY <1>1
<1>6. Cardinality(ManifestIDs) = Len(Manifest)
  BY AssemblyAssumption
<1> HIDE DEF n, f, ids
<1>7. ASSUME checkRoster(report.cases)
      PROVE  n = Len(Manifest) /\ ids = ManifestIDs
  <2>1. /\ \A i \in 1 .. n : f[i] \in ManifestIDs /\ \A j \in 1 .. i - 1 : f[j] # f[i]
        /\ \A id \in ManifestIDs : \E i \in 1 .. n : f[i] = id
    <3>1. \A i \in 1 .. n : \A j \in 1 .. i - 1 : j \in 1 .. n
      BY <1>1
    <3> QED
      BY <1>2, <1>7, <3>1 DEF checkRoster
  <2>2. ids = ManifestIDs
    <3>1. ids \subseteq ManifestIDs
      BY <1>5, <2>1
    <3>2. ManifestIDs \subseteq ids
      BY <1>5, <2>1
    <3> QED
      BY <3>1, <3>2
  <2>3. \A i, j \in 1 .. n : f[i] = f[j] => i = j
    <3>1. ASSUME NEW i \in 1 .. n, NEW j \in 1 .. n, f[i] = f[j], i # j PROVE FALSE
      <4>1. i \in 1 .. j - 1 \/ j \in 1 .. i - 1
        BY <1>1, <3>1
      <4> QED
        BY <2>1, <3>1, <4>1
    <3> QED
      BY <3>1
  <2>4. f \in Bijection(1 .. n, ids)
    <3>1. f \in [1 .. n -> ids]
      BY <1>3 DEF Surjection
    <3>2. f \in Injection(1 .. n, ids)
      BY <2>3, <3>1 DEF Injection, IsInjective
    <3> QED
      BY <1>3, <3>2 DEF Bijection
  <2>5. Cardinality(ids) = n
    BY <1>1, <2>4, FS_CountingElements DEF ExistsBijection
  <2> QED
    BY <1>6, <2>2, <2>5
<1>8. ASSUME n = Len(Manifest), ids = ManifestIDs
      PROVE  checkRoster(report.cases)
  <2>1. Cardinality(1 .. n) = Cardinality(ids)
    BY <1>4, <1>6, <1>8
  <2>2. f \in Injection(1 .. n, ids)
    BY <1>3, <1>4, <2>1, FS_SurjSameCardinalityImpliesInj
  <2>3. \A i, j \in 1 .. n : f[i] = f[j] => i = j
    BY <2>2 DEF Injection, IsInjective
  <2>4. \A i \in 1 .. n : \A j \in 1 .. i - 1 : j \in 1 .. n /\ j # i
    BY <1>1
  <2>5. \A i \in 1 .. n : f[i] \in ManifestIDs
    BY <1>5, <1>8
  <2>6. \A id \in ManifestIDs : \E i \in 1 .. n : f[i] = id
    BY <1>5, <1>8
  <2> QED
    BY <1>2, <2>3, <2>4, <2>5, <2>6 DEF checkRoster
<1> QED
  BY <1>7, <1>8 DEF n, ids

-----------------------------------------------------------------------------
(* The assembler *)

\* What the driver left and the evaluator's roster do not change, nor does what is
\* made of them.
LEMMA FixedInputs ==
  ASSUME UNCHANGED inputs
  PROVE  /\ \A task : Reports(task)' = Reports(task)
         /\ \A report, health : Evaluation(report, health)' = Evaluation(report, health)
         /\ \A report, codegen : Classify(report, codegen)' = Classify(report, codegen)
<1>0. cell' = cell /\ metadata' = metadata /\ workspace' = workspace /\ registry' = registry
  BY DEF inputs
<1>1. \A task, n, ok : Report(task, n, ok)' = Report(task, n, ok)
  BY <1>0 DEF Report
<1>2. \A task : Reports(task)' = Reports(task)
  BY <1>1 DEF Reports
<1>3. \A report, health : Evaluation(report, health)' = Evaluation(report, health)
  BY <1>0 DEF Evaluation
<1>4. \A report, codegen : Classify(report, codegen)' = Classify(report, codegen)
  BY <1>0, <1>3 DEF Classify
<1> QED
  BY <1>2, <1>3, <1>4

\* What was judged stays judged while its inputs do.
LEMMA JudgedStays ==
  ASSUME UNCHANGED <<inputs, evaluated, verdict>>, Judged
  PROVE  Judged'
<1>0. /\ cell' = cell /\ metadata' = metadata /\ workspace' = workspace /\ evaluated' = evaluated /\ verdict' = verdict
      /\ UNCHANGED inputs
  BY DEF inputs
<1>1. Reports(cell.task)' = Reports(cell.task)
  BY <1>0, FixedInputs DEF Reports, Report, inputs
<1>2. Classify(verdict.report, verdict.codegen)' = Classify(verdict.report, verdict.codegen)
  BY <1>0, FixedInputs DEF Classify, Evaluation, inputs
<1> QED
  BY <1>0, <1>1, <1>2 DEF Judged

\* Nothing has been written.
LEMMA AssemblyInvInit == Init => AssemblyInv
<1> SUFFICES ASSUME Init PROVE AssemblyInv
  OBVIOUS
<1>1. Outputted
  BY DEF Init, Outputted, Outputs
<1>2. metadata.status \in Failures => metadata.category \in Categories
  BY DEF Init, Metadata, Failures, Categories
<1> QED
  BY <1>1, <1>2 DEF Init, AssemblyInv, Inputs

\* Every step of the assembler and every crash keeps the invariant.
LEMMA AssemblyInvStep ==
  ASSUME AssemblyInv, [Next]_vars
  PROVE  AssemblyInv'
<1>0. Inputs /\ Outputted
  BY DEF AssemblyInv
<1>1. UNCHANGED inputs
  BY DEF Next, Refuse, SkipEvaluation, evaluateCandidate, Transcript, writeWorkspaceManifest,
     WriteResult, Crash, Finished, vars
<1>2. Inputs'
  BY <1>0, <1>1 DEF Inputs, inputs
<1>3. Outputted'
  <2>1. CASE Refuse
    BY <1>0, <2>1 DEF Outputted, Refuse
  <2>2. CASE SkipEvaluation
    <3>1. Judged'
      BY <1>1, <2>2 DEF SkipEvaluation, Judged, Failure, inputs
    <3> QED
      BY <1>0, <2>2, <3>1 DEF Outputted, SkipEvaluation, Writes, Outputs
  <2>3. CASE evaluateCandidate
    <3>1. Judged'
      <4>1. CASE \E crash \in Crashes :
                   /\ verdict' = [reported |-> FALSE, report |-> Null, codegen |-> crash]
                   /\ evaluated' = Failure("harness-failure", "harness-process-crash")
        BY <1>1, <2>3, <4>1 DEF evaluateCandidate, Judged, Failure, inputs
      <4>2. CASE \E report \in Reports(cell.task), codegen \in {"failed", "canonical", "edited"} :
                   /\ verdict' = [reported |-> TRUE, report |-> report, codegen |-> codegen]
                   /\ evaluated' = Classify(report, codegen)
        <5>1. PICK report \in Reports(cell.task), codegen \in {"failed", "canonical", "edited"} :
                   /\ verdict' = [reported |-> TRUE, report |-> report, codegen |-> codegen]
                   /\ evaluated' = Classify(report, codegen)
          BY <4>2
        <5>2. verdict'.reported /\ verdict'.report = report /\ verdict'.codegen = codegen
          BY <5>1
        <5>3. Classify(report, codegen)' = Classify(report, codegen)
          BY <1>1, FixedInputs
        <5>4. Classify(verdict.report, verdict.codegen)' = Classify(report, codegen)
          BY <5>2, <5>3 DEF Classify, Evaluation
        <5>5. Reports(cell.task)' = Reports(cell.task)
          BY <1>1 DEF inputs, Reports, Report
        <5> QED
          BY <1>1, <2>3, <5>1, <5>2, <5>4, <5>5 DEF evaluateCandidate, Judged, inputs
      <4> QED
        BY <2>3, <4>1, <4>2 DEF evaluateCandidate
    <3> QED
      BY <1>0, <2>3, <3>1 DEF Outputted, evaluateCandidate, Writes, Outputs
  <2>4. CASE Transcript
    <3>1. Judged'
      BY <1>0, <2>4, JudgedStays DEF Outputted, Transcript
    <3> QED
      BY <1>0, <2>4, <3>1 DEF Outputted, Transcript, Writes, Outputs
  <2>5. CASE writeWorkspaceManifest
    <3>1. Judged'
      BY <1>0, <2>5, JudgedStays DEF Outputted, writeWorkspaceManifest
    <3> QED
      BY <1>0, <1>1, <2>5, <3>1 DEF Outputted, writeWorkspaceManifest, Writes, Outputs, inputs
  <2>6. CASE WriteResult
    <3>1. Judged'
      BY <1>0, <2>6, JudgedStays DEF Outputted, WriteResult
    <3>2. Assembled' = Assembled
      BY <1>1, <2>6 DEF WriteResult, Assembled, inputs
    <3>3. recorded' = recorded /\ [p \in Walked(workspace) |-> workspace.files[p]]'
                                    = [p \in Walked(workspace) |-> workspace.files[p]]
      BY <1>1, <2>6 DEF WriteResult, inputs
    <3>4. CASE Schema(Assembled)
      <4>1. /\ result' = Assembled /\ files' = [files EXCEPT !["result"] = "whole"] /\ pc' = "done"
            /\ pc = "write"
        BY <2>6, <3>4 DEF WriteResult, Writes
      <4>2. Schema(result')
        BY <3>4, <4>1
      <4>3. Schema(result)'
        BY <4>2 DEF Schema
      <4> QED
        BY <1>0, <3>1, <3>2, <3>3, <4>1, <4>3 DEF Outputted, Outputs
    <3>5. CASE ~Schema(Assembled)
      BY <1>0, <2>6, <3>5 DEF Outputted, WriteResult
    <3> QED
      BY <3>4, <3>5
  <2>7. CASE Crash
    <3>1. pc' = "crashed" /\ DOMAIN files' = Outputs /\ files'["result"] # "whole"
      BY <1>0, <2>7 DEF Outputted, Crash, Outputs
    <3> QED
      BY <3>1 DEF Outputted
  <2>8. CASE Finished \/ UNCHANGED vars
    <3>0. UNCHANGED vars
      BY <2>8 DEF Finished
    <3>1. Judged => Judged'
      BY <3>0, JudgedStays DEF vars
    <3>2. Assembled' = Assembled /\ (Schema(result) => Schema(result)')
      BY <3>0 DEF vars, inputs, Assembled, Schema
    <3> QED
      BY <1>0, <3>0, <3>1, <3>2 DEF Outputted, vars, inputs
  <2> QED
    BY <2>1, <2>2, <2>3, <2>4, <2>5, <2>6, <2>7, <2>8 DEF Next
<1> QED
  BY <1>2, <1>3 DEF AssemblyInv

\* The inductive invariant holds wherever the assembler is stopped.
THEOREM AssemblyInvariance == Spec => []AssemblyInv
<1>1. Init => AssemblyInv
  BY AssemblyInvInit
<1>2. AssemblyInv /\ [Next]_vars => AssemblyInv'
  BY AssemblyInvStep
<1> QED
  BY <1>1, <1>2, PTL DEF Spec

-----------------------------------------------------------------------------
(* Verdicts *)

\* The gates of a report on the candidate.
GatesOf(report) == deriveGates(report, checkFormalInputs(workspace, cell.mode), cell.task)

AllPassed(cases) == \A i \in DOMAIN cases : cases[i].applicable => cases[i].passed = TRUE

\* completeSuccess is the conjunction of the gates and of the cases.
LEMMA EvaluationShape ==
  ASSUME NEW report, NEW health
  PROVE  /\ Evaluation(report, health).status = metadata.status
         /\ Evaluation(report, health).category = Null
         /\ Evaluation(report, health).evaluation.cases = report.cases
         /\ Evaluation(report, health).evaluation.gates = GatesOf(report)
         /\ Evaluation(report, health).evaluation.complete \in BOOLEAN
         /\ Evaluation(report, health).evaluation.complete <=>
               (\A g \in DOMAIN GatesOf(report) : GatesOf(report)[g]) /\ AllPassed(report.cases)
<1> DEFINE failed == {report.cases[i].id : i \in
                        {j \in DOMAIN report.cases :
                           report.cases[j].applicable /\ report.cases[j].passed # TRUE}}
           residual == failed \cup (IF GatesOf(report).formalInputs THEN {} ELSE {"gate:formal-inputs"})
           complete == (\A g \in DOMAIN GatesOf(report) : GatesOf(report)[g]) /\ failed = {}
<1>1. Evaluation(report, health) =
        [status |-> metadata.status, category |-> Null,
         evaluation |-> [gates |-> GatesOf(report), cases |-> report.cases, health |-> health,
                         residual |-> residual, complete |-> complete]]
  BY DEF Evaluation, GatesOf
<1>2. failed = {} <=> AllPassed(report.cases)
  BY DEF AllPassed
<1> HIDE DEF residual, failed
<1>3. complete \in BOOLEAN /\ (complete <=> (\A g \in DOMAIN GatesOf(report) : GatesOf(report)[g])
                                                /\ AllPassed(report.cases))
  BY <1>2
<1> HIDE DEF complete
<1>4. /\ Evaluation(report, health).status = metadata.status
      /\ Evaluation(report, health).category = Null
      /\ Evaluation(report, health).evaluation.cases = report.cases
      /\ Evaluation(report, health).evaluation.gates = GatesOf(report)
      /\ Evaluation(report, health).evaluation.complete = complete
  BY <1>1
<1> QED
  BY <1>3, <1>4

\* The gates are nothing but setup, formal inputs and groups of cases.
LEMMA GatesShape ==
  ASSUME NEW report
  PROVE  (\A g \in DOMAIN GatesOf(report) : GatesOf(report)[g]) <=>
           /\ checkFormalInputs(workspace, cell.mode)
           /\ "build" \in report.setup /\ "migrations" \in report.setup /\ "ready" \in report.setup
           /\ passed(report.cases, {"baseline"})
           /\ cell.task # "baseline-service" =>
                \A i \in DOMAIN report.cases :
                    Kind[report.cases[i].id] = cell.task /\ report.cases[i].applicable
                        => report.cases[i].passed = TRUE
           /\ passed(report.cases, {"api", "database"})
           /\ passed(report.cases, {"api"}) /\ passed(report.cases, {"database"})
<1> DEFINE formal == checkFormalInputs(workspace, cell.mode)
           baselineOK == passed(report.cases, {"baseline"})
           taskOK == \A i \in DOMAIN report.cases :
                       Kind[report.cases[i].id] = cell.task /\ report.cases[i].applicable
                           => report.cases[i].passed = TRUE
           b == "build" \in report.setup
           m == "migrations" \in report.setup
           r == "ready" \in report.setup
           contracts == passed(report.cases, {"api", "database"})
           api == passed(report.cases, {"api"})
           database == passed(report.cases, {"database"})
<1>1. GatesOf(report) =
        [formalInputs |-> formal, build |-> b, migrations |-> m, serviceStart |-> r,
         baselineBehavior |-> baselineOK,
         taskBehavior |-> IF cell.task = "baseline-service" THEN baselineOK ELSE taskOK,
         regressions |-> baselineOK /\ contracts, apiConformance |-> api,
         databaseConsistency |-> database]
  BY DEF GatesOf, deriveGates
<1> HIDE DEF formal, baselineOK, taskOK, b, m, r, contracts, api, database
<1>2. DOMAIN GatesOf(report) =
        {"formalInputs", "build", "migrations", "serviceStart", "baselineBehavior", "taskBehavior",
         "regressions", "apiConformance", "databaseConsistency"}
  BY <1>1
<1>3. /\ GatesOf(report).formalInputs = formal
      /\ GatesOf(report).build = b
      /\ GatesOf(report).migrations = m
      /\ GatesOf(report).serviceStart = r
      /\ GatesOf(report).baselineBehavior = baselineOK
      /\ GatesOf(report).taskBehavior = (IF cell.task = "baseline-service" THEN baselineOK ELSE taskOK)
      /\ GatesOf(report).regressions = (baselineOK /\ contracts)
      /\ GatesOf(report).apiConformance = api
      /\ GatesOf(report).databaseConsistency = database
  BY <1>1
<1>4. (\A g \in DOMAIN GatesOf(report) : GatesOf(report)[g]) <=>
        /\ formal /\ b /\ m /\ r /\ baselineOK
        /\ (cell.task # "baseline-service" => taskOK)
        /\ contracts /\ api /\ database
  BY <1>2, <1>3
<1> QED
  BY <1>4 DEF formal, baselineOK, taskOK, b, m, r, contracts, api, database

\* The evaluator gave a verdict on the candidate, as evaluateCandidate sees it.
Given ==
  /\ "postgres" \in verdict.report.setup /\ checkRoster(verdict.report.cases)
  /\ cell.treatment = "codegen" => verdict.codegen # "failed"

\* The two kinds of outcome, and when there is which.
LEMMA Outcome ==
  ASSUME Inputs, Judged
  PROVE  \/ /\ evaluated.status \in Failures /\ evaluated.category \in Categories
            /\ evaluated.evaluation = Null
            /\ ~(metadata.status \notin Failures /\ verdict.reported /\ Given)
         \/ /\ metadata.status \notin Failures /\ verdict.reported /\ Given
            /\ verdict.report \in Reports(cell.task)
            /\ \E health : evaluated = Evaluation(verdict.report, health)
<1>0. \A status, category : /\ Failure(status, category).status = status
                            /\ Failure(status, category).category = category
                            /\ Failure(status, category).evaluation = Null
  BY DEF Failure
<1>1. CASE metadata.status \in Failures /\ evaluated = Failure(metadata.status, metadata.category)
  BY <1>0, <1>1 DEF Inputs
<1>2. CASE /\ metadata.status \notin Failures /\ ~verdict.reported
           /\ evaluated = Failure("harness-failure", "harness-process-crash")
  BY <1>0, <1>2 DEF Failures, Categories
<1>3. CASE /\ metadata.status \notin Failures /\ verdict.reported
           /\ verdict.report \in Reports(cell.task)
           /\ evaluated = Classify(verdict.report, verdict.codegen)
  <2>1. CASE Given
    <3>1. \E health : Classify(verdict.report, verdict.codegen) = Evaluation(verdict.report, health)
      BY <2>1 DEF Given, Classify
    <3> QED
      BY <1>3, <2>1, <3>1
  <2>2. CASE ~Given
    <3>1. \E status \in Failures, category \in Categories :
             Classify(verdict.report, verdict.codegen) = Failure(status, category)
      BY <2>2 DEF Given, Classify, Failures, Categories
    <3> QED
      BY <1>0, <1>3, <2>2, <3>1
  <2> QED
    BY <2>1, <2>2
<1> QED
  BY <1>1, <1>2, <1>3 DEF Judged

\* A result that is there is the one assembled last, and its artifacts are whole.
LEMMA Published ==
  ASSUME AssemblyInv, files["result"] = "whole"
  PROVE  /\ \A f \in Outputs : files[f] = "whole"
         /\ Inputs /\ Judged /\ Schema(result) /\ (verifyManifest <=> workspace.exists)
         /\ result.cell = cell /\ result.status = evaluated.status
         /\ result.evaluation = evaluated.evaluation /\ result.category = evaluated.category
         /\ result.isFailure = (evaluated.status \in Failures)
         /\ result.status \notin Failures => result.evaluation # Null
<1>1. /\ pc = "done" /\ Inputs /\ Judged /\ Schema(result) /\ result = Assembled
      /\ recorded = [p \in Walked(workspace) |-> workspace.files[p]]
      /\ files["evaluation"] = "whole" /\ files["commands"] = "whole" /\ files["manifest"] = "whole"
  BY DEF AssemblyInv, Outputted
<1>2. \A f \in Outputs : files[f] = "whole"
  BY <1>1 DEF Outputs
<1>3. verifyManifest <=> workspace.exists
  BY <1>1 DEF verifyManifest, Walked
<1>4. /\ result.cell = cell /\ result.status = evaluated.status
      /\ result.evaluation = evaluated.evaluation /\ result.category = evaluated.category
      /\ result.isFailure = (evaluated.status \in Failures)
  BY <1>1 DEF Assembled
<1>5. result.status \notin Failures => result.evaluation # Null
  BY <1>1 DEF Schema
<1> QED
  BY <1>1, <1>2, <1>3, <1>4, <1>5

\* The validator and the assembler agree on completeSuccess and on the cases.
LEMMA EvaluationValid ==
  ASSUME Inputs, TasksAgree, verdict.report \in Reports(cell.task), Given,
         NEW health, NEW e, e = Evaluation(verdict.report, health).evaluation
  PROVE  /\ checkRoster(e.cases)
         /\ \A i \in DOMAIN e.cases : validCase(e.cases[i], cell.task)
         /\ e.complete = /\ \A g \in DOMAIN e.gates : e.gates[g]
                         /\ \A i \in DOMAIN e.cases : e.cases[i].applicable => e.cases[i].passed = TRUE
<1>0. registry \in Registries
  BY DEF Inputs
<1>1. /\ e.cases = verdict.report.cases /\ e.gates = GatesOf(verdict.report) /\ e.complete \in BOOLEAN
      /\ e.complete <=> (\A g \in DOMAIN e.gates : e.gates[g]) /\ AllPassed(e.cases)
  BY EvaluationShape
<1>2. checkRoster(e.cases)
  BY <1>1 DEF Given
<1>3. ASSUME NEW i \in DOMAIN e.cases
      PROVE  validCase(e.cases[i], cell.task)
  <2>1. i \in DOMAIN registry /\ Reported(e.cases[i], registry[i], cell.task)
    BY <1>0, <1>1, <1>3, ReportShape
  <2>2. e.cases[i].id = registry[i].id /\ e.cases[i].id \in ManifestIDs
    BY <1>2, <1>3, <2>1 DEF checkRoster, Reported
  <2>3. registry[i].task = TaskOf(e.cases[i].id)
    BY <2>1, <2>2 DEF TasksAgree
  <2>4. e.cases[i].applicable = (TaskOf(e.cases[i].id) \in {"all", cell.task})
    BY <2>1, <2>3 DEF Reported
  <2>5. e.cases[i].applicable \in BOOLEAN
    BY <2>4
  <2>6. (e.cases[i].passed # Null) = e.cases[i].applicable
    BY <2>1, <2>5, AssemblyAssumption DEF Reported
  <2>7. (e.cases[i].evidence # Null) = e.cases[i].applicable
    BY <2>1, <2>5, AssemblyAssumption DEF Reported
  <2> QED
    BY <2>4, <2>6, <2>7 DEF validCase
<1>4. e.complete = /\ \A g \in DOMAIN e.gates : e.gates[g]
                   /\ \A i \in DOMAIN e.cases : e.cases[i].applicable => e.cases[i].passed = TRUE
  BY <1>1 DEF AllPassed
<1> QED
  BY <1>2, <1>3, <1>4

\* What runresult publishes the semantic validator of freezecheck accepts, but for the
\* failed runs that have no workspace: the order of the writes, the walk over the
\* workspace and the roster check fit those of the reader.
THEOREM PublishedIsValid == Spec => []AssembledAccepted
<1>1. AssemblyInv => AssembledAccepted
  <2>1. SUFFICES ASSUME AssemblyInv, files["result"] = "whole", ~result.replaces, TasksAgree
                 PROVE  /\ \A f \in Outputs : files[f] = "whole"
                        /\ validateRunDocument <=> workspace.exists
                        /\ workspace.exists \/ metadata.status \in Failures
    BY DEF AssembledAccepted
  <2>2. /\ \A f \in Outputs : files[f] = "whole"
        /\ Inputs /\ Judged /\ Schema(result) /\ (verifyManifest <=> workspace.exists)
        /\ result.cell = cell /\ result.status = evaluated.status
        /\ result.evaluation = evaluated.evaluation /\ result.category = evaluated.category
        /\ result.isFailure = (evaluated.status \in Failures)
        /\ result.status \notin Failures => result.evaluation # Null
    BY <2>1, Published
  <2>3. validateEvaluation(result)
    <3>1. CASE /\ evaluated.status \in Failures /\ evaluated.category \in Categories
               /\ evaluated.evaluation = Null
      BY <2>2, <3>1 DEF validateEvaluation
    <3>2. CASE /\ metadata.status \notin Failures /\ verdict.reported /\ Given
               /\ verdict.report \in Reports(cell.task)
               /\ \E health : evaluated = Evaluation(verdict.report, health)
      <4>1. PICK health : evaluated = Evaluation(verdict.report, health)
        BY <3>2
      <4>2. result.status = metadata.status /\ result.status \notin Failures /\ ~result.isFailure
        BY <2>2, <3>2, <4>1, EvaluationShape
      <4> DEFINE e == result.evaluation
      <4>3. e = Evaluation(verdict.report, health).evaluation
        BY <2>2, <4>1
      <4> HIDE DEF e
      <4>4. /\ checkRoster(e.cases)
            /\ \A i \in DOMAIN e.cases : validCase(e.cases[i], cell.task)
            /\ e.complete = /\ \A g \in DOMAIN e.gates : e.gates[g]
                            /\ \A i \in DOMAIN e.cases : e.cases[i].applicable => e.cases[i].passed = TRUE
        BY <2>1, <2>2, <3>2, <4>3, EvaluationValid
      <4>5. e = result.evaluation
        BY DEF e
      <4> QED
        BY <2>2, <4>2, <4>4, <4>5 DEF validateEvaluation
    <3> QED
      BY <2>2, <3>1, <3>2, Outcome
  <2>4. \A f \in Outputs : files[f] # "absent"
    BY <2>2
  <2>5. validateRunDocument <=> workspace.exists
    BY <2>1, <2>2, <2>3, <2>4 DEF validateRunDocument
  <2>6. workspace.exists \/ metadata.status \in Failures
    BY <2>2 DEF Judged
  <2> QED
    BY <2>2, <2>5, <2>6
<1> QED
  BY <1>1, AssemblyInvariance, PTL

\* completeSuccess of an accepted result is the whole truth about the candidate: no gate
\* of deriveGates is true because a case was left out, whatever roster the evaluator had.
THEOREM VerdictExact == Spec => []AcceptedVerdictExact
<1> DEFINE report == verdict.report
           Wanted == \A id \in ManifestIDs : TaskOf(id) \in {"all", cell.task} =>
                        \E i \in DOMAIN report.cases :
                            report.cases[i].id = id /\ report.cases[i].passed = TRUE
<1>1. ASSUME AssemblyInv, validateRunDocument, result.evaluation # Null
      PROVE  result.evaluation.complete <=>
                /\ report.setup = {Gates[g] : g \in 1 .. 4}
                /\ checkFormalInputs(workspace, cell.mode)
                /\ Wanted
  <2>1. /\ Inputs /\ Judged /\ result.cell = cell /\ result.status = evaluated.status
        /\ result.evaluation = evaluated.evaluation
    BY <1>1, Published DEF validateRunDocument
  <2>2. /\ metadata.status \notin Failures /\ verdict.reported /\ Given
        /\ report \in Reports(cell.task)
        /\ \E health : evaluated = Evaluation(report, health)
    BY <1>1, <2>1, Outcome
  <2>3. PICK health : evaluated = Evaluation(report, health)
    BY <2>2
  <2>4. /\ result.status = metadata.status /\ result.evaluation.cases = report.cases
        /\ result.evaluation.complete <=>
              (\A g \in DOMAIN GatesOf(report) : GatesOf(report)[g]) /\ AllPassed(report.cases)
    BY <2>1, <2>3, EvaluationShape
  <2>5. registry \in Registries
    BY <2>1 DEF Inputs
  <2> DEFINE cases == report.cases
             N == Len(registry)
  <2>6. /\ N \in Nat /\ DOMAIN cases = 1 .. N
        /\ \A i \in DOMAIN cases : Reported(cases[i], registry[i], cell.task)
        /\ \E n \in 0 .. 4 : report.setup = {Gates[g] : g \in 1 .. n}
    <3>1. N \in Nat /\ DOMAIN registry = 1 .. N
      BY <2>5, RosterShape, AssemblyAssumption
    <3>2. /\ DOMAIN cases = DOMAIN registry
          /\ \A i \in DOMAIN registry : Reported(cases[i], registry[i], cell.task)
          /\ \E n \in 0 .. 4 : report.setup = {Gates[g] : g \in 1 .. n}
      BY <2>2, <2>5, ReportShape
    <3> QED
      BY <3>1, <3>2
  <2>7. /\ checkRoster(cases)
        /\ \A i \in DOMAIN cases : validCase(cases[i], cell.task)
    BY <1>1, <2>1, <2>2, <2>4 DEF validateRunDocument, validateEvaluation
  <2>8. \A i \in DOMAIN cases :
          /\ cases[i].id \in ManifestIDs
          /\ cases[i].applicable <=> TaskOf(cases[i].id) \in {"all", cell.task}
    BY <2>7 DEF checkRoster, validCase
  <2>9. \A i, j \in DOMAIN cases : cases[i].id = cases[j].id => i = j
    <3>1. ASSUME NEW i \in DOMAIN cases, NEW j \in DOMAIN cases, cases[i].id = cases[j].id, i # j
          PROVE  FALSE
      <4>1. i \in 1 .. j - 1 \/ j \in 1 .. i - 1
        BY <2>6, <3>1
      <4> QED
        BY <2>7, <3>1, <4>1 DEF checkRoster
    <3> QED
      BY <3>1
  <2>10. \A id \in ManifestIDs : \E i \in DOMAIN cases : cases[i].id = id
    BY <2>7 DEF checkRoster
  <2>11. AllPassed(cases) <=> Wanted
    <3>1. ASSUME AllPassed(cases) PROVE Wanted
      BY <2>8, <2>10, <3>1 DEF AllPassed
    <3>2. ASSUME Wanted PROVE AllPassed(cases)
      BY <2>8, <2>9, <3>2 DEF AllPassed
    <3> QED
      BY <3>1, <3>2
  <2>12. ASSUME AllPassed(cases)
         PROVE  /\ passed(cases, {"baseline"}) /\ passed(cases, {"api", "database"})
                /\ passed(cases, {"api"}) /\ passed(cases, {"database"})
    <3>1. \A i \in DOMAIN cases :
             Kind[cases[i].id] \in {"baseline", "api", "database"} => cases[i].applicable
      BY <2>8, TaskOfEntry
    <3> QED
      BY <2>12, <3>1 DEF AllPassed, passed
  <2>13. (\A g \in DOMAIN GatesOf(report) : GatesOf(report)[g]) <=>
           /\ checkFormalInputs(workspace, cell.mode)
           /\ "build" \in report.setup /\ "migrations" \in report.setup /\ "ready" \in report.setup
           /\ passed(cases, {"baseline"})
           /\ cell.task # "baseline-service" =>
                \A i \in DOMAIN cases :
                    Kind[cases[i].id] = cell.task /\ cases[i].applicable => cases[i].passed = TRUE
           /\ passed(cases, {"api", "database"})
           /\ passed(cases, {"api"}) /\ passed(cases, {"database"})
    BY GatesShape
  <2>14. "build" \in report.setup /\ "migrations" \in report.setup /\ "ready" \in report.setup
           <=> report.setup = {Gates[g] : g \in 1 .. 4}
    BY <2>6, SetupComplete
  <2>15. AllPassed(cases) =>
           ((\A g \in DOMAIN GatesOf(report) : GatesOf(report)[g]) <=>
              /\ checkFormalInputs(workspace, cell.mode)
              /\ report.setup = {Gates[g] : g \in 1 .. 4})
    BY <2>12, <2>13, <2>14 DEF AllPassed
  <2> HIDE DEF Wanted, report
  <2> QED
    BY <2>4, <2>11, <2>15
<1>2. AssemblyInv => AcceptedVerdictExact
  BY <1>1 DEF AcceptedVerdictExact
<1> QED
  BY <1>2, AssemblyInvariance, PTL

\* The analysis counts a run as the candidate's success or failure exactly when the
\* evaluator had its database, ran the roster of the manifest and, for a generated
\* service, could run the generators.
THEOREM IndexTrustworthy == Spec => []IndexedIffTrustworthy
<1>1. ASSUME AssemblyInv, load # Null
      PROVE  load.completeSuccess # Null <=> metadata.status \notin Failures /\ Trustworthy
  <2>1. files["result"] = "whole"
    BY <1>1 DEF load
  <2>2. /\ Inputs /\ Judged /\ Schema(result) /\ result.status = evaluated.status
        /\ result.evaluation = evaluated.evaluation
        /\ result.status \notin Failures => result.evaluation # Null
    BY <1>1, <2>1, Published
  <2>3. load.completeSuccess = IF result.evaluation = Null THEN Null ELSE result.evaluation.complete
    BY <2>1, <2>2 DEF load
  <2>4. ASSUME verdict.reported, verdict.report \in Reports(cell.task)
        PROVE  Trustworthy <=> Given
    <3>1. checkRoster(verdict.report.cases) <=>
            Len(registry) = Len(Manifest) /\ {registry[i].id : i \in DOMAIN registry} = ManifestIDs
      BY <2>2, <2>4, RosterExact DEF Inputs
    <3> QED
      BY <2>4, <3>1 DEF Trustworthy, Given
  <2>5. verdict.reported /\ metadata.status \notin Failures => verdict.report \in Reports(cell.task)
    BY <2>2 DEF Judged
  <2>6. CASE /\ evaluated.evaluation = Null
             /\ ~(metadata.status \notin Failures /\ verdict.reported /\ Given)
    BY <2>2, <2>3, <2>4, <2>5, <2>6 DEF Trustworthy
  <2>7. CASE /\ metadata.status \notin Failures /\ verdict.reported /\ Given
             /\ verdict.report \in Reports(cell.task)
             /\ \E health : evaluated = Evaluation(verdict.report, health)
    <3>1. PICK health : evaluated = Evaluation(verdict.report, health)
      BY <2>7
    <3>2. result.evaluation # Null /\ result.evaluation.complete \in BOOLEAN
      BY <2>2, <2>7, <3>1, EvaluationShape
    <3>3. load.completeSuccess # Null
      BY <2>3, <3>2, AssemblyAssumption
    <3> QED
      BY <2>4, <2>7, <3>3
  <2> QED
    BY <2>2, <2>6, <2>7, Outcome
<1>2. AssemblyInv => IndexedIffTrustworthy
  BY <1>1 DEF IndexedIffTrustworthy
<1> QED
  BY <1>2, AssemblyInvariance, PTL

=============================================================================
