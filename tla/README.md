# Verification of the experiment harness

TLA+ models, TLC runs and TLAPS proofs for the code of this repository: the
harness that runs coding agents on tasks, the hidden evaluator that judges what
they produce, and the reference solutions of the tasks. Modules are translated
from the source; `PROJECT.json` maps every definition to the lines it models.

## 1. Inventory

| Component | State | Operations | Interaction | Hard behaviour | Correct when |
|---|---|---|---|---|---|
| Production driver `harness/rundriver/production.go` | flock slots, run directory, candidate context, exit code | check, acquire slot, mkdir, prepare, launch, interrupt, kill, reap, cleanup, finalize, write metadata, start assembly, return | starts the runner script and the assembler, shares slots and disk with other drivers | concurrent invocations, signals, an outer deadline, SIGKILL, partial failure of every write | slots bound the drivers; a directory has one writer; nothing is rewritten; exit 0 means published |
| Candidate runner `harness/run-candidate.sh`, `restricted-egress.sh` | containers, networks, a volume, its own deadline | setup, wait loop, traps, label cleanup | exit codes 0, 1, 70, 71, 124, 130 to the driver | timeout against exit, killed before cleanup, ignored docker errors | nothing of a run is alive when it is evaluated |
| Result assembler `harness/runresult` | status in progress, `evaluation.json`, `run-result.json` | read, evaluate, compose | child of the driver, starts the evaluator through a wrapper | killed parent, evaluator failure, truncated write | evaluated at most once; the result is justified by metadata and evaluation |
| Evaluator `evaluator/` | PostgreSQL container, service process, its channel, timers, verdicts | set up, probe, run cases, stop, report | supervises the candidate's service; exit code and JSON to the assembler | budget or signal at any point, a service that hangs or dies, one channel value with two readers | verdict complete, never partial, its own containers and processes ended, always ends |
| Optimistic locking service `fixtures/task-solutions/optimistic-locking-direct` | table `tasks` with a version | create, get, list, update, delete | concurrent HTTP clients, PostgreSQL | races between the two statements of Update, lost answers, the end of bigint | no lost update, one winner per version, truthful answers |
| Cursor pagination service `fixtures/task-solutions/cursor-pagination-direct` | table `tasks` with stamp and id | page listing, insert, delete | as above | inserts and deletes between pages, equal stamps, late commits | every stable task is listed once, the walk ends |
| Nullable patch service | table `tasks` | three-state patch | as above | absent, null and value are told apart | the evaluator's cases accept it |
| Behavior cases `evaluator/internal/evaluator` (baseline, nullable, locking, pagination) | table, last created id, verdicts | 44 cases in registry order, reset between them | one client of the candidate; one case has two | a wrong candidate that passes, one lost answer that fails other cases | each broken candidate fails its case, the reference passes |
| Evaluator wrapper `run-evaluator-container.sh`, `runresult/evaluator.go` | shell, docker client, container, deadline | run, trap, cleanup, classify | assembler starts it, docker runs the evaluator | the deadline kills the shell and nothing else | no evaluator is left, what it completed in time is kept and nothing else, it returns |
| Egress relay `harness/egressproxy` | two connections, two goroutines, a channel | dial, copy, half-close, close | coordinator on one side, the provider on the other | either side ends or breaks off at any time | nothing of an ended stream is lost, no goroutine is left (not modelled) |
| Tool bridge `harness/bridge`, `tool-bridge.ts` | one native tool process per request | execute, abort | coordinator's plugin, workspace | process tree killed from a snapshot | what survives an abort had left the tool's group |
| Counters `runresult/transcript.go`, `diff.go` | usage, events, line counts | scan transcript, scan patch | files of the run directory | output cut within a line, setup time, text that looks like a header | counters explain each other (patch lines are not modelled) |
| Freeze check `harness/freezecheck` | schedule file | generate, validate and publish (not modelled) schedules, validate runs and result sets | reads run directories that people edit | rejection sampling, edited files, replacement links, racing writers | a valid schedule is balanced; a valid set can be analysed |
| Analysis input `analysis/input` | none | load | reads run directories | incomplete directories | one entry per run, verdicts only when there was one |

Generated code, images, schemas, task texts, treatment overlays and test scripts
have no state of their own and are left out.

## 2. Modules

| Module | Role |
|---|---|
| `RunLedger` | abstract specification: a run directory is claimed, recorded, evaluated and published, each at most once and only if justified |
| `RunDriver` | driver, script and assembler processes over shared slots and disk; composes three components that interact through files, exit codes and signals |
| `MCRunDriver` | an instance of it |
| `RunDriverProofs` | type correctness; the inductive invariant, safety theorems and the refinement of `RunLedger` |
| `Evaluator`, `EvaluatorProofs` | the evaluator; theorems about it, alone and inside the wrapper |
| `EvaluatorWrapper`, `MCEvaluatorWrapper` | the evaluator in its container, with the shell, the docker client and the deadline around it; an instance |
| `OptimisticLocking`, `MCOptimisticLocking`, `OptimisticLockingProofs` | the locking service and its clients, an instance, theorems |
| `CandidateRunner`, `CandidateRunnerProofs` | `run-candidate.sh` and the docker resources of one run, theorems |
| `CandidateService`, `BehaviorCases`, `MCBehaviorCases` | what a candidate answers; the cases of the evaluator that run against it |
| `ResultAssembly`, `MCResultAssembly`, `ResultAssemblyProofs` | from a run directory to `run-result.json`, its validator and the analysis loader; theorems |
| `TranscriptMetrics`, `MCTranscriptMetrics` | the counters taken from the transcript |
| `ResultSet`, `MCResultSet` | a directory of results, its reviewer, its validator and its loader |
| `Schedule`, `MCSchedule` | schedules: generation and validation |
| `StudyProofs` | theorems about `Schedule`, `TranscriptMetrics` and `ResultSet` |
| `ToolBridge`, `ToolBridgeProofs` | one request of the tool bridge and the processes of its tool, theorems |
| `CursorPagination`, `CursorPaginationProofs` | the pages of a walk under concurrent writes, theorems |

A module without an MC module takes plain numbers and strings as constants; its
configurations give them directly.

A comment that starts with "Defect:" introduces a faulty variant of the
definition after it. No specification uses one; they document which bug each
property detects.

### RunDriver

A driver is one invocation of `rundriver production`; `pc[d]` is its place in
`runProduction`. `holder` is the kernel's view of the flock files, `owner` the
invocation whose `os.Mkdir` succeeded, `files`, `meta` and `result` what the run
directory holds. The script (`script`) and the assembler (`asm`) are processes of
their own: `Crash` kills only the driver and releases its flock, and what it
started goes on. Time is counted in ticks per run; `Timeout` stands for 2,700 s
and `Grace` for the five minutes of `productionSetupGrace`. A tick is much longer
than the 5 s and 30 s limits of the interrupt and the cleanup, which are
therefore separate nondeterministic steps. `DiskMayFail` and `RemovalMayFail`
switch failures of file operations and of docker removals. The preparation of the
workspace, `git`, the transcript and the manifest are reduced to whether they
succeed.

### Evaluator

`pc` is the main goroutine in `Evaluate` and `main`; `waiter` is the goroutine in
`command.Wait`, `done` the channel of capacity one it sends to. `make` is the process
that was started, `service` the rest of its process group: `command.Wait` returns when
`make` exits, and `stop()` kills the group only if that takes more than ten seconds, so
the two end independently of one another. `Abort` is the
15 minute budget or a signal and can happen at any step. `tainted` is a history
variable: something ran after that. `TerminateContainer`, whose error the code
ignores, is taken to succeed.

### OptimisticLocking

A title is the set of edits it incorporates, so that a lost update is visible.
Clients read a task, add an edit to the title they read, and send it with the
ETag they read; with `Guessing` they may send any version. Operations of one
statement are one step, because PostgreSQL executes a single-row statement
atomically under READ COMMITTED and re-evaluates its WHERE clause after a
concurrent commit; Update has two steps, since `SELECT EXISTS` is a statement of
its own. `MayFail` loses a statement or, after it committed, its answer: a broken
connection, a cancelled request or a service that crashes. `newUUID` returns an
identifier nobody has named (122 random bits). `MaxVersion` stands for the
largest int64. `observed`, `wins` and `acked` are history variables.

### EvaluatorWrapper

Extends `Evaluator`: a step of the evaluator is a step inside the container
(`Inside`), `Abort` happens when the budget ends, and the docker commands of the
wrapper's trap and of `cleanupLabeledEvaluator` end the container with all its
processes and, unless the evaluator is stuck, its database. A service that outlived the
evaluator ends with the container, whose main process the evaluator is (`BoxEnds`). `Run` returns when the shell has ended
*and* the docker client, which inherited the pipes, is gone too. `faults` counts
docker commands that failed and clients that lost the daemon. `Tick` does not let
the clock run past the budget while the evaluator can still go on: winding up
takes seconds, the deadline comes a minute later.

### CandidateRunner

Refines a box of `RunDriver`, which has the script as a process that ends in some
way. Each docker command of the script is a step, so that the ends of coordinator,
tool and deadline fall between any two of them; `MaxFaults` commands may fail, a
signal may come anywhere, and both traps and the five commands of the cleanup, by
name and then by label, are modelled. A tool that ended by itself (`exited`) is told
from one that the cleanup ended (`stopped`), so that what the exit code blames can be
compared with what happened. `line` is whether the coordinator's output
stops between two JSON lines or within one, which decides whether the transcript
parses.

### BehaviorCases and CandidateService

`Serve` answers one request from the rows of the table, as the reference solution
does or as one of the broken candidates the cases are meant to reject. A case is
the chain of requests, queries and checks of its Go function and stops at the
first error. The evaluator is one client, so a case is one step; the concurrent
case of optimistic locking sends its two PUTs together and takes several. An
outage is a set of requests that get no answer in the client's five seconds; `delay` is
how many requests later the candidate handles each of them all the same: at once,
in a later case (after the TRUNCATE before it) or never. A request that is handled late
is handled just before one that the evaluator sends, not between the last request of a
case and its query of the table.

### ResultAssembly and ResultSet

`ResultAssembly` follows `assemble`: the evaluator's report or failure, the roster
check, the gates, then the four artifacts in the order they are written, with a
crash before or during each. A crash ends the process; the host goes on, because
without `fsync` nothing orders the files of a host that stops. `validateRunDocument` and
`load` are evaluated on whatever lies there. Content is abstract: a file is absent, torn
or whole, a workspace maps paths to contents or does not exist. `ResultSet` looks at several run directories as
a reviewer edits exclusion and replacement fields by hand.

### TranscriptMetrics

Prints tool calls while time passes and classifies each as `parseTranscript` does;
a call is what the classification looks at (tool, words of the command, exit, place
of the diagnostic, path). A line may also be cut, or longer than the 16 MiB that the
scanner holds (`unreadable`). A run ends as the script and the driver end it: submitted,
timed out, with a failed coordinator or tool, or interrupted by a signal or the driver's
own deadline, which may come before `docker logs` and leaves an empty transcript then.
`Lag` is the time between a deadline and the stop of the agent: a turn of the polling
loop and the grace of `docker stop`. `Stamp` is the driver's cleanup, after which it
takes the end of the run. `Assemble` derives the counters and milestones of the result.

### Schedule

The digests of the counter stream are arbitrary words of `W` bits, so the run
covers every schedule some seed leads to. `header` says of algorithm, seed and
revision of the document whether each is what the validator demands. `Edit` changes an
entry or the header of the published file before it is validated again. `matrixStrata`
does not look at identifiers, nor the generator at the seed and revision the config
fixes: a matrix in which two cells share an identifier, and a seed or revision that is
not the config's, are refused only by the generator's own validation of what it
generated, which refuses in no other case (`GeneratedAccepted`). The runs of a
schedule file have identifiers that contain their ordinal and their cell, which is
what the validator tells apart.

### ToolBridge

The processes of a tool fork, exit and move to other groups between any two steps
of `killProcessTree`: one file of `/proc`, one kill. Process identifiers are given
out in order and not reused. `tree` is what lay below the tool when the request was
aborted: the members of every set that has the tool and the children of its members.
A process may start a group of its own (`Detach`) or, the tool itself excepted, join
the group of another one (`Join`), as the later processes of a pipeline do under job
control. A quiet tree dies only where no process has joined: `kill(-sibling)` kills the
one that joined before the walk came to it, and its children in other groups are
orphans that the walk no longer finds. TLC shows this with four processes.

### CursorPagination

A row is stamped when its INSERT starts and visible when it commits; every page is
one statement over what is visible then. A task that commits late with a stamp
before the cursor is not listed, which the property says: it is about rows that
were there when the walk began (`steady`).

## 3. Runs

| Run | Bounds | Shows |
|---|---|---|
| `driver` | 2 drivers, 1 directory, 1 slot, `Timeout` = `Grace` = 2, 1 crash, disk errors | `TypeOK`, `ConcurrencyBound`, `OneWriter`, `EvaluatedAtMostOnce`, `ResultJustified`, `EvaluationIsQuiescent`, `DoneMeansPublished`, `WriteOnce`, `ImplementsLedger`, `DriverEnds` |
| `evaluator` | 4 cases (one for all tasks, two of the task, one of another), budget 2, deadline 4, 2 docker faults | `VerdictJustified`, `NoPartialOutcome`, `NothingLeft`, `NoEvaluatorLeft`, `KeptIffWritten`, `ReturnsUnlessStuck` |
| `evaluator_hang` | the same | `AssemblyReturns` is violated (section 6) |
| `locking` | 3 clients, 1 task, 2 edits, versions to 3, lost statements and answers | `NoLostEdit`, `ETagIdentifies`, `SingleWinner`, `RepliesJustified` |
| `cases` | all tasks; every broken candidate; the reference with one answer lost, its request handled before any of the six requests after it or never, or with all answers lost from some on | `BrokenRejected`, `AnsweredCasesPass` |
| `bridge` | 3 processes | `SurvivorsDetached`, `QuietTreeDies`, `AbortedReturns` |
| `assembly` | 5 cases, 8 rosters, 3 cells, 8 workspaces, one of them missing, a crash at any write | `AssembledAccepted`, `AcceptedVerdictExact`, `IndexedIffTrustworthy` |
| `resultset` | 3 directories, 4 run identifiers, 2 cells | `ChainsEndCounted`, `AcceptedLoads` |
| `schedule` | 3 strata, 2 blocks, words of 3 bits, 1 edit of an entry or the header, whole and broken matrices, one with a shared identifier | `Unbiased`, `ScheduleSound` |
| `runner` | deadline 3, 2 faults, 1 signal | `ExitTellsWhy`, `InstanceRemoved`, `RunnerEnds` |
| `pagination` | 4 tasks, 3 stamps, limits 1 and 2 | `PagesAscend`, `NoRowSkipped`, `WalkEnds` |
| `transcript` | 14 calls, 2 lines, limit 2, grace 1, lag 1, setup up to 2, cleanup up to 1 | `CountersConsistent`, `AllOrNothing` |

Why the bounds are enough: the slot race needs one driver more than slots, and the
directory race two invocations, which both pass the check of the directory before
they wait for the one slot. With `Timeout` = `Grace` = 2 the script's deadline can
fall before, at and after the outer one, and one crash is what leaves an orphan
next to a live driver. One task suffices for the service because its statements
touch one row; three clients allow a reader, a winner and a loser. That more
drivers, directories and slots, more tasks, clients that guess versions, more
processes, runs, faults, rows, blocks or transcript lines change nothing is proved
(section 4). Symmetry is used only in `locking`, which has no temporal property, over
sets whose members no constant distinguishes.

Between a budget of 2 and a deadline of 4 the evaluator is aborted, stuck or done at
different distances from the deadline. Two docker faults are what it takes to lose
the client and then a cleanup; `NoEvaluatorLeft` promises nothing after the second.
Three strata are the fewest with a draw that rejects words of three bits; that 64 bits
and seven strata change nothing is proved (section 4). Three
directories give a chain of two replacements and a ring of two next to a run that
counts. Three processes allow a tool, a child that leads a group and its child. Four
tasks with three stamps have ties within a page, across its end, and a row in
between that comes or goes. Two lines allow a failed verification and a success, in
either order; with a limit of 2, a grace of 1 and a setup up to 2 the script's deadline
falls before, at and after the driver's. A run of the evaluator sends fewer than 60
requests, so a delay of 60 is one that never ends. A lost answer ends its case, so a delay
of 1 already falls in a later one, and 6 passes most cases; all delays up to 60 give the
same result.

`evaluator` and `transcript` do not check for deadlock: a stuck evaluator with its
client attached stops everything (section 6), and a transcript is read to its end.
The other runs check it, with a stuttering step for the end of all processes.

Fairness. `driver`: a driver that was started, its clock, and the assembler's reading
and writing go on; nothing is assumed of the operator, the script or the agent, so that
`DriverEnds` rests on the outer deadline, SIGINT and SIGKILL, nor that
`evaluateCandidate` returns: the property says that a driver returns unless some driver
waits for ever for its evaluation, and `evaluator` says when it does not. `evaluator`: goroutines, shell,
client and assembler go on, time passes and timers fire; `SelectEnded` is strongly
fair because `select` chooses at random among ready branches, so a timer that stays
ready is not ignored for ever. Nothing is assumed of the candidate's service, and no
fault has to happen. `runner`: the script goes on; neither coordinator nor tool need
ever end, so the loop's deadline carries `RunnerEnds`. `bridge`: handler and
`cmd.Wait` go on and zombies are collected; the tool's processes owe nothing.
`pagination`: the client asks for the next page; inserts are finitely many, because
each draws a new identifier.

## 4. Proofs

All theorems hold for every value of the constants that satisfies the named
`ASSUME` of the module.

* **RunDriver** (assumption `RunDriverAssumption`). `TypeCorrect` first. `IInv`
  strengthens it: every driver past `acquireSlot` holds a flock (`SlotHeld`), so
  `ConcurrencyBound` follows from an injection into the slots; whoever works on a
  directory created it (`Ownership`), which gives `OneWriter`; a directory nobody
  created is empty (`Unclaimed`); the contents of a directory are tied to the
  place of its driver and its assembler (`Progress`), which gives
  `EvaluatedAtMostOnce`, `ResultJustified`, `DoneMeansPublished`, `WriteOnce` and
  the refinement of `RunLedger`; an evaluable status implies that the script ended
  and its containers are gone (`Quiescence`), which gives `EvaluationIsQuiescent`
  under the assumption `~RemovalMayFail`. None of the properties is inductive
  alone: that one is evaluated at most once needs to know that its status was
  recorded by the only owner.
* **Evaluator** (`EvaluatorAssumption`: at least one case applies to all tasks).
  `EvaluatorInv` relates the verdicts written so far to `setup` and `success`
  (`Verdicts`), the channel to `make` and to the process group (`Processes`) and the
  context to the history (`Reporting`). `CleanExit` says what an evaluator that exits
  leaves: nothing but, maybe, the service of a `make` that ended first.
* **EvaluatorWrapper** (`WrapperAssumption`: the deadline comes after the budget).
  `WrapperInv` is `EvaluatorInv` and what the wrapper adds: how client, container and
  caller end together (`Endings`), and what reached the pipe (`Reading`). A step
  inside the container is a step of `Evaluator`, so `EvaluatorInv` carries over; that
  `docker stop` and `docker rm -f`, which are no step of it, keep it too is
  `RemovalKeepsEvaluator`, and `BoxEndsWrapper` that the end of the container does. This gives the evaluator's three properties for
  `WrapperSpec` (`EvaluatorSafeInside`), `NoEvaluatorLeft` and `KeptIffWritten`.
* **OptimisticLocking** (`LockingAssumption`). Every step is reduced to one of
  three kinds (reads, deletes, writes the next version). `LockingInv` says that
  no client knows a version above the current one, so that a new version is new to
  everybody, and that an Update between its statements has seen a mismatch or its
  task is gone for good. `NoUpdateLost` assumes `~Guessing`.
* **CursorPagination** (`PaginationAssumption`: finitely many numbered tasks). First
  the order: (`created_at`, `id`) is total, a set of rows has a first and a last one
  (by the number of rows before it), and `ORDER BY ... LIMIT n` returns the first
  `n`. `WalkInv` adds to the two properties that returned rows keep the stamp they
  were sorted by (`Stamped`) and are not ahead of the cursor (`Behind`): without it a
  page could repeat a row that `PagesAscend` alone does not exclude.
* **CandidateRunner** (`RunnerAssumption`). `RunnerInv` ties the exit code decided so
  far to the place in the script (`Progress`) and, as long as no command failed, to
  its reason (`Reasons`: before the cleanup no tool was stopped, so that one that is not
  running ended by itself), and lists what each command of the cleanup has removed
  (`Removal`): networks go only after the containers in them, which is why the second
  pass is needed.
* **ResultAssembly** (`AssemblyAssumption`). It says of `case-manifest.json` that its
  identifiers are distinct and that baseline, API and database cases are for all
  tasks, as they are in `src/evaluator/case-manifest.json`; of the registries only
  that they are rosters, so that an evaluator image built with any other set of cases
  is included. `AssemblyInv` says that the artifacts are written in their order
  (`Outputted`) and that what is published is what the metadata and the evaluator's
  report determine (`Judged`). The three properties then relate `deriveGates` to the
  validator: a roster check that passes leaves exactly the manifest's cases
  (`RosterExact`), so no gate can be true for want of a case. A published result is
  accepted exactly if there is a workspace to compare its manifest with.
* **ResultSet** (`SetAssumption`: finitely many directories). The argument for
  `ChainsEndCounted` is about graphs, not steps. A run is the replacement of one run
  at most, because its `replacesRunId` names one (`OneReplaced`). So a chain that
  never ends nor returns to its start never repeats a run (`NoRepetition`: the first
  repeated run would have two predecessors), but a chain as long as there are
  directories must (`OpenIsShort`, by the pigeonhole principle).
* **Schedule** (`ScheduleAssumption`: at least one stratum and one block, words enough
  for every draw, matrices that are finite and whose strata are ordered).
  `DrawsUnbiased`: `-n % n` in unsigned arithmetic is the remainder of the number of
  words, so that the accepted words are whole rounds (`Rounds`), and a bijection from
  the rounds counts the words of a remainder (`RemainderCount`). `ScheduleInv` follows
  the generator: finished blocks have each stratum once (`BlocksBefore`), the block at
  hand the pairs drawn so far, and `order` stays a permutation of the strata through
  the swaps (`SwappedOrder`). After the last block this makes the schedule valid for
  every header the config allows (`GeneratedIsValid`). `SchedulesSound` says of the validator, whatever the file holds
  and whoever edited it, that its checks suffice: a valid file has as many identifiers
  as cells, although it never compares two (`ValidIdentifiers`, by counting a block);
  each pair of positions has one direct run, so injections between pairs and direct
  runs bound their number after any number of runs (`DirectCount`); and a cell is run once in each
  block of positions (`OnePerBlock`), so that after any number of runs every cell has
  been run as often as there are finished blocks, or once more (`CellAtLeast`,
  `CellAtMost`).
* **TranscriptMetrics** (`MetricsAssumption`: exit codes are zero, not zero or
  missing). `MetricsInv` says that commands are numbered in order and started between
  the end of the setup and the stop of the agent, which both deadlines bound
  (`Timeline`), that a transcript that can be read counts all that was printed or is
  empty after an interrupt (`Accounting`), which gives `AllOrNothing`, and ties clock,
  wall clock, exit and status to the end of the run (`Endings`). The milestones then lie
  within the run because `FirstStart` takes the stamp of an event (`MilestoneStamped`,
  with the least element of a set of numbers); that every compiler event is a counted
  repair is an injection into the repairs (`RepairsAccounted`).
* **ToolBridge** (`BridgeAssumption`). `BridgeInv` has five parts besides the types.
  `Ancestry`: parents have smaller identifiers, and the leader of a process's group is
  the process itself or an ancestor that a chain of live parents leads to, said with
  sets that are closed upwards. `Seen`, `Calls`: the stack of calls of
  `killProcessTree` is a path in the tree of processes, up to processes orphaned
  since. `Kills`: who was called for is dead or on the stack, and its group is empty
  once it was killed, unless the leader has moved, for nobody can join an empty group; `SurvivorsDetached` follows when
  the stack is empty. `Connected`: while nothing else happens, what is alive of the
  tree is connected to the tool, and the walk will come to each of it. `QuietTreeDies`
  needs that a kill never cuts the tree above a live process: the children of a process
  are dead before it is killed (`ChildrenFirst`), and of the tree its group has nobody
  else by then (`GroupBelow`), because whoever is in the group is below its leader; that is
  where it needs that no process has joined a group (`Still`).

The inductive invariants of all these modules were also checked by TLC on the
instances of section 3, `BridgeInv` also with four processes that keep still.

Model-checked only:

* liveness (`DriverEnds`, `ReturnsUnlessStuck`, `RunnerEnds`, `AbortedReturns`,
  `WalkEnds`), which needs fairness and ENABLED;
* `BehaviorCases`: the cases are chains of checks defined by recursion over data, and
  what is said of them, that a broken candidate is rejected, is about given
  candidates.

## 5. Hazards

`PROJECT.json` lists them by line, each with the properties that would catch it.

## 6. Disagreements between code and documentation

Run `evaluator_hang`: a service that exits before it is ready makes the evaluator
wait for ever in `stop()` for a second value of a channel that carries one. The
assembly deadline kills the wrapper's shell and not the docker client that holds its
pipes, so the assembler never returns and never reaches the cleanup written for this
case.

In other places, too, the code does less than its documentation says. They are part of
the models, so that no property rests on the documentation; where a property would be
false without them it names them.

* `harness/README.md:105` says "Timeout preserves and evaluates the partial candidate",
  and line 120 that "successful bounded setup does not shorten" the agent's budget.
  The wall clock starts before the setup and ends after the cleanup but is compared with
  the agent's limit: a run that is submitted after limit minus setup is recorded, and
  its assembly fails without a result. A run that times out is evaluated, but has no
  result when `docker stop` cut the last line of its transcript, and neither has a run
  with a line over 16 MiB. A setup longer than the five minutes of grace takes the rest
  from the agent; the script is then interrupted before `docker logs`, and the result of
  that run, status timed-out, counts no turn and no tool call (`AllOrNothing`). A
  cleanup that fails after a timeout turns 124 into 71 and the end of the run into the
  present, which is over the limit.
* An evaluation that never returns keeps its driver and its slot for ever: `assembly.Run`
  has no deadline (`DriverEnds`).
* `stop()` in the evaluator kills the process group only while `make` has not ended: a
  service that ignores SIGTERM, or runs in the background, outlives the evaluator and
  ends with the container (`NothingLeft`, `NoEvaluatorLeft`); of an evaluator that is
  started without one nothing ends it.
* `harness/runresult/manifest.go:30` calls a missing workspace possible and
  `harness/README.md:139` requires one for submitted and timed-out runs only; the result
  with an empty manifest that runresult then publishes is refused by the validator
  (`AssembledAccepted`).
* A request that the evaluator gave up after five seconds may be handled within the next
  case: a late INSERT makes `nullable.post-rejects-due-at`, which expects an empty table,
  fail although each of its own requests was answered (`AnsweredCasesPass`).
* A killed driver frees its slot while its script goes on: `ConcurrencyBound` is
  about drivers, not about what they left running.
* The cleanup ignores every docker error: `EvaluationIsQuiescent` holds under
  `~RemovalMayFail`, `InstanceRemoved` when no command failed.
* One failing `docker inspect` ends the wait as if the coordinator had stopped:
  `ExitTellsWhy` holds when no command failed.
* `validate-results` skips a directory without a result, which the loader refuses
  (`AcceptedLoads`), and accepts failed runs that replace one another
  (`ChainsEndCounted`).
* A process that joined the group of a sibling can leave children behind when its request
  is aborted, even if nothing else happens meanwhile (`QuietTreeDies`).
* No case reads a final page that is full: a candidate that sends a cursor there
  passes all of them (`RejectedBy`).

## 7. Not modelled, and plan

Left out within the modelled parts: a host that stops before written files reach the
disk, a service that leaves its process group, a failing `docker logs` for the counters
(`CandidateRunner` has it), sessions of processes, and a late request that is handled
between the last request of a case and its query. The properties of the runner are about
a docker that works; that a failing `docker inspect` is taken for the end of the
coordinator is in the model, but nothing in the script could tell.

Not modelled: the egress relay, whose two copying goroutines are independent of the
rest; the line counts of a patch and the publication of the schedule file by
`writeOutput`, small sequential code around a file; and, because it keeps no state or
is text, the resolution of configuration and schedule entries and the tree
validation of the production driver (success or failure in `RunDriver`), the
sequential copying of the synthetic driver, the schema, configuration and hash
validation of the freeze check, the model-free probe of the runner, the bridge's path
checks (accepted or refused), evidence text kept in results, generated Go code and
its variants, the compatibility probe, images, and scripts that only test. The
nullable patch service is modelled one request at a time, as `CandidateService`; its
single-statement patch has no interleaving that `OptimisticLocking` does not have.

Every safety invariant and every action property of the passing runs outside
`BehaviorCases` is a theorem. Of the parts that run concurrently the egress relay is the
one without a module.
