----------------------------- MODULE RunDriver -----------------------------
(***************************************************************************)
(* `rundriver production` (harness/rundriver/production.go) together with  *)
(* the two programs it starts: the candidate runner script                 *)
(* (harness/run-candidate.sh) and the result assembler (harness/runresult).*)
(* Several drivers, started by an operator in any order, share the flock   *)
(* slots and the file system.  A driver that is killed leaves its children *)
(* running.                                                                *)
(***************************************************************************)
EXTENDS Integers, FiniteSets

CONSTANTS
    Drivers,         \* driver processes; each is one invocation
    RunDirs,         \* values of -run-dir
    RunDirOf,        \* the -run-dir argument of every invocation
    MaxConcurrency,  \* config.execution.maxConcurrency
    Timeout,         \* config.execution.timeoutSeconds, in model ticks
    Grace,           \* productionSetupGrace, in model ticks
    MaxCrashes,      \* bound: how many drivers may be killed (SIGKILL, OOM)
    RemovalMayFail,  \* whether a docker removal inside cleanup() may fail
    DiskMayFail,     \* whether writing or reading a run artifact may fail
    NoDriver         \* "nobody", not a driver

ASSUME RunDriverAssumption ==
    /\ RunDirOf \in [Drivers -> RunDirs]
    /\ NoDriver \notin Drivers
    /\ MaxConcurrency \in Nat \ {0}
    /\ Timeout \in Nat \ {0}
    /\ Grace \in Nat
    /\ MaxCrashes \in Nat
    /\ RemovalMayFail \in BOOLEAN
    /\ DiskMayFail \in BOOLEAN
    /\ IsFiniteSet(Drivers)

VARIABLES
    pc,         \* where runProduction of a driver is
    holder,     \* flock slot -> the process holding it
    attempt,    \* the slot acquireSlot tries next
    owner,      \* run directory -> the driver whose Mkdir created it
    ctx,        \* what happened to the candidate context
    script,     \* the candidate runner process
    agentStart, \* value of elapsed when the coordinator was started
    live,       \* labelled containers of the run exist
    elapsed,    \* ticks since the `started` stamp
    exit,       \* the exitCode variable of runProduction
    unsafe,     \* validateWorkspaceTree rejected the workspace
    asm,        \* the runresult process
    draft,      \* result.Status inside the runresult process
    files,      \* run directory -> artifacts it holds
    meta,       \* run directory -> status and wall clock in metadata.json
    evals,      \* run directory -> evaluator invocations
    result      \* run directory -> status in run-result.json

driverVars == <<pc, holder, attempt, ctx, exit, unsafe>>
scriptVars == <<script, agentStart, elapsed, live>>
asmVars    == <<asm, draft>>
diskVars   == <<owner, files, meta, evals, result>>
vars == <<driverVars, scriptVars, asmVars, diskVars>>

-----------------------------------------------------------------------------
(* Values *)

Slots == 1 .. MaxConcurrency

Evaluated == {"submitted", "timed-out"}
Failed    == {"harness-failure", "infrastructure-failure"}
Status    == Evaluated \cup Failed
NoStatus  == "none"

Artifacts == {"final.patch", "metadata.json", ".finalization-started",
              "evaluation.json", "run-result.json"}

Killed    == -1                              \* ExitError.ExitCode() of SIGKILL
ExitCodes == {0, 1, 70, 71, 124, 130, Killed}

OuterDeadline == Timeout + Grace
Horizon       == OuterDeadline + Timeout     \* bound on elapsed

\* Labels between acquireSlot's return and the deferred release().
Holding == {"mkdir", "prepare", "candidate", "interrupted", "cleanup",
            "finalize", "metadata", "marker", "assembly"}
Labels  == Holding \cup {"idle", "acquire", "done", "error", "crashed"}
Ended   == {"done", "error", "crashed"}

\* Labels at which the run directory was created by this driver.
Owning == Holding \ {"mkdir"}

ScriptRunning == {"setup", "agent"}
AsmRunning    == {"read", "evaluate", "compose"}

NoMeta == [status |-> NoStatus, wall |-> 0]

Init ==
    /\ pc         = [d \in Drivers |-> "idle"]
    /\ holder     = [s \in Slots |-> NoDriver]
    /\ attempt    = [d \in Drivers |-> 1]
    /\ owner      = [r \in RunDirs |-> NoDriver]
    /\ ctx        = [d \in Drivers |-> "open"]
    /\ script     = [d \in Drivers |-> "none"]
    /\ agentStart = [d \in Drivers |-> 0]
    /\ live       = [d \in Drivers |-> FALSE]
    /\ elapsed    = [d \in Drivers |-> 0]
    /\ exit       = [d \in Drivers |-> 0]
    /\ unsafe     = [d \in Drivers |-> FALSE]
    /\ asm        = [d \in Drivers |-> "none"]
    /\ draft      = [d \in Drivers |-> NoStatus]
    /\ files      = [r \in RunDirs |-> {}]
    /\ meta       = [r \in RunDirs |-> NoMeta]
    /\ evals      = [r \in RunDirs |-> 0]
    /\ result     = [r \in RunDirs |-> NoStatus]

-----------------------------------------------------------------------------
(* runProduction *)

\* The process ends; the kernel or the deferred release() drops its flock.
\* Its locals are gone; the script and the assembler are processes of their own.
Leave(d, label) ==
    /\ pc'      = [pc EXCEPT ![d] = label]
    /\ holder'  = [s \in Slots |-> IF holder[s] = d THEN NoDriver ELSE holder[s]]
    /\ attempt' = [attempt EXCEPT ![d] = 1]
    /\ ctx'     = [ctx EXCEPT ![d] = "open"]
    /\ exit'    = [exit EXCEPT ![d] = 0]
    /\ unsafe'  = [unsafe EXCEPT ![d] = FALSE]

\* The driver goes on and keeps its slot and its locals.
Continue(d, label) ==
    /\ pc' = [pc EXCEPT ![d] = label]
    /\ UNCHANGED <<holder, attempt, ctx, exit, unsafe>>

Put(r, artifact) == files' = [files EXCEPT ![r] = @ \cup {artifact}]

\* Lstat of the run directory and resolveProduction.
Check(d) ==
    /\ pc[d] = "idle"
    /\ \/ owner[RunDirOf[d]] = NoDriver /\ Continue(d, "acquire")
       \/ Leave(d, "error")
    /\ UNCHANGED <<scriptVars, asmVars, diskVars>>

\* Defect: the error of syscall.Flock is ignored.
TrySlotUnchecked(d) ==
    /\ pc[d] = "acquire"
    /\ holder' = [holder EXCEPT ![attempt[d]] = d]
    /\ pc'     = [pc EXCEPT ![d] = "mkdir"]
    /\ UNCHANGED <<attempt, ctx, exit, unsafe, scriptVars, asmVars, diskVars>>

\* One non-blocking flock of acquireSlot's inner loop; the slot file may fail to
\* open.
TrySlot(d) ==
    /\ pc[d] = "acquire" /\ attempt[d] \in Slots
    /\ \/ /\ holder[attempt[d]] = NoDriver
          /\ holder'  = [holder EXCEPT ![attempt[d]] = d]
          /\ pc'      = [pc EXCEPT ![d] = "mkdir"]
          /\ attempt' = [attempt EXCEPT ![d] = 1]
          /\ UNCHANGED <<ctx, exit, unsafe>>
       \/ /\ holder[attempt[d]] # NoDriver
          /\ attempt' = [attempt EXCEPT ![d] = @ + 1]
          /\ UNCHANGED <<pc, holder, ctx, exit, unsafe>>
       \/ DiskMayFail /\ Leave(d, "error")
    /\ UNCHANGED <<scriptVars, asmVars, diskVars>>

\* Defect: the slot counter is not restarted after the pause.
PollWithoutRestart(d) ==
    /\ pc[d] = "acquire" /\ attempt[d] \notin Slots
    /\ attempt' = [attempt EXCEPT ![d] = @ + 1]
    /\ UNCHANGED <<pc, holder, ctx, exit, unsafe, scriptVars, asmVars, diskVars>>

\* acquireSlot's select once every slot was busy: cancelled, or 25 ms later.
Poll(d) ==
    /\ pc[d] = "acquire" /\ attempt[d] \notin Slots
    /\ \/ ctx[d] = "canceled" /\ Leave(d, "error")
       \/ /\ attempt' = [attempt EXCEPT ![d] = 1]
          /\ UNCHANGED <<pc, holder, ctx, exit, unsafe>>
    /\ UNCHANGED <<scriptVars, asmVars, diskVars>>

\* Defect: os.MkdirAll, which accepts an existing directory.
MkdirAll(d) ==
    /\ pc[d] = "mkdir"
    /\ owner' = [owner EXCEPT ![RunDirOf[d]] = d]
    /\ Continue(d, "prepare")
    /\ UNCHANGED <<scriptVars, asmVars, files, meta, evals, result>>

\* os.Mkdir(runDir): atomic, fails when another driver was faster.
Mkdir(d) ==
    LET r == RunDirOf[d] IN
    /\ pc[d] = "mkdir"
    /\ \/ /\ owner[r] = NoDriver
          /\ owner' = [owner EXCEPT ![r] = d]
          /\ Continue(d, "prepare")
       \/ /\ owner[r] # NoDriver
          /\ Leave(d, "error")
          /\ UNCHANGED owner
    /\ UNCHANGED <<scriptVars, asmVars, files, meta, evals, result>>

\* Workspace, overlay, snapshot, prompt, config; then the script is started and
\* brings up its containers.  Any preparation error returns and leaves the
\* directory behind; a script that cannot be started counts as exit 71.
Launch(d) ==
    /\ pc[d] = "prepare"
    /\ \/ /\ Continue(d, "candidate")
          /\ script' = [script EXCEPT ![d] = "setup"]
          /\ live'   = [live EXCEPT ![d] = TRUE]
       \/ /\ pc'   = [pc EXCEPT ![d] = "cleanup"]
          /\ exit' = [exit EXCEPT ![d] = 71]
          /\ UNCHANGED <<holder, attempt, ctx, unsafe, script, live>>
       \/ /\ Leave(d, "error")
          /\ UNCHANGED <<script, live>>
    /\ UNCHANGED <<agentStart, elapsed, asmVars, diskVars>>

\* Defect: runCandidate waits on the signal context, which has no deadline.
InterruptOnSignalOnly(d) ==
    /\ pc[d] = "candidate" /\ ctx[d] = "canceled" /\ script[d] \in ScriptRunning
    /\ Continue(d, "interrupted")
    /\ UNCHANGED <<scriptVars, asmVars, diskVars>>

\* runCandidate's select on ctx.Done(): SIGINT to the script.
Interrupt(d) ==
    /\ pc[d] = "candidate" /\ ctx[d] # "open" /\ script[d] \in ScriptRunning
    /\ Continue(d, "interrupted")
    /\ UNCHANGED <<scriptVars, asmVars, diskVars>>

\* Five seconds after the SIGINT the script is killed; nothing cleans up.
Kill(d) ==
    /\ pc[d] = "interrupted" /\ script[d] \in ScriptRunning
    /\ script' = [script EXCEPT ![d] = "exited"]
    /\ exit'   = [exit EXCEPT ![d] = Killed]
    /\ UNCHANGED <<pc, holder, attempt, ctx, unsafe, agentStart, elapsed, live,
                   asmVars, diskVars>>

\* runCandidate returned; a passed deadline overrides every exit code.
Reap(d) ==
    /\ pc[d] \in {"candidate", "interrupted"} /\ script[d] = "exited"
    /\ pc'   = [pc EXCEPT ![d] = "cleanup"]
    /\ exit' = [exit EXCEPT ![d] = IF ctx[d] = "deadline" THEN 124 ELSE @]
    /\ UNCHANGED <<holder, attempt, ctx, unsafe, scriptVars, asmVars, diskVars>>

\* What the script's cleanup() leaves: it ignores the failure of every docker
\* command it runs.
Leftovers(d) == IF RemovalMayFail THEN {live[d], FALSE} ELSE {FALSE}

\* Defect: a failed cleanup does not change the exit code.
CleanupIgnoringError(d) ==
    /\ pc[d] = "cleanup"
    /\ Continue(d, "finalize")
    /\ \E l \in {live[d], FALSE} : live' = [live EXCEPT ![d] = l]
    /\ UNCHANGED <<script, agentStart, elapsed, asmVars, diskVars>>

\* `run-candidate.sh --cleanup`: exit 0 unless it does not end in 30 seconds or
\* candidate-stderr.log cannot be opened.
Cleanup(d) ==
    /\ pc[d] = "cleanup"
    /\ pc' = [pc EXCEPT ![d] = "finalize"]
    /\ \/ /\ \E l \in Leftovers(d) : live' = [live EXCEPT ![d] = l]
          /\ UNCHANGED exit
       \/ /\ exit' = [exit EXCEPT ![d] = 71]
          /\ UNCHANGED live
    /\ UNCHANGED <<holder, attempt, ctx, unsafe, script, agentStart, elapsed,
                   asmVars, diskVars>>

\* validateWorkspaceTree, then final.patch (empty when the tree is unsafe) and
\* removal of the starting snapshot; git or the file system may fail.
Finalize(d) ==
    /\ pc[d] = "finalize"
    /\ \/ /\ \E u \in BOOLEAN : unsafe' = [unsafe EXCEPT ![d] = u]
          /\ pc' = [pc EXCEPT ![d] = "metadata"]
          /\ Put(RunDirOf[d], "final.patch")
          /\ UNCHANGED <<holder, attempt, ctx, exit>>
       \/ /\ Leave(d, "error")
          /\ UNCHANGED files
    /\ UNCHANGED <<scriptVars, asmVars, owner, meta, evals, result>>

\* The switch on exitCode.
Classify(code) ==
    CASE code = 0   -> "submitted"
      [] code = 124 -> "timed-out"
      [] code = 71  -> "infrastructure-failure"
      [] OTHER      -> "harness-failure"

\* finishedAt - startedAt; a timed-out run is stamped with the deadline.
WallClock(code, ticks) == IF code = 124 THEN Timeout ELSE ticks

\* writeJSONAtomic(metadata.json): all of it or nothing.
WriteMetadata(d) ==
    LET r == RunDirOf[d] IN
    /\ pc[d] = "metadata"
    /\ \/ /\ meta' = [meta EXCEPT ![r] =
                  [status |-> IF unsafe[d] THEN "harness-failure" ELSE Classify(exit[d]),
                   wall   |-> WallClock(exit[d], elapsed[d])]]
          /\ Put(r, "metadata.json")
          /\ Continue(d, "marker")
       \/ /\ DiskMayFail
          /\ Leave(d, "error")
          /\ UNCHANGED <<meta, files>>
    /\ UNCHANGED <<scriptVars, asmVars, owner, evals, result>>

\* O_EXCL creation of .finalization-started, then the assembler is started.
StartAssembly(d) ==
    LET r == RunDirOf[d] IN
    /\ pc[d] = "marker"
    /\ \/ /\ ".finalization-started" \notin files[r]
          /\ Put(r, ".finalization-started")
          /\ asm' = [asm EXCEPT ![d] = "read"]
          /\ Continue(d, "assembly")
       \/ /\ ".finalization-started" \in files[r] \/ DiskMayFail
          /\ Leave(d, "error")
          /\ UNCHANGED <<files, asm>>
    /\ UNCHANGED <<scriptVars, draft, owner, meta, evals, result>>

\* Defect: the error of assembly.Run is ignored.
ReturnIgnoringAssembly(d) ==
    /\ pc[d] = "assembly" /\ asm[d] \in {"ok", "failed"}
    /\ Leave(d, IF exit[d] \in {0, 124} /\ ~unsafe[d] THEN "done" ELSE "error")
    /\ UNCHANGED <<scriptVars, asmVars, diskVars>>

\* assembly.Run returned; nil only for a clean submission or timeout.
Return(d) ==
    /\ pc[d] = "assembly" /\ asm[d] \in {"ok", "failed"}
    /\ Leave(d, IF asm[d] = "ok" /\ exit[d] \in {0, 124} /\ ~unsafe[d]
                THEN "done" ELSE "error")
    /\ UNCHANGED <<scriptVars, asmVars, diskVars>>

-----------------------------------------------------------------------------
(* run-candidate.sh *)

\* The script ends through on_exit or on_signal, both of which call cleanup();
\* its status is lost when the driver that waits for it was killed.
ScriptExit(d, code) ==
    /\ script'     = [script EXCEPT ![d] = "exited"]
    /\ agentStart' = [agentStart EXCEPT ![d] = 0]
    /\ exit' = [exit EXCEPT ![d] = IF pc[d] = "crashed" THEN @ ELSE code]
    /\ \E l \in Leftovers(d) : live' = [live EXCEPT ![d] = l]
    /\ UNCHANGED <<pc, holder, attempt, ctx, unsafe, elapsed, asmVars, diskVars>>

\* The topology is up and the coordinator is started, or a step failed: status 1
\* for a missing variable, before anything was created, and 71 otherwise.
Setup(d) ==
    /\ script[d] = "setup"
    /\ \/ /\ script'     = [script EXCEPT ![d] = "agent"]
          /\ agentStart' = [agentStart EXCEPT ![d] = elapsed[d]]
          /\ UNCHANGED <<driverVars, live, elapsed, asmVars, diskVars>>
       \/ \E code \in {1, 71} : ScriptExit(d, code)

\* The coordinator stopped with status zero or not, or the tool container died.
AgentEnds(d) ==
    /\ script[d] = "agent"
    /\ \E code \in {0, 70, 71} : ScriptExit(d, code)

\* The script's own deadline, counted from the start of the coordinator.
AgentTimesOut(d) ==
    /\ script[d] = "agent" /\ elapsed[d] >= agentStart[d] + Timeout
    /\ ScriptExit(d, 124)

\* The INT trap of an interrupted script.
Trap(d) ==
    /\ pc[d] = "interrupted" /\ script[d] \in ScriptRunning
    /\ ScriptExit(d, 130)

-----------------------------------------------------------------------------
(* runresult *)

\* Defect: the evaluator is invoked whatever the status is.
AsmReadAlwaysEvaluating(d) ==
    LET r == RunDirOf[d] IN
    /\ asm[d] = "read"
    /\ asm'   = [asm EXCEPT ![d] = "evaluate"]
    /\ draft' = [draft EXCEPT ![d] = meta[r].status]
    /\ evals' = [evals EXCEPT ![r] = @ + 1]
    /\ UNCHANGED <<driverVars, scriptVars, owner, files, meta, result>>

\* readMetadata rejects a wall clock above the limit, another input may be
\* unreadable, then assemble branches on the status: the evaluator is invoked,
\* or evaluation.json is null.
AsmRead(d) ==
    LET r == RunDirOf[d] IN
    /\ asm[d] = "read"
    /\ \/ /\ meta[r].wall > Timeout \/ DiskMayFail
          /\ asm' = [asm EXCEPT ![d] = "failed"]
          /\ UNCHANGED <<draft, files, evals>>
       \/ /\ meta[r].wall <= Timeout /\ meta[r].status \in Evaluated
          /\ asm'   = [asm EXCEPT ![d] = "evaluate"]
          /\ draft' = [draft EXCEPT ![d] = meta[r].status]
          /\ evals' = [evals EXCEPT ![r] = @ + 1]
          /\ UNCHANGED files
       \/ /\ meta[r].wall <= Timeout /\ meta[r].status \in Failed
          /\ asm'   = [asm EXCEPT ![d] = "compose"]
          /\ draft' = [draft EXCEPT ![d] = meta[r].status]
          /\ Put(r, "evaluation.json")
          /\ UNCHANGED evals
    /\ UNCHANGED <<driverVars, scriptVars, owner, meta, result>>

\* Defect: evaluation.json is written only for a trustworthy evaluation.
AsmEvaluateDroppingRaw(d) ==
    /\ asm[d] = "evaluate"
    /\ asm' = [asm EXCEPT ![d] = "compose"]
    /\ \/ Put(RunDirOf[d], "evaluation.json") /\ UNCHANGED draft
       \/ /\ \E s \in Failed : draft' = [draft EXCEPT ![d] = s]
          /\ UNCHANGED files
    /\ UNCHANGED <<driverVars, scriptVars, owner, meta, evals, result>>

\* Defect: a completed evaluation makes every run a submission.
AsmEvaluateAsSubmitted(d) ==
    /\ asm[d] = "evaluate"
    /\ asm' = [asm EXCEPT ![d] = "compose"]
    /\ \E s \in {"submitted"} \cup Failed : draft' = [draft EXCEPT ![d] = s]
    /\ Put(RunDirOf[d], "evaluation.json")
    /\ UNCHANGED <<driverVars, scriptVars, owner, meta, evals, result>>

\* evaluateCandidate ended, which it need not: a trustworthy evaluation, or a failure note that
\* replaces the status; the raw output is kept in either case.
AsmEvaluate(d) ==
    /\ asm[d] = "evaluate"
    /\ \/ /\ asm' = [asm EXCEPT ![d] = "compose"]
          /\ \E s \in {draft[d]} \cup Failed : draft' = [draft EXCEPT ![d] = s]
          /\ Put(RunDirOf[d], "evaluation.json")
       \/ /\ DiskMayFail
          /\ asm'   = [asm EXCEPT ![d] = "failed"]
          /\ draft' = [draft EXCEPT ![d] = NoStatus]
          /\ UNCHANGED files
    /\ UNCHANGED <<driverVars, scriptVars, owner, meta, evals, result>>

\* Transcript, patch classification, manifest and schema may each fail; when
\* none does run-result.json is written, by an os.WriteFile that may leave a
\* truncated file.
AsmCompose(d) ==
    LET r == RunDirOf[d] IN
    /\ asm[d] = "compose"
    /\ \/ /\ asm' = [asm EXCEPT ![d] = "failed"]
          /\ UNCHANGED result
          /\ UNCHANGED files \/ (DiskMayFail /\ Put(r, "run-result.json"))
       \/ /\ asm'    = [asm EXCEPT ![d] = "ok"]
          /\ result' = [result EXCEPT ![r] = draft[d]]
          /\ Put(r, "run-result.json")
    /\ draft' = [draft EXCEPT ![d] = NoStatus]
    /\ UNCHANGED <<driverVars, scriptVars, owner, meta, evals>>

-----------------------------------------------------------------------------
(* Environment *)

\* SIGINT or SIGTERM to the driver; it has no effect once the candidate ended.
Signal(d) ==
    /\ pc[d] \in {"acquire", "mkdir", "prepare", "candidate"} /\ ctx[d] = "open"
    /\ ctx' = [ctx EXCEPT ![d] = "canceled"]
    /\ UNCHANGED <<pc, holder, attempt, exit, unsafe, scriptVars, asmVars, diskVars>>

\* Time passes for a run while its candidate phase lasts; a tick is far longer
\* than the 5 and 30 second limits of the steps after it.  The deadline may
\* still pass between the script's end and Reap.  The driver notices its outer
\* deadline before more time passes; a script that lost its driver has only its
\* own deadline.
Tick(d) ==
    /\ \/ /\ pc[d] = "candidate" /\ elapsed[d] < OuterDeadline
          /\ script[d] \in ScriptRunning \/ elapsed[d] + 1 = OuterDeadline
       \/ pc[d] = "crashed" /\ script[d] \in ScriptRunning /\ elapsed[d] < Horizon
    /\ elapsed' = [elapsed EXCEPT ![d] = @ + 1]
    /\ ctx' = [ctx EXCEPT ![d] =
                 IF pc[d] = "candidate" /\ @ = "open" /\ elapsed[d] + 1 = OuterDeadline
                 THEN "deadline" ELSE @]
    /\ UNCHANGED <<pc, holder, attempt, exit, unsafe, script, agentStart, live,
                   asmVars, diskVars>>

\* The driver process is killed.
Crash(d) ==
    /\ pc[d] \notin Ended \cup {"idle"}
    /\ Cardinality({e \in Drivers : pc[e] = "crashed"}) < MaxCrashes
    /\ Leave(d, "crashed")
    /\ UNCHANGED <<scriptVars, asmVars, diskVars>>

-----------------------------------------------------------------------------
DriverStep(d) ==
    \/ Check(d) \/ TrySlot(d) \/ Poll(d) \/ Mkdir(d) \/ Launch(d)
    \/ Interrupt(d) \/ Kill(d) \/ Reap(d) \/ Cleanup(d) \/ Finalize(d)
    \/ WriteMetadata(d) \/ StartAssembly(d) \/ Return(d)

ScriptStep(d) == Setup(d) \/ AgentEnds(d) \/ AgentTimesOut(d) \/ Trap(d)

AsmStep(d) == AsmRead(d) \/ AsmEvaluate(d) \/ AsmCompose(d)

\* Every invocation and everything it started has come to rest.
Terminated ==
    /\ \A d \in Drivers : /\ pc[d] \in Ended
                          /\ script[d] \notin ScriptRunning
                          /\ asm[d] \notin AsmRunning
    /\ UNCHANGED vars

Next ==
    \/ \E d \in Drivers : DriverStep(d) \/ ScriptStep(d) \/ AsmStep(d)
    \/ \E d \in Drivers : Signal(d) \/ Tick(d) \/ Crash(d)
    \/ Terminated

Spec == Init /\ [][Next]_vars

\* A started driver keeps running, time passes, and the assembler goes on reading and
\* writing.  Nothing is assumed of the operator, the script or the agent, nor that
\* evaluateCandidate ever returns: module EvaluatorWrapper shows how it may not.
Fairness ==
    \A d \in Drivers : /\ WF_vars(pc[d] # "idle" /\ DriverStep(d))
                       /\ WF_vars(Tick(d))
                       /\ WF_vars(AsmRead(d) \/ AsmCompose(d))

FairSpec == Spec /\ Fairness

-----------------------------------------------------------------------------
(* Properties *)

TypeOK ==
    /\ pc         \in [Drivers -> Labels]
    /\ holder     \in [Slots -> Drivers \cup {NoDriver}]
    /\ attempt    \in [Drivers -> 1 .. MaxConcurrency + 1]
    /\ owner      \in [RunDirs -> Drivers \cup {NoDriver}]
    /\ ctx        \in [Drivers -> {"open", "canceled", "deadline"}]
    /\ script     \in [Drivers -> ScriptRunning \cup {"none", "exited"}]
    /\ agentStart \in [Drivers -> 0 .. Horizon]
    /\ live       \in [Drivers -> BOOLEAN]
    /\ elapsed    \in [Drivers -> 0 .. Horizon]
    /\ exit       \in [Drivers -> ExitCodes]
    /\ unsafe     \in [Drivers -> BOOLEAN]
    /\ asm        \in [Drivers -> AsmRunning \cup {"none", "ok", "failed"}]
    /\ draft      \in [Drivers -> Status \cup {NoStatus}]
    /\ files      \in [RunDirs -> SUBSET Artifacts]
    /\ meta       \in [RunDirs -> [status : Status \cup {NoStatus}, wall : 0 .. Horizon]]
    /\ evals      \in [RunDirs -> Nat]
    /\ result     \in [RunDirs -> Status \cup {NoStatus}]

\* The flock slots bound the drivers that are between acquireSlot and their
\* deferred release: however drivers interleave, fail, are signalled or are
\* killed, no more than maxConcurrency of them own a slot.
ConcurrencyBound ==
    Cardinality({d \in Drivers : pc[d] \in Holding}) =< MaxConcurrency

\* A driver, its script or its assembler may still touch the run directory.
Working(d) ==
    pc[d] \in Owning \/ script[d] \in ScriptRunning \/ asm[d] \in AsmRunning

\* Two invocations given the same -run-dir never both work on it, although
\* each tests for its absence long before it creates it, and although a killed
\* driver leaves its children working.
OneWriter ==
    \A d, e \in Drivers :
        Working(d) /\ Working(e) /\ RunDirOf[d] = RunDirOf[e] => d = e

\* "Submitted and timed-out workspaces are evaluated once" as an upper bound,
\* and a failed candidate phase is never evaluated.
EvaluatedAtMostOnce ==
    \A r \in RunDirs : evals[r] =< IF meta[r].status \in Evaluated THEN 1 ELSE 0

\* A published run-result.json is backed by every artifact it names, agrees
\* with metadata.json when the candidate phase failed, and claims a
\* submission or a timeout only if the evaluator ran on one.
ResultJustified ==
    \A r \in RunDirs : result[r] # NoStatus =>
        /\ files[r] = Artifacts
        /\ meta[r].status \in Failed => result[r] = meta[r].status
        /\ result[r] \in Evaluated => result[r] = meta[r].status /\ evals[r] = 1

\* The evaluator never runs while the candidate of the same run can still
\* write to the workspace (removals by docker being reliable): neither the
\* runner script nor a labelled container survives to that point.
EvaluationIsQuiescent ==
    \A d \in Drivers : asm[d] = "evaluate" => script[d] = "exited" /\ ~live[d]

\* A driver that exits zero has published a result for its own run.
DoneMeansPublished ==
    \A d \in Drivers : pc[d] = "done" =>
        owner[RunDirOf[d]] = d /\ result[RunDirOf[d]] # NoStatus

\* Nothing on disk is rewritten: no step of any driver, script or assembler
\* changes metadata.json or run-result.json once written, or drops a file.
WriteOnce ==
    [][\A r \in RunDirs :
        /\ meta[r] # NoMeta => meta'[r] = meta[r]
        /\ result[r] # NoStatus => result'[r] = result[r]
        /\ files[r] \subseteq files'[r]]_vars

\* The driver waits for an assembler that waits for its evaluator: assembly.Run has
\* no deadline, and the slot stays locked.
Held(d) == pc[d] = "assembly" /\ asm[d] = "evaluate"

\* Every driver that starts waiting for a slot returns (or is killed), even when its
\* script never ends by itself; the one thing that can hold it for ever is an
\* evaluation that never returns, its own or that of a driver with a slot.
DriverEnds ==
    \A d \in Drivers :
        [](pc[d] = "acquire" => <>(pc[d] \in Ended) \/ <>[](\E e \in Drivers : Held(e)))

\* The abstract promise: each run directory goes once through
\* claim - record - evaluate - publish.
Ledger == INSTANCE RunLedger WITH
    claimed     <- [r \in RunDirs |-> owner[r] # NoDriver],
    recorded    <- [r \in RunDirs |-> meta[r].status],
    evaluations <- evals,
    published   <- result

\* The driver, script and assembler together implement the ledger of runs.
ImplementsLedger == Ledger!Spec

-----------------------------------------------------------------------------
(* The inductive invariant behind the proofs of RunDriverProofs *)

\* A driver past acquireSlot holds one of the flocks.
SlotHeld == \A d \in Drivers : pc[d] \in Holding => \E s \in Slots : holder[s] = d

\* A run directory was created by a driver it was given to.
OwnersMatch == \A r \in RunDirs : owner[r] # NoDriver => RunDirOf[owner[r]] = r

\* A directory nobody created holds nothing.
Unclaimed ==
    \A r \in RunDirs : owner[r] = NoDriver =>
        files[r] = {} /\ meta[r] = NoMeta /\ evals[r] = 0 /\ result[r] = NoStatus

\* Status s of run r is what its record and its evaluation justify.
Backed(r, s) ==
    \/ meta[r].status \in Failed /\ s = meta[r].status /\ evals[r] = 0
    \/ meta[r].status \in Evaluated /\ evals[r] = 1 /\ s \in {meta[r].status} \cup Failed

\* What the directory holds at each point of its driver and its assembler.
DriverProgress(d, r) ==
    /\ pc[d] \in Owning \ {"marker", "assembly"} => meta[r] = NoMeta
    /\ pc[d] = "metadata" => "final.patch" \in files[r]
    /\ pc[d] = "marker" => /\ {"final.patch", "metadata.json"} \subseteq files[r]
                           /\ meta[r].status \in Status
    /\ pc[d] \in Owning \ {"assembly"} => asm[d] = "none"
    /\ pc[d] = "assembly" => asm[d] # "none"

AsmProgress(d, r) ==
    /\ asm[d] \in {"none", "read"} => evals[r] = 0
    /\ asm[d] # "ok" => result[r] = NoStatus
    /\ asm[d] = "none" => ".finalization-started" \notin files[r]
    /\ asm[d] # "none" => /\ meta[r].status \in Status
                          /\ {"final.patch", "metadata.json", ".finalization-started"}
                             \subseteq files[r]
    /\ asm[d] = "evaluate" => /\ meta[r].status \in Evaluated
                              /\ draft[d] = meta[r].status /\ evals[r] = 1
    /\ asm[d] = "compose" => "evaluation.json" \in files[r] /\ Backed(r, draft[d])
    /\ asm[d] = "failed" => evals[r] =< IF meta[r].status \in Evaluated THEN 1 ELSE 0
    /\ asm[d] = "ok" => files[r] = Artifacts /\ Backed(r, result[r])

\* Whoever works on a run directory created it, and has passed Mkdir.
Ownership(d) ==
    /\ pc[d] \in Owning \/ script[d] # "none" \/ asm[d] # "none" => owner[RunDirOf[d]] = d
    /\ owner[RunDirOf[d]] = d => pc[d] \notin {"idle", "acquire", "mkdir"}

Progress(d) ==
    /\ owner[RunDirOf[d]] = d => DriverProgress(d, RunDirOf[d]) /\ AsmProgress(d, RunDirOf[d])
    /\ pc[d] = "done" => asm[d] = "ok"

\* A candidate phase that ends in an evaluable status has left nothing running.
Stopped(d) == script[d] = "exited" /\ (RemovalMayFail \/ ~live[d])

Quiescence(d) ==
    /\ pc[d] = "prepare" => script[d] = "none"
    /\ pc[d] \in {"cleanup", "finalize", "metadata"} =>
        \/ script[d] = "exited"
        \/ script[d] = "none" /\ exit[d] = 71
    /\ pc[d] \in {"finalize", "metadata"} /\ exit[d] \in {0, 124} => Stopped(d)
    /\ owner[RunDirOf[d]] = d /\ meta[RunDirOf[d]].status \in Evaluated => Stopped(d)

Local(d) == Ownership(d) /\ Progress(d) /\ Quiescence(d)

IInv == TypeOK /\ SlotHeld /\ OwnersMatch /\ Unclaimed /\ \A d \in Drivers : Local(d)

=============================================================================
