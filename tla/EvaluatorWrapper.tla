-------------------------- MODULE EvaluatorWrapper --------------------------
(***************************************************************************)
(* evaluateCandidate of runresult runs the evaluator through               *)
(* run-evaluator-container.sh: a shell, the docker client it waits for,    *)
(* and the container in which the evaluator of module Evaluator runs.  The *)
(* assembly deadline kills the shell; Run returns when the shell has ended *)
(* and nobody holds its output pipes any more.                             *)
(***************************************************************************)
EXTENDS Evaluator

CONSTANTS
    Budget,      \* time the evaluator gives itself
    Deadline,    \* time evaluateCandidate gives it
    MaxFaults    \* docker commands that may fail, or lose the daemon

ASSUME WrapperAssumption ==
    Budget \in Nat /\ Deadline \in Nat /\ Budget < Deadline /\ MaxFaults \in Nat

VARIABLES
    caller,   \* evaluateCandidate: "run", "cleanup", "classify" or "done"
    shell,    \* "running", "trap" (its EXIT trap), "ended" or "killed"
    client,   \* docker run: "running", "ended" with the container, or "lost"
    box,      \* the evaluator's container: "running" or "ended"
    output,   \* what reached the pipe: "part" or "whole"
    clock,
    outcome,  \* "none", "kept", "deadline", "error" or "infrastructure"
    faults

system == <<vars, caller, shell, client, box, output, clock, outcome, faults>>

WrapperInit ==
    /\ Init
    /\ caller = "run" /\ shell = "running" /\ client = "running" /\ box = "running"
    /\ output = "part" /\ clock = 0 /\ outcome = "none" /\ faults = 0

Works == UNCHANGED faults
Fails == faults < MaxFaults /\ faults' = faults + 1

-----------------------------------------------------------------------------
(* The evaluator in its container *)

\* stop() waits for a value that the channel will never carry again.
Stuck == pc = "reap" /\ done = 0 /\ waiter = "sent"

\* A step of the evaluator; a result it prints reaches the pipe of the client.
Inside(A) ==
    /\ box = "running" /\ A
    /\ output' = IF written' /\ client = "running" THEN "whole" ELSE output
    /\ UNCHANGED <<caller, shell, client, box, clock, outcome, faults>>

BudgetEnds == clock >= Budget /\ Inside(Abort)

\* Past its budget the evaluator comes to its end, or is stuck, before the
\* minute to the deadline is over.
Tick ==
    /\ clock < Deadline
    /\ (box = "running" /\ ~Stuck) => clock < Budget
    /\ clock' = clock + 1
    /\ UNCHANGED <<vars, caller, shell, client, box, output, outcome, faults>>

\* The processes of a container die with it.
GroupDies ==
    /\ make' = (IF make = "running" THEN "exited" ELSE make)
    /\ service' = (IF service \in Alive THEN "dead" ELSE service)

\* The evaluator is the main process of its container.
BoxEnds ==
    /\ box = "running" /\ pc = "exited"
    /\ box' = "ended" /\ GroupDies
    /\ UNCHANGED <<pc, ctx, container, tainted, waiter, done, timerVars, resultVars, reportVars,
                   caller, shell, client, output, clock, outcome, faults>>

\* docker stop and docker rm -f: on SIGTERM the evaluator winds up without a
\* result, unless it is stuck and killed.
StopsAndRemoves ==
    /\ box' = "ended" /\ GroupDies
    /\ container' = (container /\ (box = "running" => Stuck))
    /\ UNCHANGED <<pc, ctx, tainted, waiter, done, timerVars, resultVars, reportVars>>

-----------------------------------------------------------------------------
(* The docker client and the shell *)

ClientEnds ==
    /\ client = "running" /\ box = "ended"
    /\ client' = "ended"
    /\ UNCHANGED <<vars, caller, shell, box, output, clock, outcome, faults>>

\* The docker client loses the daemon and exits; the container goes on.
ClientLost ==
    /\ client = "running" /\ Fails
    /\ client' = "lost"
    /\ UNCHANGED <<vars, caller, shell, box, output, clock, outcome>>

\* docker run returns to the shell, which runs its EXIT trap.
ShellWaits ==
    /\ shell = "running" /\ client # "running"
    /\ shell' = "trap"
    /\ UNCHANGED <<vars, caller, client, box, output, clock, outcome, faults>>

\* The trap ignores a failure of its commands; the shell exits with the code of
\* docker run.
ShellTrap ==
    /\ shell = "trap" /\ shell' = "ended"
    /\ (Works /\ StopsAndRemoves) \/ (Fails /\ UNCHANGED <<vars, box>>)
    /\ UNCHANGED <<caller, client, output, clock, outcome>>

-----------------------------------------------------------------------------
(* evaluateCandidate *)

\* Defect: the context expires with the budget.
BudgetKills ==
    /\ caller = "run" /\ clock >= Budget /\ shell \in {"running", "trap"}
    /\ shell' = "killed"
    /\ UNCHANGED <<vars, caller, client, box, output, clock, outcome, faults>>

\* The context kills the process it started, and no other.
DeadlineKills ==
    /\ caller = "run" /\ clock = Deadline /\ shell \in {"running", "trap"}
    /\ shell' = "killed"
    /\ UNCHANGED <<vars, caller, client, box, output, clock, outcome, faults>>

\* Defect: Run waits for a shell that was killed to end by itself.
RunReturnsAtEnd ==
    /\ caller = "run" /\ shell = "ended" /\ client # "running"
    /\ caller' = "cleanup"
    /\ UNCHANGED <<vars, shell, client, box, output, clock, outcome, faults>>

\* command.Run returns: the process has ended and the pipes are closed, which
\* the docker client inherited.
RunReturns ==
    /\ caller = "run" /\ shell \in {"ended", "killed"} /\ client # "running"
    /\ caller' = "cleanup"
    /\ UNCHANGED <<vars, shell, client, box, output, clock, outcome, faults>>

\* Defect: only the wrapper's own trap removes the container.
NoLabelCleanup ==
    /\ caller = "cleanup" /\ caller' = "classify"
    /\ UNCHANGED <<vars, shell, client, box, output, clock, outcome, faults>>

\* Every container with the labels of the instance is stopped and removed; a
\* failure is ignored.
cleanupLabeledEvaluator ==
    /\ caller = "cleanup" /\ caller' = "classify"
    /\ (Works /\ StopsAndRemoves) \/ (Fails /\ UNCHANGED <<vars, box>>)
    /\ UNCHANGED <<shell, client, output, clock, outcome>>

\* The deadline first, then the exit code of the wrapper, then the JSON.
Classify ==
    /\ caller = "classify" /\ caller' = "done"
    /\ outcome' = (IF clock = Deadline THEN "deadline"
                   ELSE IF shell = "killed" \/ client = "lost" \/ code = 2 \/ output # "whole" THEN "error"
                   ELSE IF "postgres" \notin setup THEN "infrastructure"
                   ELSE "kept")
    /\ UNCHANGED <<vars, shell, client, box, output, clock, faults>>

Harness == ClientEnds \/ ShellWaits \/ ShellTrap \/ DeadlineKills \/ RunReturns
             \/ cleanupLabeledEvaluator \/ Classify

Around == Tick \/ BoxEnds \/ Harness

Finished == caller = "done" /\ UNCHANGED system

WrapperNext ==
    \/ Inside(Main) \/ Inside(ServiceReady) \/ Inside(ServiceExits) \/ Inside(MakeExits)
    \/ Inside(WaiterSends) \/ Inside(ReadyTimeout) \/ Inside(KillTimeout) \/ BudgetEnds
    \/ Around \/ ClientLost \/ Finished

\* Time passes, the goroutines and the processes around them go on, and timers
\* fire; select picks among its ready branches at random, so a timer that stays
\* ready is not passed over for ever.  Nothing is assumed of the candidate's
\* service, and no fault has to happen.
WrapperSpec ==
    /\ WrapperInit /\ [][WrapperNext]_system
    /\ WF_system(Around)
    /\ WF_system(Inside(Main)) /\ WF_system(Inside(WaiterSends)) /\ WF_system(BudgetEnds)
    /\ WF_system(Inside(ReadyTimeout)) /\ WF_system(Inside(KillTimeout))
    /\ SF_system(Inside(SelectEnded))

-----------------------------------------------------------------------------
(* Properties *)

\* When evaluateCandidate returns, no evaluator works on the workspace, no service
\* of the candidate runs, not even one that outlived its make and the evaluator,
\* and the evaluator's own containers are gone, whoever of shell, client and daemon
\* failed it once; only an evaluator that had to be killed leaves its containers
\* behind.
NoEvaluatorLeft ==
    (caller = "done" /\ faults <= 1) =>
        box = "ended" /\ service \notin Alive /\ (container => Stuck)

\* evaluateCandidate keeps a verdict that the evaluator completed within its budget,
\* and no other; with docker working it keeps every one that it read before the
\* deadline.
KeptIffWritten ==
    caller = "done" =>
        /\ outcome = "kept" => written /\ ~tainted
        /\ (written /\ faults = 0) => outcome \in {"kept", "infrastructure"} \/ clock = Deadline

\* evaluateCandidate returns whatever the candidate's service does, hanging, dying
\* or ignoring SIGTERM, and whatever docker command fails; only a stuck evaluator
\* with its docker client attached can hold it.
ReturnsUnlessStuck == <>(caller = "done" \/ (Stuck /\ client = "running"))

\* evaluateCandidate returns: cleanupLabeledEvaluator "handles an evaluator wrapper
\* whose Docker client was killed by the assembly deadline".
AssemblyReturns == <>(caller = "done")

-----------------------------------------------------------------------------
(* The inductive invariant *)

WrapperTypeOK ==
    /\ caller \in {"run", "cleanup", "classify", "done"}
    /\ shell \in {"running", "trap", "ended", "killed"}
    /\ client \in {"running", "ended", "lost"} /\ box \in {"running", "ended"}
    /\ output \in {"part", "whole"} /\ clock \in 0 .. Deadline
    /\ outcome \in {"none", "kept", "deadline", "error", "infrastructure"}
    /\ faults \in 0 .. MaxFaults

\* Who of client, container and caller has gone before whom.
Endings ==
    /\ client = "ended" => box = "ended"
    /\ client = "lost" => faults > 0
    /\ box = "ended" => service \notin Alive /\ (container => Stuck)
    /\ caller # "run" => client # "running"
    /\ (caller \in {"classify", "done"} /\ faults <= 1) => box = "ended"

\* What reached the pipe, and what evaluateCandidate made of it.
Reading ==
    /\ output = "whole" => written
    /\ (written /\ client # "lost") => output = "whole"
    /\ shell = "killed" => clock = Deadline
    /\ (caller = "done" /\ outcome = "kept") => output = "whole"
    /\ (caller = "done" /\ written /\ faults = 0) =>
          outcome \in {"kept", "infrastructure"} \/ clock = Deadline

WrapperInv == EvaluatorInv /\ WrapperTypeOK /\ Endings /\ Reading

=============================================================================
