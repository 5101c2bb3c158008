----------------------------- MODULE Evaluator -----------------------------
(***************************************************************************)
(* The hidden evaluator: Evaluate of evaluator/internal/evaluator, the     *)
(* service process it supervises (startService, waitReady, stop and the    *)
(* goroutine that waits for the process) and the main of cmd/evaluator     *)
(* that turns the result into a file and an exit code.                     *)
(***************************************************************************)
EXTENDS Integers, Sequences

CONSTANTS
    NCases,        \* number of case definitions
    Definition     \* whom a case applies to: "all", the selected "task", an "other" one

ASSUME EvaluatorAssumption ==
    /\ NCases \in Nat \ {0}
    /\ Definition \in [1 .. NCases -> {"all", "task", "other"}]
    /\ \E i \in 1 .. NCases : Definition[i] = "all"

VARIABLES
    pc,          \* where the main goroutine is
    ctx,         \* the evaluation context: budget and signals
    container,   \* a PostgreSQL container was created and not terminated
    make,        \* make run, the process that was started: "none", "running", "exited"
    service,     \* the rest of its process group, the candidate's service
    waiter,      \* the goroutine that calls command.Wait
    done,        \* values buffered in the channel p.done (capacity 1)
    readyTimer,  \* the 30 second readiness timer has fired
    killTimer,   \* the 10 second timer of stop() has fired
    setup,       \* the flags of result.Setup that are true
    cases,       \* result.BehaviorCases
    success,     \* result.CompleteSuccess
    tainted,     \* history: something ran after the context had ended
    written,     \* a result was written
    code         \* exit code of the process, or -1

resultVars  == <<setup, cases, success>>
processVars == <<make, service, waiter, done>>
reportVars  == <<written, code>>
timerVars   == <<readyTimer, killTimer>>
vars == <<pc, ctx, container, tainted, processVars, timerVars, resultVars, reportVars>>

-----------------------------------------------------------------------------
(* Values *)

SetupFlags == {"postgres", "build", "migrations", "serviceReady"}

Outcomes == {"passed", "failed", "n/a"}

Alive == {"starting", "ready"}

Labels == {"postgres", "build", "migrate", "start", "probe", "select", "case",
           "stop", "reap", "terminate", "report", "exited"}

Applicable(i) == Definition[i] # "other"

\* Everything that runs with a dead context marks the history.
Taint == tainted' = (tainted \/ ctx # "open")

Init ==
    /\ pc = "postgres" /\ ctx = "open" /\ container = FALSE
    /\ make = "none" /\ service = "none" /\ waiter = "none" /\ done = 0
    /\ readyTimer = FALSE /\ killTimer = FALSE
    /\ setup = {} /\ cases = <<>> /\ success = FALSE
    /\ tainted = FALSE /\ written = FALSE /\ code = -1

-----------------------------------------------------------------------------
(* Evaluate: setup *)

\* setupFailureCases: every applicable case failed, the others do not apply.
NotRun == [i \in 1 .. NCases |-> IF Applicable(i) THEN "failed" ELSE "n/a"]

\* failSetup, then the deferred calls registered so far from label on.
FailSetup(label) ==
    /\ cases' = NotRun
    /\ pc' = label
    /\ UNCHANGED <<setup, success>>

\* A setup step succeeded: its flag is set and the next step follows.
Passed(flag, label) ==
    /\ setup' = setup \cup {flag}
    /\ pc' = label
    /\ UNCHANGED <<cases, success>>

\* postgres.Run may fail with or without a container, and the connection string
\* may be unavailable although PostgreSQL is up.
StartPostgres ==
    /\ pc = "postgres"
    /\ \/ FailSetup("terminate") /\ container' \in BOOLEAN
       \/ Passed("postgres", "build") /\ container' = TRUE
       \/ /\ setup' = setup \cup {"postgres"} /\ cases' = NotRun /\ pc' = "terminate"
          /\ container' = TRUE
          /\ UNCHANGED success
    /\ Taint
    /\ UNCHANGED <<ctx, processVars, timerVars, reportVars>>

\* make build; runCommand kills the process group when the context ends.
Build ==
    /\ pc = "build"
    /\ FailSetup("terminate") \/ (ctx = "open" /\ Passed("build", "migrate"))
    /\ Taint
    /\ UNCHANGED <<ctx, container, processVars, timerVars, reportVars>>

\* make migrate.
Migrate ==
    /\ pc = "migrate"
    /\ FailSetup("terminate") \/ (ctx = "open" /\ Passed("migrations", "start"))
    /\ Taint
    /\ UNCHANGED <<ctx, container, processVars, timerVars, reportVars>>

\* availableAddress and startService: make run in a process group of its own, and
\* the goroutine that waits for it.
StartService ==
    /\ pc = "start"
    /\ \/ FailSetup("terminate") /\ UNCHANGED processVars
       \/ /\ pc' = "probe" /\ make' = "running" /\ service' = "starting" /\ waiter' = "waiting"
          /\ UNCHANGED <<done, resultVars>>
    /\ Taint
    /\ UNCHANGED <<ctx, container, timerVars, reportVars>>

-----------------------------------------------------------------------------
(* waitReady *)

\* One GET /healthz, and pgxpool.New after the one that is answered with 200.
Probe ==
    /\ pc = "probe"
    /\ \/ /\ service = "ready" /\ ctx = "open"
          /\ setup' = setup \cup {"serviceReady"}
          /\ \/ pc' = "case" /\ success' = TRUE /\ UNCHANGED cases
             \/ pc' = "stop" /\ cases' = NotRun /\ UNCHANGED success
       \/ pc' = "select" /\ UNCHANGED resultVars
    /\ Taint
    /\ UNCHANGED <<ctx, container, processVars, timerVars, reportVars>>

\* The select of waitReady: the process ended, the context ended, the readiness
\* timer fired, or the ticker asks for another probe.
SelectDone ==
    /\ pc = "select" /\ done = 1
    /\ done' = 0
    /\ FailSetup("stop")
    /\ Taint
    /\ UNCHANGED <<ctx, container, make, service, waiter, timerVars, reportVars>>

\* Defect: service.stop() is deferred only once the service is ready.
SelectEndedWithoutStop ==
    /\ pc = "select" /\ (ctx # "open" \/ readyTimer)
    /\ FailSetup("terminate")
    /\ Taint
    /\ UNCHANGED <<ctx, container, processVars, timerVars, reportVars>>

SelectEnded ==
    /\ pc = "select" /\ (ctx # "open" \/ readyTimer)
    /\ FailSetup("stop")
    /\ Taint
    /\ UNCHANGED <<ctx, container, processVars, timerVars, reportVars>>

SelectTicker ==
    /\ pc = "select"
    /\ pc' = "probe"
    /\ Taint
    /\ UNCHANGED <<ctx, container, processVars, timerVars, resultVars, reportVars>>

-----------------------------------------------------------------------------
(* Evaluate: behavior cases, in registry order *)

\* Defect: a failed reset does not clear CompleteSuccess.
RunCaseKeepingSuccess ==
    LET i == Len(cases) + 1 IN
    /\ pc = "case" /\ i =< NCases
    /\ \E o \in IF Applicable(i) THEN {"passed", "failed"} ELSE {"n/a"} :
          /\ cases' = Append(cases, o)
          /\ success' = (success /\ ~(o = "failed" /\ Definition[i] = "all"))
    /\ Taint
    /\ UNCHANGED <<pc, ctx, container, setup, processVars, timerVars, reportVars>>

\* Skip, or reset the table and run; whatever the service, the database or the
\* context do, the case ends with an outcome (5 second request timeout).
RunCase ==
    LET i == Len(cases) + 1 IN
    /\ pc = "case" /\ i =< NCases
    /\ \E o \in IF Applicable(i) THEN {"passed", "failed"} ELSE {"n/a"} :
          /\ cases' = Append(cases, o)
          /\ success' = (success /\ o # "failed")
    /\ Taint
    /\ UNCHANGED <<pc, ctx, container, setup, processVars, timerVars, reportVars>>

\* All cases ran; pool.Close and service.stop are next.
CasesEnd ==
    /\ pc = "case" /\ Len(cases) = NCases
    /\ pc' = "stop"
    /\ UNCHANGED <<ctx, container, tainted, processVars, timerVars, resultVars, reportVars>>

-----------------------------------------------------------------------------
(* stop *)

\* SIGTERM went to the group before; make was reaped in time, and whether the
\* service ended with it nobody asks.
StopDone ==
    /\ pc \in {"stop", "reap"} /\ done = 1
    /\ done' = 0 /\ pc' = "terminate"
    /\ UNCHANGED <<ctx, container, tainted, make, service, waiter, timerVars, resultVars, reportVars>>

\* SIGKILL to the group after 10 seconds; then the channel is awaited without a timeout.
StopKill ==
    /\ pc = "stop" /\ killTimer
    /\ pc' = "reap"
    /\ make' = "exited" /\ service' = "dead"
    /\ UNCHANGED <<ctx, container, tainted, waiter, done, timerVars, resultVars, reportVars>>

\* The deferred TerminateContainer, taken to succeed: its error is ignored, and
\* what it may leave is removed by the reaper of the container library.
Terminate ==
    /\ pc = "terminate"
    /\ container' = FALSE /\ pc' = "report"
    /\ UNCHANGED <<ctx, tainted, processVars, timerVars, resultVars, reportVars>>

-----------------------------------------------------------------------------
(* main *)

\* Defect: the context is not consulted after Evaluate.
ReportUnchecked ==
    /\ pc = "report"
    /\ pc' = "exited"
    /\ written' = TRUE /\ code' = IF success THEN 0 ELSE 1
    /\ UNCHANGED <<ctx, container, tainted, processVars, timerVars, resultVars>>

\* No result after a budget or a signal; otherwise the atomic write may fail.
Report ==
    /\ pc = "report"
    /\ pc' = "exited"
    /\ \/ ctx # "open" /\ code' = 2 /\ UNCHANGED written
       \/ ctx = "open" /\ code' = 2 /\ UNCHANGED written
       \/ ctx = "open" /\ written' = TRUE /\ code' = IF success THEN 0 ELSE 1
    /\ UNCHANGED <<ctx, container, tainted, processVars, timerVars, resultVars>>

-----------------------------------------------------------------------------
(* The service, its waiting goroutine, timers and signals *)

ServiceReady ==
    /\ service = "starting"
    /\ service' = "ready"
    /\ UNCHANGED <<pc, ctx, container, tainted, make, waiter, done, timerVars, resultVars, reportVars>>

\* The service exits: by itself, or because of the SIGTERM of stop().
ServiceExits ==
    /\ service \in Alive
    /\ service' = "dead"
    /\ UNCHANGED <<pc, ctx, container, tainted, make, waiter, done, timerVars, resultVars, reportVars>>

\* make exits, after the service or before it: the service may have been put in
\* the background, or ignore the SIGTERM that ends make.
MakeExits ==
    /\ make = "running"
    /\ make' = "exited"
    /\ UNCHANGED <<pc, ctx, container, tainted, service, waiter, done, timerVars, resultVars, reportVars>>

\* command.Wait returned, make's output being a file that nobody copies; the
\* channel has room for the one value ever sent.
WaiterSends ==
    /\ waiter = "waiting" /\ make = "exited"
    /\ waiter' = "sent" /\ done' = done + 1
    /\ UNCHANGED <<pc, ctx, container, tainted, make, service, timerVars, resultVars, reportVars>>

ReadyTimeout ==
    /\ pc \in {"probe", "select"} /\ ~readyTimer
    /\ readyTimer' = TRUE
    /\ UNCHANGED <<pc, ctx, container, tainted, killTimer, processVars, resultVars, reportVars>>

KillTimeout ==
    /\ pc = "stop" /\ ~killTimer
    /\ killTimer' = TRUE
    /\ UNCHANGED <<pc, ctx, container, tainted, readyTimer, processVars, resultVars, reportVars>>

\* SIGINT, SIGTERM, or the 15 minute budget.
Abort ==
    /\ ctx = "open" /\ pc # "exited"
    /\ ctx' = "ended"
    /\ UNCHANGED <<pc, container, tainted, processVars, timerVars, resultVars, reportVars>>

Exited == pc = "exited" /\ UNCHANGED vars

-----------------------------------------------------------------------------
Setup == StartPostgres \/ Build \/ Migrate \/ StartService
Wait  == Probe \/ SelectDone \/ SelectEnded \/ SelectTicker
Main  == Setup \/ Wait \/ RunCase \/ CasesEnd \/ StopDone \/ StopKill \/ Terminate \/ Report

Next ==
    \/ Main
    \/ ServiceReady \/ ServiceExits \/ MakeExits \/ WaiterSends
    \/ ReadyTimeout \/ KillTimeout \/ Abort
    \/ Exited

Spec == Init /\ [][Next]_vars

-----------------------------------------------------------------------------
(* Properties *)

TypeOK ==
    /\ pc \in Labels /\ ctx \in {"open", "ended"} /\ container \in BOOLEAN
    /\ make \in {"none", "running", "exited"} /\ service \in Alive \cup {"none", "dead"}
    /\ waiter \in {"none", "waiting", "sent"} /\ done \in {0, 1}
    /\ readyTimer \in BOOLEAN /\ killTimer \in BOOLEAN
    /\ setup \subseteq SetupFlags /\ cases \in Seq(Outcomes) /\ success \in BOOLEAN
    /\ tainted \in BOOLEAN /\ written \in BOOLEAN /\ code \in {-1, 0, 1, 2}

\* A result that is written lists every case once in registry order, applicable
\* ones with a verdict; and exit code 0 is given to exactly the results whose
\* setup completed and whose applicable cases all passed.
VerdictJustified ==
    written =>
        /\ Len(cases) = NCases
        /\ \A i \in 1 .. NCases : (cases[i] = "n/a") <=> ~Applicable(i)
        /\ code = 0 <=> setup = SetupFlags /\ \A i \in 1 .. NCases : cases[i] # "failed"
        /\ code \in {0, 1}

\* "Partial behavior outcomes are never written": nothing that ran after the
\* budget ended or a signal arrived is part of a written result.
NoPartialOutcome == written => ~tainted

\* When the evaluator exits, the PostgreSQL container was terminated and make run
\* was reaped, whichever step failed or was aborted.  A service may live on, for
\* stop() kills the group only when make does not end: but only the service of a
\* make that ended first and was never killed.
NothingLeft ==
    pc = "exited" =>
        /\ ~container /\ waiter # "waiting"
        /\ service \in Alive => make = "exited"

-----------------------------------------------------------------------------
(* The inductive invariant behind the proofs of EvaluatorProofs *)

BeforeService == {"postgres", "build", "migrate", "start"}
AfterCases    == {"stop", "reap", "terminate", "report", "exited"}

\* Verdicts so far agree with the registry and with success.
Agrees ==
    /\ Len(cases) =< NCases
    /\ \A i \in 1 .. Len(cases) : (cases[i] = "n/a") <=> ~Applicable(i)

Complete ==
    /\ Len(cases) = NCases
    /\ success <=> setup = SetupFlags /\ \A i \in 1 .. NCases : cases[i] # "failed"

Verdicts ==
    /\ Agrees
    /\ pc \in AfterCases => Complete
    /\ pc = "case" => /\ setup = SetupFlags
                      /\ success <=> \A i \in 1 .. Len(cases) : cases[i] # "failed"
    /\ pc \notin AfterCases \cup {"case"} => cases = <<>> /\ ~success
    /\ pc = "postgres" => setup = {}
    /\ pc = "build" => setup = {"postgres"}
    /\ pc = "migrate" => setup = {"postgres", "build"}
    /\ pc \in {"start", "probe", "select"} => setup = {"postgres", "build", "migrations"}

Processes ==
    /\ done = 1 => waiter = "sent"
    /\ waiter = "sent" => make = "exited"
    /\ waiter = "none" <=> make = "none"
    /\ service = "none" <=> make = "none"
    /\ pc \in BeforeService => make = "none"
    /\ pc \in {"probe", "select", "case", "stop", "reap"} => make # "none"
    /\ pc \in {"terminate", "report", "exited"} => waiter # "waiting"
    /\ pc \in {"report", "exited"} => ~container

Reporting ==
    /\ tainted => ctx # "open"
    /\ written => pc = "exited" /\ ~tainted
    /\ written => code = IF success THEN 0 ELSE 1

EvaluatorInv == TypeOK /\ Verdicts /\ Processes /\ Reporting
=============================================================================
