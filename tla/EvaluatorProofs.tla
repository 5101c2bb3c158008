-------------------------- MODULE EvaluatorProofs --------------------------
(***************************************************************************)
(* Safety of the evaluator for every registry of cases, alone and inside   *)
(* its container, with the shell and the docker client around it and       *)
(* evaluateCandidate, for every budget, deadline and number of failing     *)
(* docker commands.                                                        *)
(***************************************************************************)
EXTENDS EvaluatorWrapper, TLAPS

USE EvaluatorAssumption, WrapperAssumption
USE DEF resultVars, processVars, reportVars, timerVars, Alive

-----------------------------------------------------------------------------
(* Type correctness *)

\* setupFailureCases returns one verdict per definition, and at least one
\* failure, because every registry has a case for all tasks.
LEMMA NotRunType ==
  /\ NotRun \in Seq(Outcomes) /\ Len(NotRun) = NCases
  /\ \A i \in 1 .. NCases : (NotRun[i] = "n/a") <=> ~Applicable(i)
  /\ \E i \in 1 .. NCases : NotRun[i] = "failed"
<1>1. NotRun \in [1 .. NCases -> Outcomes]
  BY DEF NotRun, Outcomes
<1>2. NotRun \in Seq(Outcomes) /\ Len(NotRun) = NCases
  BY <1>1
<1>3. \A i \in 1 .. NCases : NotRun[i] = IF Applicable(i) THEN "failed" ELSE "n/a"
  BY DEF NotRun
<1>4. \A i \in 1 .. NCases : (NotRun[i] = "n/a") <=> ~Applicable(i)
  BY <1>3
<1>5. \E i \in 1 .. NCases : NotRun[i] = "failed"
  BY <1>3 DEF Applicable
<1> QED
  BY <1>2, <1>4, <1>5

\* One more verdict keeps the earlier ones.
LEMMA AppendOutcome ==
  ASSUME cases \in Seq(Outcomes), NEW o \in Outcomes
  PROVE  /\ Append(cases, o) \in Seq(Outcomes)
         /\ Len(Append(cases, o)) = Len(cases) + 1
         /\ \A i \in 1 .. Len(cases) : Append(cases, o)[i] = cases[i]
         /\ Append(cases, o)[Len(cases) + 1] = o
  OBVIOUS

\* The initial state satisfies the invariant.
LEMMA InvInit == Init => EvaluatorInv
<1> SUFFICES ASSUME Init PROVE EvaluatorInv
  OBVIOUS
<1>1. TypeOK
  <2>1. <<>> \in Seq(Outcomes)
    OBVIOUS
  <2>2. /\ pc \in Labels /\ cases \in Seq(Outcomes) /\ setup \subseteq SetupFlags
    BY <2>1 DEF Init, Labels
  <2> QED
    BY <2>2 DEF Init, TypeOK
<1>2. Verdicts
  BY DEF Init, Verdicts, Agrees, AfterCases
<1>3. Processes /\ Reporting
  BY DEF Init, Processes, Reporting, BeforeService
<1> QED
  BY <1>1, <1>2, <1>3 DEF EvaluatorInv

-----------------------------------------------------------------------------
(* Verdicts *)

\* A setup failure at any point leaves a complete roster and no success.
LEMMA FailedSetup ==
  ASSUME cases' = NotRun, pc' \in {"stop", "terminate"}, success' = FALSE
  PROVE  Verdicts'
  BY NotRunType DEF Verdicts, Agrees, Complete, AfterCases

\* A setup step that succeeds adds its flag and nothing else.
LEMMA PassedSetup ==
  ASSUME Verdicts, cases = <<>>, ~success, cases' = cases, success' = success,
         \/ pc' = "build" /\ setup' = {"postgres"}
         \/ pc' = "migrate" /\ setup' = {"postgres", "build"}
         \/ pc' \in {"start", "probe", "select"} /\ setup' = {"postgres", "build", "migrations"}
  PROVE  Verdicts'
  BY DEF Verdicts, Agrees, AfterCases

\* A setup that ends early gives every case its verdict at once.
LEMMA SetupVerdicts ==
  ASSUME EvaluatorInv, Setup \/ Wait
  PROVE  Verdicts'
<1>0. Verdicts /\ TypeOK /\ pc \notin AfterCases \cup {"case"} /\ cases = <<>> /\ success = FALSE
  BY DEF EvaluatorInv, TypeOK, Verdicts, AfterCases, Setup, StartPostgres, Build, Migrate,
     StartService, Wait, Probe, SelectDone, SelectEnded, SelectTicker
<1>1. CASE StartPostgres
  BY <1>0, <1>1, FailedSetup, PassedSetup DEF StartPostgres, FailSetup, Passed, Verdicts
<1>2. CASE Build
  BY <1>0, <1>2, FailedSetup, PassedSetup DEF Build, FailSetup, Passed, Verdicts
<1>3. CASE Migrate
  BY <1>0, <1>3, FailedSetup, PassedSetup DEF Migrate, FailSetup, Passed, Verdicts
<1>4. CASE StartService
  BY <1>0, <1>4, FailedSetup, PassedSetup DEF StartService, FailSetup, Verdicts
<1>5. CASE SelectDone \/ SelectEnded \/ SelectTicker
  BY <1>0, <1>5, FailedSetup, PassedSetup DEF SelectDone, SelectEnded, SelectTicker, FailSetup,
     Verdicts
<1>6. CASE Probe
  <2>1. CASE pc' = "select"
    BY <1>0, <1>6, <2>1, PassedSetup DEF Probe, Verdicts
  <2>2. CASE pc' = "stop"
    BY <1>0, <1>6, <2>2, FailedSetup DEF Probe
  <2>3. CASE pc' = "case"
    <3>1. cases' = <<>> /\ success' = TRUE /\ setup' = SetupFlags
      BY <1>0, <1>6, <2>3 DEF Probe, Verdicts, SetupFlags
    <3> QED
      BY <2>3, <3>1 DEF Verdicts, Agrees, AfterCases
  <2> QED
    BY <1>6, <2>1, <2>2, <2>3 DEF Probe
<1> QED
  BY <1>1, <1>2, <1>3, <1>4, <1>5, <1>6 DEF Setup, Wait

\* A case adds its own verdict.
LEMMA CaseVerdicts ==
  ASSUME EvaluatorInv, RunCase
  PROVE  Verdicts'
<1> DEFINE n == Len(cases) + 1
<1>0. /\ TypeOK /\ Verdicts /\ pc = "case" /\ pc' = "case" /\ setup' = setup
      /\ cases \in Seq(Outcomes) /\ n \in 1 .. NCases
  BY DEF EvaluatorInv, TypeOK, RunCase
<1>1. PICK o \in IF Applicable(n) THEN {"passed", "failed"} ELSE {"n/a"} :
        /\ cases' = Append(cases, o)
        /\ success' = (success /\ o # "failed")
  BY DEF RunCase
<1>2. o \in Outcomes /\ (o = "n/a" <=> ~Applicable(n))
  BY <1>1 DEF Outcomes
<1>3. /\ Len(cases') = n /\ cases'[n] = o
      /\ \A i \in 1 .. Len(cases) : cases'[i] = cases[i]
  BY <1>0, <1>1, <1>2, AppendOutcome
<1>4. \A i \in 1 .. n : i \in 1 .. Len(cases) \/ i = n
  BY <1>0
<1>5. Agrees'
  BY <1>0, <1>2, <1>3, <1>4 DEF Verdicts, Agrees
<1>6. success' <=> \A i \in 1 .. Len(cases') : cases'[i] # "failed"
  <2>1. success <=> \A i \in 1 .. Len(cases) : cases[i] # "failed"
    BY <1>0 DEF Verdicts
  <2>2. (\A i \in 1 .. n : cases'[i] # "failed")
          <=> (\A i \in 1 .. Len(cases) : cases[i] # "failed") /\ o # "failed"
    BY <1>0, <1>3, <1>4
  <2> QED
    BY <1>1, <1>3, <2>1, <2>2
<1> QED
  BY <1>0, <1>5, <1>6 DEF Verdicts, AfterCases

\* After the cases no verdict changes.
LEMMA EndVerdicts ==
  ASSUME EvaluatorInv, UNCHANGED resultVars, pc \in AfterCases, pc' \in AfterCases
  PROVE  Verdicts'
  BY DEF EvaluatorInv, Verdicts, Agrees, Complete, AfterCases

\* When the last case is over, every definition has its verdict.
LEMMA CasesEndVerdicts ==
  ASSUME EvaluatorInv, CasesEnd
  PROVE  Verdicts'
  BY DEF EvaluatorInv, Verdicts, Agrees, Complete, AfterCases, CasesEnd

\* Steps of the service and the timers touch no verdict.
LEMMA IdleVerdicts ==
  ASSUME EvaluatorInv, UNCHANGED <<pc, resultVars>>
  PROVE  Verdicts'
  BY DEF EvaluatorInv, Verdicts, Agrees, Complete

\* Every step keeps the verdicts in agreement with the registry.
LEMMA VerdictsStep == EvaluatorInv /\ [Next]_vars => Verdicts'
<1> SUFFICES ASSUME EvaluatorInv, [Next]_vars PROVE Verdicts'
  OBVIOUS
<1>1. CASE Setup \/ Wait
  BY <1>1, SetupVerdicts
<1>2. CASE RunCase \/ CasesEnd
  BY <1>2, CaseVerdicts, CasesEndVerdicts
<1>3. CASE StopDone \/ StopKill \/ Terminate \/ Report
  BY <1>3, EndVerdicts DEF StopDone, StopKill, Terminate, Report, AfterCases
<1>4. CASE ServiceReady \/ ServiceExits \/ MakeExits \/ WaiterSends \/ ReadyTimeout \/ KillTimeout
           \/ Abort \/ Exited \/ UNCHANGED vars
  BY <1>4, IdleVerdicts DEF ServiceReady, ServiceExits, MakeExits, WaiterSends, ReadyTimeout,
     KillTimeout, Abort, Exited, vars
<1> QED
  BY <1>1, <1>2, <1>3, <1>4 DEF Next, Main

-----------------------------------------------------------------------------
(* Types, processes and the report *)

\* Every step keeps the types.
LEMMA TypeStep == EvaluatorInv /\ [Next]_vars => TypeOK'
<1> SUFFICES ASSUME EvaluatorInv, [Next]_vars PROVE TypeOK'
  OBVIOUS
<1>0. TypeOK
  BY DEF EvaluatorInv
<1>1. CASE Setup
  <2>1. cases' \in Seq(Outcomes) /\ setup' \subseteq SetupFlags /\ success' \in BOOLEAN
    BY <1>0, <1>1, NotRunType DEF TypeOK, SetupFlags, Setup, StartPostgres, Build, Migrate,
       StartService, FailSetup, Passed
  <2>2. pc' \in Labels
    BY <1>1 DEF Labels, Setup, StartPostgres, Build, Migrate, StartService, FailSetup, Passed
  <2>3. /\ container' \in BOOLEAN /\ tainted' \in BOOLEAN
        /\ make' \in {"none", "running", "exited"}
        /\ service' \in Alive \cup {"none", "dead"} /\ waiter' \in {"none", "waiting", "sent"}
    BY <1>0, <1>1 DEF TypeOK, Setup, StartPostgres, Build, Migrate, StartService, Taint
  <2> QED
    BY <1>0, <1>1, <2>1, <2>2, <2>3 DEF TypeOK, Setup, StartPostgres, Build, Migrate, StartService
<1>2. CASE Wait
  <2>1. cases' \in Seq(Outcomes) /\ setup' \subseteq SetupFlags /\ success' \in BOOLEAN
    BY <1>0, <1>2, NotRunType DEF TypeOK, SetupFlags, Wait, Probe, SelectDone, SelectEnded,
       SelectTicker, FailSetup
  <2>2. pc' \in Labels
    BY <1>2 DEF Labels, Wait, Probe, SelectDone, SelectEnded, SelectTicker, FailSetup
  <2>3. tainted' \in BOOLEAN /\ done' \in {0, 1}
    BY <1>0, <1>2 DEF TypeOK, Wait, Probe, SelectDone, SelectEnded, SelectTicker, Taint
  <2> QED
    BY <1>0, <1>2, <2>1, <2>2, <2>3 DEF TypeOK, Wait, Probe, SelectDone, SelectEnded, SelectTicker
<1>3. CASE RunCase
  <2>1. PICK o \in Outcomes : cases' = Append(cases, o) /\ success' = (success /\ o # "failed")
    BY <1>3 DEF RunCase, Outcomes
  <2>2. cases' \in Seq(Outcomes)
    BY <1>0, <2>1, AppendOutcome DEF TypeOK
  <2>3. success' \in BOOLEAN /\ tainted' \in BOOLEAN
    BY <1>3, <2>1 DEF RunCase, Taint
  <2> QED
    BY <1>0, <1>3, <2>2, <2>3 DEF TypeOK, RunCase
<1>4. CASE CasesEnd \/ StopDone \/ StopKill \/ Terminate
  <2>1. pc' \in Labels
    BY <1>4 DEF CasesEnd, StopDone, StopKill, Terminate, Labels
  <2>2. CASE CasesEnd
    BY <1>0, <2>1, <2>2 DEF TypeOK, CasesEnd
  <2>3. CASE StopDone
    BY <1>0, <2>1, <2>3 DEF TypeOK, StopDone
  <2>4. CASE StopKill
    BY <1>0, <2>1, <2>4 DEF TypeOK, StopKill
  <2>5. CASE Terminate
    <3>1. /\ container' \in BOOLEAN
          /\ UNCHANGED <<ctx, tainted, processVars, timerVars, resultVars, reportVars>>
      BY <2>5 DEF Terminate
    <3> QED
      BY <1>0, <2>1, <3>1 DEF TypeOK
  <2> QED
    BY <1>4, <2>2, <2>3, <2>4, <2>5
<1>5. CASE Report
  <2>1. pc' \in Labels
    BY <1>5 DEF Report, Labels
  <2>2. written' \in BOOLEAN
    BY <1>0, <1>5 DEF TypeOK, Report
  <2>3. code' \in {-1, 0, 1, 2}
    BY <1>5 DEF Report
  <2> QED
    BY <1>0, <1>5, <2>1, <2>2, <2>3 DEF TypeOK, Report
<1>6. CASE ServiceReady \/ ServiceExits \/ MakeExits \/ ReadyTimeout \/ KillTimeout \/ Abort
  <2>1. CASE ServiceReady
    BY <1>0, <2>1 DEF TypeOK, ServiceReady
  <2>2. CASE ServiceExits
    BY <1>0, <2>2 DEF TypeOK, ServiceExits
  <2>3. CASE ReadyTimeout
    BY <1>0, <2>3 DEF TypeOK, ReadyTimeout
  <2>4. CASE KillTimeout
    BY <1>0, <2>4 DEF TypeOK, KillTimeout
  <2>5. CASE Abort
    BY <1>0, <2>5 DEF TypeOK, Abort
  <2>6. CASE MakeExits
    BY <1>0, <2>6 DEF TypeOK, MakeExits
  <2> QED
    BY <1>6, <2>1, <2>2, <2>3, <2>4, <2>5, <2>6
<1>7. CASE WaiterSends
  <2>1. done = 0
    BY <1>0, <1>7 DEF EvaluatorInv, TypeOK, Processes, WaiterSends
  <2> QED
    BY <1>0, <1>7, <2>1 DEF TypeOK, WaiterSends
<1>8. CASE Exited \/ UNCHANGED vars
  BY <1>0, <1>8 DEF TypeOK, Exited, vars
<1> QED
  BY <1>1, <1>2, <1>3, <1>4, <1>5, <1>6, <1>7, <1>8 DEF Next, Main

\* The waiting goroutine sends once, after make was over; make is started once and
\* reaped before the container is terminated.
LEMMA ProcessesStep == EvaluatorInv /\ [Next]_vars => Processes'
<1> SUFFICES ASSUME EvaluatorInv, [Next]_vars PROVE Processes'
  OBVIOUS
<1>0. TypeOK /\ Processes
  BY DEF EvaluatorInv
<1>1. CASE Setup
  BY <1>0, <1>1 DEF TypeOK, Processes, Setup, StartPostgres, Build, Migrate, StartService,
     FailSetup, Passed, BeforeService
<1>2. CASE Wait
  BY <1>0, <1>2 DEF TypeOK, Processes, Wait, Probe, SelectDone, SelectEnded, SelectTicker,
     FailSetup, BeforeService
<1>3. CASE RunCase \/ CasesEnd \/ StopDone \/ StopKill \/ Terminate \/ Report
  <2>1. CASE RunCase \/ CasesEnd
    BY <1>0, <2>1 DEF Processes, RunCase, CasesEnd, BeforeService
  <2>2. CASE StopDone
    BY <1>0, <2>2 DEF Processes, StopDone, BeforeService
  <2>3. CASE StopKill
    BY <1>0, <2>3 DEF Processes, StopKill, BeforeService
  <2>4. CASE Terminate \/ Report
    BY <1>0, <2>4 DEF Processes, Terminate, Report, BeforeService
  <2> QED
    BY <1>3, <2>1, <2>2, <2>3, <2>4
<1>4. CASE ServiceReady \/ ServiceExits \/ MakeExits \/ WaiterSends \/ ReadyTimeout \/ KillTimeout
           \/ Abort \/ Exited \/ UNCHANGED vars
  BY <1>0, <1>4 DEF TypeOK, Processes, ServiceReady, ServiceExits, MakeExits, WaiterSends,
     ReadyTimeout, KillTimeout, Abort, Exited, vars, BeforeService
<1> QED
  BY <1>1, <1>2, <1>3, <1>4 DEF Next, Main

\* A context that ended stays ended, and main looks at it last.
LEMMA ReportingStep == EvaluatorInv /\ [Next]_vars => Reporting'
<1> SUFFICES ASSUME EvaluatorInv, [Next]_vars PROVE Reporting'
  OBVIOUS
<1>0. TypeOK /\ Reporting
  BY DEF EvaluatorInv
<1>1. CASE Setup
  BY <1>0, <1>1 DEF TypeOK, Reporting, Setup, StartPostgres, Build, Migrate, StartService, Taint
<1>2. CASE Wait
  BY <1>0, <1>2 DEF TypeOK, Reporting, Wait, Probe, SelectDone, SelectEnded, SelectTicker, Taint
<1>3. CASE RunCase
  BY <1>0, <1>3 DEF TypeOK, Reporting, RunCase, Taint
<1>4. CASE CasesEnd \/ StopDone \/ StopKill \/ Terminate
  BY <1>0, <1>4 DEF TypeOK, Reporting, CasesEnd, StopDone, StopKill, Terminate
<1>5. CASE Report
  BY <1>0, <1>5 DEF TypeOK, Reporting, Report
<1>6. CASE ServiceReady \/ ServiceExits \/ MakeExits \/ WaiterSends \/ ReadyTimeout \/ KillTimeout
           \/ Abort \/ Exited \/ UNCHANGED vars
  BY <1>0, <1>6 DEF TypeOK, Reporting, ServiceReady, ServiceExits, MakeExits, WaiterSends,
     ReadyTimeout, KillTimeout, Abort, Exited, vars
<1> QED
  BY <1>1, <1>2, <1>3, <1>4, <1>5, <1>6 DEF Next, Main

\* The inductive invariant holds in every behaviour.
THEOREM EvaluatorInvariance == Spec => []EvaluatorInv
<1>1. EvaluatorInv /\ [Next]_vars => EvaluatorInv'
  BY TypeStep, VerdictsStep, ProcessesStep, ReportingStep DEF EvaluatorInv
<1> QED
  BY <1>1, InvInit, PTL DEF Spec

-----------------------------------------------------------------------------
(* Safety *)

\* A written result is a complete roster and its exit code is the right one,
\* for every registry and every order of failures.
THEOREM VerdictsJustified == Spec => []VerdictJustified
<1>1. EvaluatorInv => VerdictJustified
  BY DEF EvaluatorInv, TypeOK, Verdicts, Agrees, Complete, Reporting, VerdictJustified, AfterCases
<1> QED
  BY <1>1, EvaluatorInvariance, PTL

\* Nothing that ran after the budget or a signal is part of a written result.
THEOREM OutcomesComplete == Spec => []NoPartialOutcome
<1>1. EvaluatorInv => NoPartialOutcome
  BY DEF EvaluatorInv, Reporting, NoPartialOutcome
<1> QED
  BY <1>1, EvaluatorInvariance, PTL

\* The evaluator exits with its container terminated and make reaped; a service that
\* lives on is the service of a make that ended first.
THEOREM CleanExit == Spec => []NothingLeft
<1>1. EvaluatorInv => NothingLeft
  BY DEF EvaluatorInv, TypeOK, Processes, NothingLeft
<1> QED
  BY <1>1, EvaluatorInvariance, PTL

-----------------------------------------------------------------------------
(* The evaluator inside the wrapper *)

\* What the wrapper lets the evaluator do is a step of the evaluator.
LEMMA InsideStep ==
  ASSUME EvaluatorInv, [Next]_vars
  PROVE  EvaluatorInv'
  BY TypeStep, VerdictsStep, ProcessesStep, ReportingStep DEF EvaluatorInv

\* The end of the container is no step of the evaluator, but leaves it in a state that
\* it could be in.
LEMMA RemovalKeepsEvaluator ==
  ASSUME EvaluatorInv, GroupDies, container' \in BOOLEAN, container' => container,
         UNCHANGED <<pc, ctx, tainted, waiter, done, timerVars, resultVars, reportVars>>
  PROVE  EvaluatorInv'
<1>0. /\ TypeOK /\ Verdicts /\ Processes /\ Reporting
      /\ pc' = pc /\ ctx' = ctx /\ tainted' = tainted /\ waiter' = waiter /\ done' = done
      /\ readyTimer' = readyTimer /\ killTimer' = killTimer /\ setup' = setup
      /\ cases' = cases /\ success' = success /\ written' = written /\ code' = code
  BY DEF EvaluatorInv
<1>1. make' = make \/ (make = "running" /\ make' = "exited")
  BY DEF GroupDies
<1>2. service' = service \/ (service \in Alive /\ service' = "dead")
  BY DEF GroupDies
<1>3. TypeOK'
  BY <1>0, <1>1, <1>2 DEF TypeOK
<1>4. Verdicts'
  BY <1>0, IdleVerdicts
<1>5. Processes'
  BY <1>0, <1>1, <1>2 DEF Processes
<1>6. Reporting'
  BY <1>0 DEF Reporting
<1> QED
  BY <1>3, <1>4, <1>5, <1>6 DEF EvaluatorInv

-----------------------------------------------------------------------------
(* The wrapper *)

\* Nothing runs before the container is started.
LEMMA WrapperInvInit == WrapperInit => WrapperInv
<1> SUFFICES ASSUME WrapperInit PROVE WrapperInv
  OBVIOUS
<1>1. EvaluatorInv
  BY InvInit DEF WrapperInit
<1>2. WrapperTypeOK /\ Endings /\ Reading
  BY DEF WrapperInit, Init, WrapperTypeOK, Endings, Reading
<1> QED
  BY <1>1, <1>2 DEF WrapperInv

\* A step inside the running container: only a result that is written while the
\* client still reads reaches the pipe.
LEMMA InsideWrapper ==
  ASSUME WrapperInv, Next, Inside(TRUE)
  PROVE  WrapperInv'
<1>0. /\ EvaluatorInv /\ WrapperTypeOK /\ Endings /\ Reading
      /\ box = "running" /\ client # "ended"
      /\ output' = IF written' /\ client = "running" THEN "whole" ELSE output
      /\ caller' = caller /\ shell' = shell /\ client' = client /\ box' = box
      /\ clock' = clock /\ outcome' = outcome /\ faults' = faults
  BY DEF WrapperInv, Inside, Endings
<1>1. EvaluatorInv'
  BY <1>0, InsideStep
<1>2. written => written'
  BY DEF Next, Main, Setup, Wait, StartPostgres, Build, Migrate, StartService, Probe, SelectDone,
     SelectEnded, SelectTicker, RunCase, CasesEnd, StopDone, StopKill, Terminate, Report,
     ServiceReady, ServiceExits, MakeExits, WaiterSends, ReadyTimeout, KillTimeout, Abort, Exited, vars
<1>3. WrapperTypeOK'
  BY <1>0 DEF WrapperTypeOK
<1>4. Endings'
  BY <1>0 DEF Endings
<1>5. Reading'
  <2>1. caller = "done" => faults > 1
    BY <1>0 DEF Endings, WrapperTypeOK
  <2>2. output' = "whole" => written'
    BY <1>0, <1>2 DEF Reading
  <2>3. (written' /\ client' # "lost") => output' = "whole"
    BY <1>0 DEF WrapperTypeOK
  <2>4. output = "whole" => output' = "whole"
    BY <1>0
  <2> QED
    BY <1>0, <2>1, <2>2, <2>3, <2>4 DEF Reading, WrapperTypeOK
<1> QED
  BY <1>1, <1>3, <1>4, <1>5 DEF WrapperInv

\* Steps around the container that do not touch it.
LEMMA OutsideWrapper ==
  ASSUME WrapperInv, UNCHANGED vars,
         \/ Tick \/ ClientEnds \/ ShellWaits \/ DeadlineKills \/ RunReturns
         \/ Classify \/ ClientLost \/ UNCHANGED system
  PROVE  WrapperInv'
<1>0. EvaluatorInv /\ WrapperTypeOK /\ Endings /\ Reading /\ Processes /\ Reporting
  BY DEF WrapperInv, EvaluatorInv
<1>1. EvaluatorInv'
  BY <1>0, InsideStep
<1>2. /\ pc' = pc /\ done' = done /\ waiter' = waiter /\ container' = container
      /\ service' = service /\ written' = written /\ code' = code
  BY DEF vars
<1>3. WrapperTypeOK'
  BY <1>0 DEF WrapperTypeOK, Tick, ClientEnds, ShellWaits, DeadlineKills, RunReturns,
     Classify, ClientLost, Fails, system
<1>4. Endings'
  BY <1>0, <1>2 DEF WrapperTypeOK, Endings, Stuck, Processes, Tick, ClientEnds, ShellWaits,
     DeadlineKills, RunReturns, Classify, ClientLost, Fails, system
<1>5. Reading'
  BY <1>0, <1>2 DEF WrapperTypeOK, Endings, Reading, Reporting, Tick, ClientEnds, ShellWaits,
     DeadlineKills, RunReturns, Classify, ClientLost, Fails, system
<1> QED
  BY <1>1, <1>3, <1>4, <1>5 DEF WrapperInv

\* The evaluator exits, and its container ends with all that runs in it.
LEMMA BoxEndsWrapper ==
  ASSUME WrapperInv, BoxEnds
  PROVE  WrapperInv'
<1>0. /\ EvaluatorInv /\ TypeOK /\ Processes /\ WrapperTypeOK /\ Endings /\ Reading
      /\ pc = "exited" /\ pc' = pc /\ box' = "ended" /\ GroupDies /\ container' = container
      /\ UNCHANGED <<ctx, tainted, waiter, done, timerVars, resultVars, reportVars>>
      /\ UNCHANGED <<caller, shell, client, output, clock, outcome, faults>>
  BY DEF WrapperInv, EvaluatorInv, BoxEnds
<1>1. EvaluatorInv'
  <2>1. container' \in BOOLEAN
    BY <1>0 DEF TypeOK
  <2> QED
    BY <1>0, <2>1, RemovalKeepsEvaluator
<1>2. WrapperTypeOK'
  BY <1>0 DEF WrapperTypeOK
<1>3. Endings'
  <2>1. ~container'
    BY <1>0 DEF Processes
  <2>2. service' \notin Alive
    BY <1>0 DEF GroupDies
  <2> QED
    BY <1>0, <2>1, <2>2 DEF Endings
<1>4. Reading'
  BY <1>0 DEF Reading
<1> QED
  BY <1>1, <1>2, <1>3, <1>4 DEF WrapperInv

\* The two places that stop and remove the container, or fail to.
LEMMA RemovalWrapper ==
  ASSUME WrapperInv, ShellTrap \/ cleanupLabeledEvaluator
  PROVE  WrapperInv'
<1>0. EvaluatorInv /\ WrapperTypeOK /\ Endings /\ Reading
  BY DEF WrapperInv
<1>1. (Works /\ StopsAndRemoves) \/ (Fails /\ UNCHANGED <<vars, box>>)
  BY DEF ShellTrap, cleanupLabeledEvaluator
<1>2. EvaluatorInv'
  <2>1. CASE StopsAndRemoves
    <3>1. container' \in BOOLEAN /\ (container' => container)
      BY <1>0, <2>1 DEF EvaluatorInv, TypeOK, StopsAndRemoves
    <3> QED
      BY <1>0, <2>1, <3>1, RemovalKeepsEvaluator DEF StopsAndRemoves
  <2>2. CASE UNCHANGED vars
    BY <1>0, <2>2, InsideStep
  <2> QED
    BY <1>1, <2>1, <2>2
<1>3. /\ pc' = pc /\ done' = done /\ waiter' = waiter /\ written' = written
      /\ \/ /\ box' = "ended" /\ service' \notin Alive /\ faults' = faults
            /\ container' = (container /\ (box = "running" => Stuck))
         \/ /\ box' = box /\ container' = container /\ service' = service
            /\ faults < MaxFaults /\ faults' = faults + 1
  BY <1>1 DEF StopsAndRemoves, GroupDies, vars, Works, Fails
<1>4. /\ client' = client /\ output' = output /\ clock' = clock /\ outcome' = outcome
      /\ \/ caller' = caller /\ shell' = "ended"
         \/ caller = "cleanup" /\ caller' = "classify" /\ shell' = shell
  BY DEF ShellTrap, cleanupLabeledEvaluator
<1>5. WrapperTypeOK'
  BY <1>0, <1>3, <1>4 DEF WrapperTypeOK
<1>6. Endings'
  <2>1. box' = "ended" => service' \notin Alive /\ (container' => Stuck')
    BY <1>0, <1>3 DEF Endings, Stuck, WrapperTypeOK
  <2> QED
    BY <1>0, <1>3, <1>4, <2>1 DEF Endings, WrapperTypeOK
<1>7. Reading'
  BY <1>0, <1>3, <1>4 DEF Reading, WrapperTypeOK
<1> QED
  BY <1>2, <1>5, <1>6, <1>7 DEF WrapperInv

\* Every step of the evaluator, shell, docker and wrapper keeps the invariant.
LEMMA WrapperInvStep ==
  ASSUME WrapperInv, [WrapperNext]_system
  PROVE  WrapperInv'
<1>1. CASE \/ Inside(Main) \/ Inside(ServiceReady) \/ Inside(ServiceExits) \/ Inside(MakeExits)
           \/ Inside(WaiterSends) \/ Inside(ReadyTimeout) \/ Inside(KillTimeout) \/ BudgetEnds
  <2>1. Next /\ Inside(TRUE)
    BY <1>1 DEF Inside, BudgetEnds, Next
  <2> QED
    BY <2>1, InsideWrapper
<1>2. CASE \/ Tick \/ ClientEnds \/ ShellWaits \/ DeadlineKills \/ RunReturns
           \/ Classify \/ ClientLost \/ Finished \/ UNCHANGED system
  <2>1. UNCHANGED vars
    BY <1>2 DEF Tick, ClientEnds, ShellWaits, DeadlineKills, RunReturns, Classify,
       ClientLost, Finished, system
  <2> QED
    BY <1>2, <2>1, OutsideWrapper DEF Finished
<1>3. CASE ShellTrap \/ cleanupLabeledEvaluator
  BY <1>3, RemovalWrapper
<1>4. CASE BoxEnds
  BY <1>4, BoxEndsWrapper
<1> QED
  BY <1>1, <1>2, <1>3, <1>4 DEF WrapperNext, Around, Harness

\* The inductive invariant of evaluator and wrapper together holds in every behaviour,
\* however the budget, the deadline and failing docker commands fall.
THEOREM WrapperInvariance == WrapperSpec => []WrapperInv
<1>1. WrapperInit => WrapperInv
  BY WrapperInvInit
<1>2. WrapperInv /\ [WrapperNext]_system => WrapperInv'
  BY WrapperInvStep
<1> QED
  BY <1>1, <1>2, PTL DEF WrapperSpec

-----------------------------------------------------------------------------
(* Safety *)

\* evaluateCandidate returns with the evaluator's container gone, and with it what the
\* evaluator had started, after any one failure of docker.
THEOREM NoEvaluatorSurvives == WrapperSpec => []NoEvaluatorLeft
<1>1. WrapperInv => NoEvaluatorLeft
  BY DEF WrapperInv, Endings, NoEvaluatorLeft
<1> QED
  BY <1>1, WrapperInvariance, PTL

\* The classification by deadline, exit code and JSON keeps a verdict only when the
\* evaluator wrote it whole and untainted, and drops none that it read in time.
THEOREM VerdictKept == WrapperSpec => []KeptIffWritten
<1>1. WrapperInv => KeptIffWritten
  BY DEF WrapperInv, Reading, EvaluatorInv, Reporting, KeptIffWritten
<1> QED
  BY <1>1, WrapperInvariance, PTL

\* The promises of the evaluator hold of the one that is stopped, removed and timed
\* out from outside: a written result is a complete roster with the right exit code,
\* holds nothing that ran after the budget, and an exit leaves no container behind
\* and no service but that of a make that ended first.
THEOREM EvaluatorSafeInside == WrapperSpec => [](VerdictJustified /\ NoPartialOutcome /\ NothingLeft)
<1>1. EvaluatorInv => VerdictJustified
  BY DEF EvaluatorInv, TypeOK, Verdicts, Agrees, Complete, Reporting, VerdictJustified, AfterCases
<1>2. EvaluatorInv => NoPartialOutcome /\ NothingLeft
  BY DEF EvaluatorInv, TypeOK, Reporting, Processes, NoPartialOutcome, NothingLeft
<1>3. WrapperInv => EvaluatorInv
  BY DEF WrapperInv
<1> QED
  BY <1>1, <1>2, <1>3, WrapperInvariance, PTL
=============================================================================
