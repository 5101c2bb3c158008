------------------------- MODULE TranscriptMetrics -------------------------
(***************************************************************************)
(* What runresult derives from the transcript: usage, command events,      *)
(* repair iterations, compiler events and the two milestones.  The         *)
(* coordinator prints while time passes; run-candidate.sh stops it some    *)
(* time after its deadline, maybe within a line, and saves the transcript  *)
(* unless the driver interrupts it first; the driver stamps the start      *)
(* before the setup, and the end after its cleanup or, of a run that timed *)
(* out, at the limit.  docker logs is taken to work.                       *)
(***************************************************************************)
EXTENDS Integers, Sequences, FiniteSetsExt

CONSTANTS
    Calls,       \* tool calls: [tool, words, done, exit, diagnostic, path]
    Timeout,     \* of the agent, in units of time; also the limit of readMetadata
    Grace,       \* what the driver waits beyond it (productionSetupGrace)
    Lag,         \* from a deadline until the agent is stopped: a turn of the
                 \* loop and the 5 seconds of docker stop or of runCandidate
    MaxSetup,    \* longest setup before the agent starts
    MaxCleanup,  \* longest cleanup of the driver before it stamps the end
    MaxLines,    \* lines of a transcript
    None

\* A setup that would be longer is interrupted by the driver.
ASSUME MetricsAssumption ==
    /\ {Timeout, Grace, Lag, MaxSetup, MaxCleanup, MaxLines} \subseteq Nat /\ None \notin Nat
    /\ MaxSetup <= Timeout + Grace
    /\ \A c \in Calls : c.exit \in {0, 1, None} /\ c.done \in BOOLEAN

VARIABLES
    phase,       \* "setup", "agent", "cleanup", "ended", "assembled" or "failed"
    clock, setup, exit, status, finishedAt,   \* startedAt is 0
    unreadable,  \* a line of the transcript is over 16 MiB, or the last is cut
    lines,       \* lines the coordinator printed
    printed,     \* those that finish a step or report a tool call
    usage,       \* turns, sums, and how many lines reported input tokens
    events, touched,
    metrics      \* what run-result.json holds, or None

scanner == <<usage, events, touched>>

metricsVars == <<phase, clock, setup, exit, status, finishedAt, unreadable, lines, printed,
                 scanner, metrics>>

NoUsage == [turns |-> 0, input |-> 0, output |-> 0, tokenLines |-> 0]

MetricsInit ==
    /\ phase = "setup" /\ clock = 0 /\ setup = 0 /\ exit = 0 /\ status = "none" /\ finishedAt = 0
    /\ unreadable = FALSE /\ lines = 0 /\ printed = 0
    /\ usage = NoUsage /\ events = <<>> /\ touched = {} /\ metrics = None

\* The agent is stopped some time after the script's deadline or the driver's.
Tick ==
    /\ \/ phase = "setup" /\ clock < MaxSetup
       \/ phase = "agent" /\ clock < setup + Timeout + Lag /\ clock < Timeout + Grace + Lag
    /\ clock' = clock + 1
    /\ UNCHANGED <<phase, setup, exit, status, finishedAt, unreadable, lines, printed, scanner, metrics>>

StartAgent ==
    /\ phase = "setup" /\ phase' = "agent" /\ setup' = clock
    /\ UNCHANGED <<clock, exit, status, finishedAt, unreadable, lines, printed, scanner, metrics>>

-----------------------------------------------------------------------------
(* Lines, as parseTranscript reads them *)

\* step_finish: a side that is reported has one token.
StepFinish(reported) ==
    /\ usage' = [turns |-> usage.turns + 1,
                 input |-> usage.input + (IF "input" \in reported THEN 1 ELSE 0),
                 output |-> usage.output + (IF "output" \in reported THEN 1 ELSE 0),
                 tokenLines |-> usage.tokenLines + (IF "input" \in reported THEN 1 ELSE 0)]
    /\ UNCHANGED <<events, touched>>

\* The first kind of word that occurs decides.
classifyBash(words) ==
    IF "generate" \in words THEN "generate"
    ELSE IF "migrate" \in words THEN "migration"
    ELSE IF "build" \in words THEN "build"
    ELSE IF {"test", "check"} \cap words # {} THEN "test"
    ELSE IF "run" \in words THEN "service"
    ELSE "other"

Category(c) ==
    CASE c.tool = "bash" -> classifyBash(c.words)
      [] c.tool = "read" -> "read"
      [] c.tool \in {"edit", "write", "apply_patch"} -> "edit"
      [] OTHER -> "other"

\* A bash call has the exit code it reports; the others succeed by completing.
\* state.time says when the call started, the line's timestamp if it is missing.
buildCommandEvent(c, start) ==
    [index |-> Len(events), category |-> Category(c), startedAt |-> start,
     exit |-> IF ~c.done THEN None ELSE IF c.tool = "bash" THEN c.exit ELSE 0,
     check |-> "check" \in c.words, diagnostic |-> c.diagnostic]

\* Files that bash changes are not tracked, nor whether an edit succeeded.
eventTouchedFiles(c) == IF c.tool \in {"edit", "write", "apply_patch"} THEN {c.path} ELSE {}

ToolUse(c) ==
    /\ \E start \in setup .. clock : events' = Append(events, buildCommandEvent(c, start))
    /\ touched' = touched \cup eventTouchedFiles(c)
    /\ UNCHANGED usage

\* A line counts, says nothing (no part, or a part without a state) or is one
\* that the scanner cannot hold, after which it reads nothing more.
PrintLine ==
    /\ phase = "agent" /\ lines < MaxLines /\ lines' = lines + 1
    /\ \/ /\ (\E reported \in SUBSET {"input", "output"} : StepFinish(reported))
             \/ (\E c \in Calls : ToolUse(c))
          /\ printed' = printed + 1 /\ UNCHANGED unreadable
       \/ UNCHANGED <<printed, scanner, unreadable>>
       \/ printed' = printed + 1 /\ unreadable' = TRUE /\ UNCHANGED scanner
    /\ UNCHANGED <<phase, clock, setup, exit, status, finishedAt, metrics>>

-----------------------------------------------------------------------------
(* The end of the run *)

\* runCandidate returns: past its own deadline the driver takes any code for 124.
Returned(code) ==
    /\ phase' = "cleanup" /\ exit' = (IF clock >= Timeout + Grace THEN 124 ELSE code)
    /\ UNCHANGED <<clock, setup, status, finishedAt, lines, printed, metrics>>

\* docker stop, or the coordinator's failure, may cut the last line.
Saved(cut) == unreadable' \in (IF cut THEN {unreadable, TRUE} ELSE {unreadable}) /\ UNCHANGED scanner

\* Exit 0 of the candidate runner.
Submit == phase = "agent" /\ Returned(0) /\ Saved(FALSE)

\* Exit 124: the loop sees that the deadline has passed.
TimeOut == phase = "agent" /\ clock >= setup + Timeout /\ Returned(124) /\ Saved(TRUE)

\* Exit 70 of a failed coordinator, 71 of a failed tool.
Fail == phase = "agent" /\ (\E code \in {70, 71} : Returned(code)) /\ Saved(TRUE)

SetupFails == phase = "setup" /\ Returned(71) /\ Saved(FALSE)

\* Exit 130: the driver's deadline or a signal to the driver interrupts the script,
\* which saves nothing unless it had done so before.
Interrupt ==
    /\ phase \in {"setup", "agent"} /\ Returned(130)
    /\ \/ Saved(TRUE)
       \/ unreadable' = FALSE /\ usage' = NoUsage /\ events' = <<>> /\ touched' = {}

\* The driver's label cleanup takes time and may fail; then the end is stamped,
\* the status follows the code, and an unsafe workspace makes it a failure.
Stamp ==
    /\ phase = "cleanup" /\ phase' = "ended"
    /\ \E d \in 0 .. MaxCleanup, failed, unsafe \in BOOLEAN :
         /\ exit' = (IF failed THEN 71 ELSE exit)
         /\ finishedAt' = (IF exit' = 124 THEN Timeout ELSE clock + d)
         /\ status' = (IF unsafe \/ exit' \notin {0, 124} THEN "failure"
                       ELSE IF exit' = 0 THEN "submitted" ELSE "timed-out")
    /\ UNCHANGED <<clock, setup, unreadable, lines, printed, scanner, metrics>>

Failed(e) == e.exit # 0
Verification(e) == e.category \in {"build", "test"}

\* Defect: commands without an exit code do not count.
RepairsWithCode == {i \in DOMAIN events : events[i].exit = 1 /\ Verification(events[i])}

Repairs == {i \in DOMAIN events : Failed(events[i]) /\ Verification(events[i])}

\* Go diagnostics in the output; "mixed" names generated and handwritten files.
extractCompilerEvent(e) ==
    [commandIndex |-> e.index,
     category |-> IF e.diagnostic = "generated" THEN "generated-type" ELSE "handwritten"]

SuccessfulBuilds == {i \in DOMAIN events : events[i].category = "build" /\ events[i].exit = 0}
SuccessfulChecks ==
    {i \in DOMAIN events : events[i].category = "test" /\ events[i].exit = 0 /\ events[i].check}

\* When the first of the commands S was started.
FirstStart(S) == IF S = {} THEN None ELSE events[Min(S)].startedAt

\* The document: without a line that reports input tokens both sums are null.
Derived ==
    [turns |-> usage.turns, toolCalls |-> Len(events),
     input |-> IF usage.tokenLines > 0 THEN usage.input ELSE None,
     output |-> IF usage.tokenLines > 0 THEN usage.output ELSE None,
     wallClock |-> finishedAt,
     repairs |-> Cardinality(Repairs),
     compilerEvents |-> {extractCompilerEvent(events[i]) :
                           i \in {j \in Repairs : events[j].diagnostic # "none"}},
     filesTouched |-> Cardinality(touched),
     firstBuild |-> FirstStart(SuccessfulBuilds),
     firstCheck |-> FirstStart(SuccessfulChecks)]

\* Defect: what could be read of the transcript is counted.
AssemblePart ==
    /\ phase = "ended"
    /\ IF finishedAt > Timeout
       THEN phase' = "failed" /\ UNCHANGED metrics
       ELSE phase' = "assembled" /\ metrics' = Derived
    /\ UNCHANGED <<clock, setup, exit, status, finishedAt, unreadable, lines, printed, scanner>>

\* readMetadata refuses a wall clock beyond the limit, parseTranscript a cut line
\* and one that its scanner cannot hold.
Assemble ==
    /\ phase = "ended"
    /\ IF unreadable \/ finishedAt > Timeout
       THEN phase' = "failed" /\ UNCHANGED metrics
       ELSE phase' = "assembled" /\ metrics' = Derived
    /\ UNCHANGED <<clock, setup, exit, status, finishedAt, unreadable, lines, printed, scanner>>

MetricsNext == Tick \/ StartAgent \/ PrintLine \/ Submit \/ TimeOut \/ Fail \/ SetupFails
                 \/ Interrupt \/ Stamp \/ Assemble

MetricsSpec == MetricsInit /\ [][MetricsNext]_metricsVars

-----------------------------------------------------------------------------
(* Properties *)

Milestones == {metrics.firstBuild, metrics.firstCheck} \ {None}

\* The milestones lie within the run: after the setup, and not after its end; for a
\* run that timed out, whose end is stamped at the limit although its setup came
\* first, by no more than the setup or the driver's grace, and the time that the
\* loop and docker need to stop the agent.
MilestonesWithinRun ==
    metrics # None =>
        \A m \in Milestones :
            /\ setup <= m
            /\ IF exit = 124 THEN /\ m <= metrics.wallClock + setup + Lag
                                 /\ m <= metrics.wallClock + Grace + Lag
               ELSE m <= metrics.wallClock

\* The counters explain each other: a compiler event belongs to a counted repair,
\* its index names that command, and every verification command that is not a
\* repair succeeded, so that without a milestone every build was a repair.
RepairsExplained ==
    metrics # None =>
        /\ \A e \in metrics.compilerEvents :
              /\ e.commandIndex < metrics.toolCalls
              /\ Verification(events[e.commandIndex + 1]) /\ Failed(events[e.commandIndex + 1])
        /\ Cardinality(metrics.compilerEvents) <= metrics.repairs
        /\ metrics.firstBuild = None =>
              Cardinality({i \in DOMAIN events : events[i].category = "build"}) <= metrics.repairs

\* A result counts every step and every tool call that the coordinator printed:
\* a transcript that was cut, or that has a line too long to read, is never
\* counted in part.  Or it counts nothing, because the script was interrupted
\* before it saved the transcript: never of a submitted run, and of a run that
\* timed out only past the driver's own deadline.
AllOrNothing ==
    metrics # None =>
        LET counted == metrics.turns + metrics.toolCalls
        IN  \/ counted = printed
            \/ /\ counted = 0 /\ metrics.filesTouched = 0 /\ metrics.repairs = 0
               /\ status # "submitted"
               /\ status = "timed-out" => clock >= Timeout + Grace

\* The counters and milestones of a result fit one another and the run.
CountersConsistent == MilestonesWithinRun /\ RepairsExplained

-----------------------------------------------------------------------------
(* The inductive invariant *)

Event ==
    [index : Nat,
     category : {"generate", "migration", "build", "test", "service", "read", "edit", "other"},
     startedAt : Nat, exit : {0, 1, None}, check : BOOLEAN,
     diagnostic : {c.diagnostic : c \in Calls}]

MetricsTypeOK ==
    /\ phase \in {"setup", "agent", "cleanup", "ended", "assembled", "failed"}
    /\ clock \in Nat /\ setup \in Nat /\ finishedAt \in Nat
    /\ exit \in {0, 70, 71, 124, 130} /\ status \in {"none", "submitted", "timed-out", "failure"}
    /\ unreadable \in BOOLEAN /\ lines \in 0 .. MaxLines /\ printed \in Nat
    /\ usage \in [turns : Nat, input : Nat, output : Nat, tokenLines : Nat]
    /\ events \in Seq(Event) /\ touched \subseteq {c.path : c \in Calls}

\* Commands are numbered from 0 and started while the agent ran.
Timeline ==
    /\ phase = "setup" => setup = 0 /\ events = <<>> /\ clock <= MaxSetup
    /\ setup <= clock /\ clock <= Timeout + Grace + Lag
    /\ (phase = "agent" \/ events # <<>>) => clock <= setup + Timeout + Lag
    /\ \A i \in DOMAIN events :
         /\ events[i].index = i - 1
         /\ setup <= events[i].startedAt /\ events[i].startedAt <= clock

\* What was printed can be read and is counted, or the transcript is empty.
Accounting ==
    ~unreadable =>
        \/ usage.turns + Len(events) = printed
        \/ /\ phase \notin {"setup", "agent"}
           /\ usage.turns = 0 /\ events = <<>> /\ touched = {}
           /\ exit # 0 /\ (exit = 124 => clock >= Timeout + Grace)

\* How a run ends, and what is left of it.
Endings ==
    /\ phase \in {"ended", "assembled", "failed"} =>
         /\ IF exit = 124 THEN finishedAt = Timeout ELSE finishedAt >= clock
         /\ status = "submitted" => exit = 0
         /\ status = "timed-out" => exit = 124
    /\ metrics # None => phase = "assembled" /\ ~unreadable /\ metrics = Derived

MetricsInv == MetricsTypeOK /\ Timeline /\ Accounting /\ Endings

=============================================================================
