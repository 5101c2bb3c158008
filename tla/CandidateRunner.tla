-------------------------- MODULE CandidateRunner --------------------------
(***************************************************************************)
(* run-candidate.sh: it starts the labelled containers of one run, waits   *)
(* for the coordinator until the deadline, saves its output and classifies *)
(* how it ended.  Every docker command is a step of its own: the           *)
(* coordinator and the tool may end between two of them, a command may     *)
(* fail, and the driver may interrupt the script.                          *)
(***************************************************************************)
EXTENDS Integers, Sequences

CONSTANTS
    Deadline,     \* turns of the wait loop until the timeout
    MaxFaults,    \* docker commands that may fail
    MaxSignals    \* INT or TERM signals the script may get

ASSUME RunnerAssumption == {Deadline, MaxFaults, MaxSignals} \subseteq Nat

VARIABLES
    pc,           \* the next command of the script
    stage,        \* commands of the setup or of the cleanup already done
    up,           \* labelled resources docker holds
    coordinator,  \* "absent", "running", or how it ended: "exited" and "failed"
                  \* by itself, "stopped" by docker
    line,         \* its output ends "between" two JSON lines or "within" one
    tool,         \* the same of the tool: "exited" by itself, "stopped" by docker
    clock,        \* turns since the deadline was set
    transcript,   \* what is in the transcript file
    result,       \* exit code, as far as it is decided
    faults, signals

vars == <<pc, stage, up, coordinator, line, tool, clock, transcript, result, faults, signals>>

docker == <<up, coordinator, line, tool>>

\* What the setup creates, in this order.
Stages == <<"networks", "relay", "cache", "postgres", "tool", "coordinator">>
Containers == {"relay", "postgres", "tool", "coordinator"}

Init ==
    /\ pc = "setup" /\ stage = 0 /\ up = {}
    /\ coordinator = "absent" /\ line = "between" /\ tool = "absent"
    /\ clock = 0 /\ transcript = "empty" /\ result = 0
    /\ faults = 0 /\ signals = 0

Works == UNCHANGED faults
Fails == faults < MaxFaults /\ faults' = faults + 1

\* Every exit runs the EXIT trap.
Exit(code) == pc' = "cleanup" /\ stage' = 0 /\ result' = code

-----------------------------------------------------------------------------
(* The containers *)

\* The coordinator prints a line of JSON in one or more writes.
CoordinatorPrints ==
    /\ coordinator = "running"
    /\ line' = IF line = "between" THEN "within" ELSE "between"
    /\ UNCHANGED <<pc, stage, up, coordinator, tool, clock, transcript, result, faults, signals>>

\* It ends by itself: well, after its last line, or badly, anywhere.
CoordinatorEnds ==
    /\ coordinator = "running"
    /\ \/ line = "between" /\ coordinator' = "exited"
       \/ coordinator' = "failed"
    /\ UNCHANGED <<pc, stage, up, line, tool, clock, transcript, result, faults, signals>>

ToolEnds ==
    /\ tool = "running" /\ tool' = "exited"
    /\ UNCHANGED <<pc, stage, up, coordinator, line, clock, transcript, result, faults, signals>>

-----------------------------------------------------------------------------
(* The script *)

Starts(r) ==
    /\ up' = up \cup {r}
    /\ tool' = IF r = "tool" THEN "running" ELSE tool
    /\ coordinator' = IF r = "coordinator" THEN "running" ELSE coordinator

\* One resource is created and awaited; a failure, before the resource is
\* there, before it runs or later, ends the script with 71.
Setup ==
    /\ pc = "setup"
    /\ LET r == Stages[stage + 1]
       IN \/ /\ Works /\ Starts(r) /\ stage' = stage + 1
             /\ pc' = (IF stage + 1 = Len(Stages) THEN "wait" ELSE "setup")
             /\ UNCHANGED result
          \/ /\ Fails /\ Exit(71)
             /\ Starts(r) \/ (up' \in {up, up \cup {r}} /\ UNCHANGED <<tool, coordinator>>)
    /\ UNCHANGED <<line, clock, transcript, signals>>

\* The condition of the loop: a failed command prints nothing, which is not "true".
Wait ==
    /\ pc = "wait"
    /\ \/ Works /\ pc' = (IF coordinator = "running" THEN "watch" ELSE "logs")
       \/ Fails /\ pc' = "logs"
    /\ UNCHANGED <<docker, stage, clock, transcript, result, signals>>

WatchTool ==
    /\ pc = "watch"
    /\ \/ Works /\ tool = "running" /\ pc' = "clock" /\ UNCHANGED result
       \/ ((Works /\ tool # "running") \/ Fails) /\ pc' = "stop" /\ result' = 71
    /\ UNCHANGED <<docker, stage, clock, transcript, signals>>

\* Defect: the deadline is computed inside the loop.
CheckClockRestarted ==
    /\ pc = "clock" /\ pc' = "wait" /\ clock' = 0
    /\ UNCHANGED <<docker, stage, transcript, result, faults, signals>>

CheckClock ==
    /\ pc = "clock"
    /\ IF clock >= Deadline
       THEN pc' = "stop" /\ result' = 124 /\ UNCHANGED clock
       ELSE pc' = "wait" /\ clock' = clock + 1 /\ UNCHANGED result
    /\ UNCHANGED <<docker, stage, transcript, faults, signals>>

Stopped == IF coordinator = "running" THEN "stopped" ELSE coordinator

\* docker stop, whose failure is ignored.
StopCoordinator ==
    /\ pc = "stop" /\ pc' = "logs"
    /\ (Works /\ coordinator' = Stopped) \/ (Fails /\ UNCHANGED coordinator)
    /\ UNCHANGED <<stage, up, line, tool, clock, transcript, result, signals>>

\* What docker logs prints now.
Output == IF line = "within" THEN "torn" ELSE IF coordinator = "running" THEN "part" ELSE "whole"

\* docker logs, whose failure is ignored: the file was truncated before.
SaveTranscript ==
    /\ pc = "logs"
    /\ \/ Works /\ transcript' = Output
       \/ Fails /\ transcript' \in {"empty", "part", "torn"}
    /\ IF result = 0 THEN pc' = "tool" /\ UNCHANGED <<stage, result>> ELSE Exit(result)
    /\ UNCHANGED <<docker, clock, signals>>

CheckTool ==
    /\ pc = "tool" /\ pc' = "code"
    /\ \/ Works /\ tool = "running" /\ UNCHANGED result
       \/ ((Works /\ tool # "running") \/ Fails) /\ result' = 71
    /\ UNCHANGED <<docker, stage, clock, transcript, signals>>

\* Defect: the exit code of the coordinator is not looked at.
CheckCodeIgnored ==
    /\ pc = "code"
    /\ Works /\ Exit(result)
    /\ UNCHANGED <<docker, clock, transcript, signals>>

\* The exit code of the coordinator, which docker reports as 0 while it runs;
\* a failed command counts as 125.  The tool's failure goes before.
CheckCode ==
    /\ pc = "code"
    /\ \E bad \in BOOLEAN :
          /\ (Works /\ bad = (coordinator = "failed")) \/ (Fails /\ bad)
          /\ Exit(IF result = 0 /\ bad THEN 70 ELSE result)
    /\ UNCHANGED <<docker, clock, transcript, signals>>

\* Docker refuses to remove a network or volume that a container uses.
Unused(r) == up \cap (CASE r = "networks" -> Containers
                        [] r = "cache" -> {"tool"}
                        [] OTHER -> {}) = {}

\* Resources are removed; a container stops.
Removes(rs) ==
    /\ up' = up \ rs
    /\ coordinator' = IF "coordinator" \in rs THEN Stopped ELSE coordinator
    /\ tool' = IF "tool" \in rs /\ tool = "running" THEN "stopped" ELSE tool

\* Defect: the labels are searched for networks before containers.
CleanupNetworksFirst == <<{"relay"}, {"networks"}, {"networks"}, Containers, {"cache"}>>

\* What the commands of cleanup remove, in order: restricted_egress_stop by name,
\* then restricted_egress_stop_labels by label.
CleanupCommands == <<{"relay"}, {"networks"}, Containers, {"networks"}, {"cache"}>>

\* One command of cleanup; its failure is ignored.
Cleanup ==
    /\ pc = "cleanup" /\ stage' = stage + 1
    /\ LET rs == {r \in CleanupCommands[stage + 1] : Unused(r)}
       IN (Works /\ Removes(rs)) \/ (Fails /\ UNCHANGED <<up, coordinator, tool>>)
    /\ pc' = IF stage + 1 = Len(CleanupCommands) THEN "done" ELSE "cleanup"
    /\ UNCHANGED <<line, clock, transcript, result, signals>>

\* on_signal, once the command in the foreground has ended: cleanup from its
\* start, from within the EXIT trap too, and exit 130.
Signal ==
    /\ pc # "done" /\ signals < MaxSignals /\ signals' = signals + 1
    /\ Exit(130)
    /\ UNCHANGED <<docker, clock, transcript, faults>>

Script == Setup \/ Wait \/ WatchTool \/ CheckClock \/ StopCoordinator
            \/ SaveTranscript \/ CheckTool \/ CheckCode \/ Cleanup

Finished == pc = "done" /\ UNCHANGED vars

Next == Script \/ Signal \/ CoordinatorPrints \/ CoordinatorEnds \/ ToolEnds \/ Finished

\* The script's commands return and bash goes on to the next one; nothing is
\* assumed of the coordinator, the tool or the driver.
Spec == Init /\ [][Next]_vars /\ WF_vars(Script)

-----------------------------------------------------------------------------
(* Properties *)

\* With docker working, the exit code says why the run ended, however the ends of
\* the coordinator, of the tool and of the deadline fall between the commands and
\* although the cleanup stops what still runs: 71 blames a tool that ended by
\* itself.  A submitted run ended by itself, and its transcript is complete and
\* parses; unless a signal came, a transcript is never saved while the coordinator
\* prints, so at most the last line that the stop cut is missing.
ExitTellsWhy ==
    (pc = "done" /\ faults = 0) =>
        /\ CASE result = 0 -> coordinator = "exited" /\ transcript = "whole"
             [] result = 70 -> coordinator = "failed"
             [] result = 71 -> tool = "exited"
             [] result = 124 -> clock = Deadline
             [] result = 130 -> signals > 0
        /\ result # 130 => transcript \in {"whole", "torn"}

\* When the script has ended nothing of the instance runs on or is left, although
\* the first removal of the networks is refused while containers use them.
InstanceRemoved == (pc = "done" /\ faults = 0) => up = {} /\ coordinator # "running"

\* The script ends although the coordinator may never stop and any command may fail.
RunnerEnds == <>(pc = "done")

-----------------------------------------------------------------------------
(* The inductive invariant *)

\* Commands between the setup and the EXIT trap.
Running == {"wait", "watch", "clock", "stop", "logs", "tool", "code"}

TypeOK ==
    /\ pc \in Running \cup {"setup", "cleanup", "done"} /\ stage \in Nat
    /\ up \subseteq Containers \cup {"networks", "cache"}
    /\ coordinator \in {"absent", "running", "exited", "failed", "stopped"}
    /\ line \in {"between", "within"} /\ tool \in {"absent", "running", "exited", "stopped"}
    /\ clock \in 0 .. Deadline /\ transcript \in {"empty", "part", "torn", "whole"}
    /\ result \in {0, 70, 71, 124, 130}
    /\ faults \in 0 .. MaxFaults /\ signals \in 0 .. MaxSignals

\* How far the script is, and what of the containers and of the exit code follows.
Progress ==
    /\ pc = "setup" => stage \in 0 .. 5 /\ (stage = 5 => tool # "absent")
    /\ pc = "cleanup" => stage \in 0 .. 4
    /\ pc \in Running => tool # "absent" /\ coordinator # "absent"
    /\ pc \notin {"cleanup", "done"} => tool # "stopped"
    /\ pc \in {"setup", "wait", "watch", "clock"} => result = 0 /\ coordinator # "stopped"
    /\ pc = "stop" => result \in {71, 124}
    /\ pc = "logs" => result \in {0, 71, 124}
    /\ pc = "tool" => result = 0
    /\ pc = "code" => result \in {0, 71}
    /\ coordinator = "exited" => line = "between"
    /\ coordinator = "running" => "coordinator" \in up

\* With docker working, the exit code decided so far has its reason.
Reasons ==
    faults = 0 =>
        /\ result = 70 => coordinator = "failed"
        /\ result = 71 => tool = "exited"
        /\ result = 124 => clock = Deadline
        /\ result = 130 => signals > 0
        /\ pc \in {"logs", "tool", "code"} => coordinator # "running"
        /\ (pc \in {"tool", "code", "cleanup", "done"} /\ result # 130) => transcript \in {"whole", "torn"}
        /\ ((pc = "logs" /\ result = 0) \/ pc \in {"tool", "code"}) => coordinator \in {"exited", "failed"}
        /\ (pc \in {"tool", "code"} /\ coordinator = "exited") => transcript = "whole"
        /\ (pc \in {"cleanup", "done"} /\ result = 0) => coordinator = "exited" /\ transcript = "whole"

\* With docker working, what the commands of cleanup have removed so far.
Removal ==
    faults = 0 =>
        /\ (pc = "cleanup" /\ stage >= 3) => up \cap Containers = {}
        /\ (pc = "cleanup" /\ stage >= 4) => "networks" \notin up
        /\ pc = "done" => up = {}

RunnerInv == TypeOK /\ Progress /\ Reasons /\ Removal

=============================================================================
