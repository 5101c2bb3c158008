----------------------- MODULE CandidateRunnerProofs ------------------------
(***************************************************************************)
(* run-candidate.sh, for every deadline and every number of failing docker *)
(* commands and of signals.                                                *)
(***************************************************************************)
EXTENDS CandidateRunner, TLAPS

USE RunnerAssumption
USE DEF docker, Running, Containers

-----------------------------------------------------------------------------
(* The setup *)

\* Each stage creates one resource; the last two are the tool and the coordinator.
LEMMA StageOrder ==
  ASSUME stage \in 0 .. 5
  PROVE  /\ Len(Stages) = 6
         /\ Stages[stage + 1] \in Containers \cup {"networks", "cache"}
         /\ Stages[stage + 1] = "tool" <=> stage = 4
         /\ Stages[stage + 1] = "coordinator" <=> stage = 5
<1>1. Len(Stages) = 6
  BY DEF Stages
<1>2. stage = 0 \/ stage = 1 \/ stage = 2 \/ stage = 3 \/ stage = 4 \/ stage = 5
  OBVIOUS
<1> QED
  BY <1>1, <1>2 DEF Stages

\* Nothing has been started and no exit code is decided.
LEMMA RunnerInvInit == Init => RunnerInv
<1> SUFFICES ASSUME Init PROVE RunnerInv
  OBVIOUS
<1>1. TypeOK
  BY DEF Init, TypeOK
<1>2. Progress /\ Reasons /\ Removal
  BY DEF Init, Progress, Reasons, Removal
<1> QED
  BY <1>1, <1>2 DEF RunnerInv

\* One command of the setup, or the one that fails.
LEMMA SetupStep ==
  ASSUME RunnerInv, Setup
  PROVE  RunnerInv'
<1> DEFINE r == Stages[stage + 1]
<1>0. /\ TypeOK /\ Progress /\ Reasons /\ Removal /\ pc = "setup" /\ stage \in 0 .. 5 /\ result = 0
      /\ line' = line /\ clock' = clock /\ transcript' = transcript /\ signals' = signals
  BY DEF RunnerInv, Progress, Setup
<1>1. /\ Len(Stages) = 6 /\ r \in Containers \cup {"networks", "cache"}
      /\ r = "tool" <=> stage = 4
      /\ r = "coordinator" <=> stage = 5
  BY <1>0, StageOrder
<1>2. \/ /\ Works /\ Starts(r) /\ stage' = stage + 1
         /\ pc' = (IF stage + 1 = Len(Stages) THEN "wait" ELSE "setup")
         /\ result' = result
      \/ /\ Fails /\ Exit(71)
         /\ Starts(r) \/ (up' \in {up, up \cup {r}} /\ UNCHANGED <<tool, coordinator>>)
  BY DEF Setup
<1> HIDE DEF r
<1>3. /\ up' \in {up, up \cup {r}}
      /\ tool' \in {tool, "running"} /\ (r # "tool" => tool' = tool)
      /\ coordinator' = coordinator \/ (coordinator' = "running" /\ r = "coordinator" /\ "coordinator" \in up')
  BY <1>2 DEF Starts
<1>4. CASE Works
  <2>1. /\ faults' = faults /\ Starts(r) /\ stage' = stage + 1 /\ result' = result
        /\ pc' = (IF stage = 5 THEN "wait" ELSE "setup")
    <3>1. ~Fails
      BY <1>0, <1>4 DEF Works, Fails, TypeOK
    <3>2. stage + 1 = Len(Stages) <=> stage = 5
      BY <1>0, <1>1
    <3> QED
      BY <1>2, <3>1, <3>2, <1>4 DEF Works
  <2>2. TypeOK'
    BY <1>0, <1>1, <1>3, <2>1 DEF TypeOK
  <2>3. Progress'
    <3>1. stage = 4 => tool' = "running"
      BY <1>1, <2>1 DEF Starts
    <3>2. stage = 5 => coordinator' = "running" /\ "coordinator" \in up' /\ tool' = tool
      BY <1>1, <2>1 DEF Starts
    <3>3. coordinator' = "running" => "coordinator" \in up'
      BY <1>0, <1>3 DEF Progress
    <3>4. /\ coordinator' # "stopped" /\ tool' # "stopped"
          /\ coordinator' = "exited" => line' = "between"
      BY <1>0, <1>3 DEF Progress
    <3> QED
      BY <1>0, <2>1, <3>1, <3>2, <3>3, <3>4 DEF Progress
  <2>4. Reasons' /\ Removal'
    BY <1>0, <2>1 DEF Reasons, Removal
  <2> QED
    BY <2>2, <2>3, <2>4 DEF RunnerInv
<1>5. CASE Fails
  <2>1. /\ faults' \in 0 .. MaxFaults /\ faults' # 0 /\ pc' = "cleanup" /\ stage' = 0 /\ result' = 71
    <3>1. ~Works
      BY <1>0, <1>5 DEF Works, Fails, TypeOK
    <3> QED
      BY <1>0, <1>2, <1>5, <3>1 DEF Fails, Exit, TypeOK
  <2>2. TypeOK'
    BY <1>0, <1>1, <1>3, <2>1 DEF TypeOK
  <2>3. Progress'
    BY <1>0, <1>3, <2>1 DEF Progress
  <2>4. Reasons' /\ Removal'
    BY <2>1 DEF Reasons, Removal
  <2> QED
    BY <2>2, <2>3, <2>4 DEF RunnerInv
<1> QED
  BY <1>2, <1>4, <1>5

-----------------------------------------------------------------------------
(* The wait loop and what follows it *)

\* The loop: it is left when the coordinator has ended, the tool has ended or the
\* deadline is reached, and the exit code remembers which.
LEMMA LoopStep ==
  ASSUME RunnerInv, Wait \/ WatchTool \/ CheckClock \/ StopCoordinator
  PROVE  RunnerInv'
<1>0. TypeOK /\ Progress /\ Reasons /\ Removal
  BY DEF RunnerInv
<1>1. CASE Wait
  <2>1. TypeOK'
    BY <1>0, <1>1 DEF TypeOK, Wait, Works, Fails
  <2>2. Progress'
    BY <1>0, <1>1 DEF Progress, Wait
  <2>3. Reasons' /\ Removal'
    BY <1>0, <1>1 DEF TypeOK, Progress, Reasons, Removal, Wait, Works, Fails
  <2> QED
    BY <2>1, <2>2, <2>3 DEF RunnerInv
<1>2. CASE WatchTool
  <2>1. TypeOK'
    BY <1>0, <1>2 DEF TypeOK, WatchTool, Works, Fails
  <2>2. Progress'
    BY <1>0, <1>2 DEF Progress, WatchTool
  <2>3. Reasons' /\ Removal'
    BY <1>0, <1>2 DEF TypeOK, Progress, Reasons, Removal, WatchTool, Works, Fails
  <2> QED
    BY <2>1, <2>2, <2>3 DEF RunnerInv
<1>3. CASE CheckClock
  <2>1. TypeOK'
    BY <1>0, <1>3 DEF TypeOK, CheckClock
  <2>2. Progress'
    BY <1>0, <1>3 DEF Progress, CheckClock
  <2>3. Reasons' /\ Removal'
    BY <1>0, <1>3 DEF TypeOK, Progress, Reasons, Removal, CheckClock
  <2> QED
    BY <2>1, <2>2, <2>3 DEF RunnerInv
<1>4. CASE StopCoordinator
  <2>1. TypeOK'
    BY <1>0, <1>4 DEF TypeOK, StopCoordinator, Stopped, Works, Fails
  <2>2. Progress'
    BY <1>0, <1>4 DEF Progress, StopCoordinator, Stopped
  <2>3. Reasons' /\ Removal'
    BY <1>0, <1>4 DEF TypeOK, Progress, Reasons, Removal, StopCoordinator, Stopped, Works, Fails
  <2> QED
    BY <2>1, <2>2, <2>3 DEF RunnerInv
<1> QED
  BY <1>1, <1>2, <1>3, <1>4

\* The transcript and the classification.
LEMMA ClassifyStep ==
  ASSUME RunnerInv, SaveTranscript \/ CheckTool \/ CheckCode
  PROVE  RunnerInv'
<1>0. TypeOK /\ Progress /\ Reasons /\ Removal
  BY DEF RunnerInv
<1>1. CASE SaveTranscript
  <2>1. TypeOK'
    BY <1>0, <1>1 DEF TypeOK, SaveTranscript, Output, Exit, Works, Fails
  <2>2. Progress'
    BY <1>0, <1>1 DEF Progress, SaveTranscript, Exit
  <2>3. Reasons' /\ Removal'
    BY <1>0, <1>1 DEF TypeOK, Progress, Reasons, Removal, SaveTranscript, Output, Exit, Works, Fails
  <2> QED
    BY <2>1, <2>2, <2>3 DEF RunnerInv
<1>2. CASE CheckTool
  <2>1. TypeOK'
    BY <1>0, <1>2 DEF TypeOK, CheckTool, Works, Fails
  <2>2. Progress'
    BY <1>0, <1>2 DEF Progress, CheckTool
  <2>3. Reasons' /\ Removal'
    BY <1>0, <1>2 DEF TypeOK, Progress, Reasons, Removal, CheckTool, Works, Fails
  <2> QED
    BY <2>1, <2>2, <2>3 DEF RunnerInv
<1>3. CASE CheckCode
  <2>1. TypeOK'
    BY <1>0, <1>3 DEF TypeOK, CheckCode, Exit, Works, Fails
  <2>2. Progress'
    BY <1>0, <1>3 DEF Progress, CheckCode, Exit
  <2>3. Reasons' /\ Removal'
    BY <1>0, <1>3 DEF TypeOK, Progress, Reasons, Removal, CheckCode, Exit, Works, Fails
  <2> QED
    BY <2>1, <2>2, <2>3 DEF RunnerInv
<1> QED
  BY <1>1, <1>2, <1>3

-----------------------------------------------------------------------------
(* Cleanup, signals and the containers themselves *)

\* What each command of cleanup asks docker to remove.
LEMMA CommandOrder ==
  ASSUME stage \in 0 .. 4
  PROVE  /\ Len(CleanupCommands) = 5
         /\ stage = 2 => CleanupCommands[stage + 1] = Containers
         /\ stage = 3 => CleanupCommands[stage + 1] = {"networks"}
         /\ stage = 4 => CleanupCommands[stage + 1] = {"cache"}
<1>1. Len(CleanupCommands) = 5
  BY DEF CleanupCommands
<1> QED
  BY <1>1 DEF CleanupCommands

\* One command of the cleanup takes away what nothing uses any more.
LEMMA CleanupStep ==
  ASSUME RunnerInv, Cleanup
  PROVE  RunnerInv'
<1> DEFINE rs == {r \in CleanupCommands[stage + 1] : Unused(r)}
<1>0. /\ TypeOK /\ Progress /\ Reasons /\ Removal /\ pc = "cleanup" /\ stage \in 0 .. 4
      /\ stage' = stage + 1 /\ line' = line /\ clock' = clock /\ transcript' = transcript
      /\ result' = result /\ signals' = signals
      /\ (Works /\ Removes(rs)) \/ (Fails /\ UNCHANGED <<up, coordinator, tool>>)
  BY DEF RunnerInv, Progress, Cleanup
<1>1. pc' = IF stage = 4 THEN "done" ELSE "cleanup"
  <2>1. stage + 1 = Len(CleanupCommands) <=> stage = 4
    <3>1. Len(CleanupCommands) = 5
      BY <1>0, CommandOrder
    <3> QED
      BY <1>0, <3>1
  <2> QED
    BY <2>1 DEF Cleanup
<1>2. /\ stage = 2 => Containers \subseteq rs
      /\ (stage = 3 /\ up \cap Containers = {}) => "networks" \in rs
      /\ (stage = 4 /\ up \cap Containers = {}) => "cache" \in rs
  BY <1>0, CommandOrder DEF Unused
<1> HIDE DEF rs
<1>3. CASE Works /\ Removes(rs)
  <2>1. /\ faults' = faults /\ up' = up \ rs
        /\ coordinator' = (IF "coordinator" \in rs THEN Stopped ELSE coordinator)
        /\ tool' = (IF "tool" \in rs /\ tool = "running" THEN "stopped" ELSE tool)
    BY <1>3 DEF Works, Removes
  <2>2. TypeOK'
    <3>1. /\ coordinator' \in {"absent", "running", "exited", "failed", "stopped"}
          /\ tool' \in {"absent", "running", "exited", "stopped"}
      BY <1>0, <2>1 DEF TypeOK, Stopped
    <3>2. pc' \in {"cleanup", "done"} /\ stage' \in Nat /\ up' \subseteq up
      BY <1>0, <1>1, <2>1
    <3> QED
      BY <1>0, <2>1, <3>1, <3>2 DEF TypeOK
  <2>3. Progress'
    BY <1>0, <1>1, <2>1 DEF Progress, Stopped
  <2>4. Reasons'
    BY <1>0, <1>1, <2>1 DEF Reasons, Stopped
  <2>5. Removal'
    <3>1. SUFFICES ASSUME faults = 0 PROVE Removal'
      BY <2>1 DEF Removal
    <3>2. /\ stage >= 3 => up \cap Containers = {}
          /\ stage >= 4 => "networks" \notin up
      BY <1>0, <3>1 DEF Removal
    <3>3. stage \in Int /\ stage <= 4
      BY <1>0
    <3>4. /\ stage >= 2 => up' \cap Containers = {}
          /\ stage >= 3 => "networks" \notin up'
          /\ stage >= 4 => "cache" \notin up'
      BY <1>2, <2>1, <3>2, <3>3
    <3>5. up' \subseteq Containers \cup {"networks", "cache"}
      BY <1>0, <2>1 DEF TypeOK
    <3>6. /\ pc' = "cleanup" => stage # 4
          /\ pc' = "done" => stage = 4
      BY <1>1
    <3>7. /\ (pc' = "cleanup" /\ stage' >= 3) => up' \cap Containers = {}
          /\ (pc' = "cleanup" /\ stage' >= 4) => "networks" \notin up'
      BY <1>0, <3>3, <3>4
    <3>8. pc' = "done" => up' = {}
      BY <3>3, <3>4, <3>5, <3>6
    <3> QED
      BY <3>7, <3>8 DEF Removal
  <2> QED
    BY <2>2, <2>3, <2>4, <2>5 DEF RunnerInv
<1>4. CASE Fails /\ UNCHANGED <<up, coordinator, tool>>
  <2>1. faults' \in 0 .. MaxFaults /\ faults' # 0
    BY <1>0, <1>4 DEF Fails, TypeOK
  <2>2. TypeOK'
    BY <1>0, <1>1, <1>4, <2>1 DEF TypeOK
  <2>3. Progress'
    BY <1>0, <1>1, <1>4 DEF Progress
  <2>4. Reasons' /\ Removal'
    BY <2>1 DEF Reasons, Removal
  <2> QED
    BY <2>2, <2>3, <2>4 DEF RunnerInv
<1> QED
  BY <1>0, <1>3, <1>4

\* A signal sends the script to the start of cleanup from anywhere.
LEMMA SignalStep ==
  ASSUME RunnerInv, Signal
  PROVE  RunnerInv'
<1>0. TypeOK /\ Progress /\ Reasons /\ Removal
  BY DEF RunnerInv
<1>1. TypeOK'
  BY <1>0 DEF TypeOK, Signal, Exit
<1>2. Progress'
  BY <1>0 DEF Progress, Signal, Exit
<1>3. Reasons' /\ Removal'
  BY <1>0 DEF TypeOK, Reasons, Removal, Signal, Exit
<1> QED
  BY <1>1, <1>2, <1>3 DEF RunnerInv

\* The containers go on, whatever the script is doing.
LEMMA ContainerStep ==
  ASSUME RunnerInv, CoordinatorPrints \/ CoordinatorEnds \/ ToolEnds
  PROVE  RunnerInv'
<1>0. TypeOK /\ Progress /\ Reasons /\ Removal
  BY DEF RunnerInv
<1>1. TypeOK'
  <2>1. CASE CoordinatorPrints
    BY <1>0, <2>1 DEF TypeOK, CoordinatorPrints
  <2>2. CASE CoordinatorEnds
    BY <1>0, <2>2 DEF TypeOK, CoordinatorEnds
  <2>3. CASE ToolEnds
    BY <1>0, <2>3 DEF TypeOK, ToolEnds
  <2> QED
    BY <2>1, <2>2, <2>3
<1>2. Progress'
  BY <1>0 DEF TypeOK, Progress, CoordinatorPrints, CoordinatorEnds, ToolEnds
<1>3. Reasons'
  BY <1>0 DEF Reasons, CoordinatorPrints, CoordinatorEnds, ToolEnds
<1>4. Removal'
  BY <1>0 DEF Removal, CoordinatorPrints, CoordinatorEnds, ToolEnds
<1> QED
  BY <1>1, <1>2, <1>3, <1>4 DEF RunnerInv

\* Every step of the script, docker and the signals keeps the invariant.
LEMMA RunnerInvStep ==
  ASSUME RunnerInv, [Next]_vars
  PROVE  RunnerInv'
<1>1. CASE Setup
  BY <1>1, SetupStep
<1>2. CASE Wait \/ WatchTool \/ CheckClock \/ StopCoordinator
  BY <1>2, LoopStep
<1>3. CASE SaveTranscript \/ CheckTool \/ CheckCode
  BY <1>3, ClassifyStep
<1>4. CASE Cleanup
  BY <1>4, CleanupStep
<1>5. CASE Signal
  BY <1>5, SignalStep
<1>6. CASE CoordinatorPrints \/ CoordinatorEnds \/ ToolEnds
  BY <1>6, ContainerStep
<1>7. CASE Finished \/ UNCHANGED vars
  <2>1. TypeOK /\ Progress /\ Reasons /\ Removal /\ UNCHANGED vars
    BY <1>7 DEF RunnerInv, Finished
  <2>2. TypeOK' /\ Progress'
    BY <2>1 DEF vars, TypeOK, Progress
  <2>3. Reasons' /\ Removal'
    BY <2>1 DEF vars, Reasons, Removal
  <2> QED
    BY <2>2, <2>3 DEF RunnerInv
<1> QED
  BY <1>1, <1>2, <1>3, <1>4, <1>5, <1>6, <1>7 DEF Next, Script

\* The inductive invariant holds in every behaviour, however the ends of containers,
\* failing commands and signals fall between the commands of the script.
THEOREM RunnerInvariance == Spec => []RunnerInv
<1>1. Init => RunnerInv
  BY RunnerInvInit
<1>2. RunnerInv /\ [Next]_vars => RunnerInv'
  BY RunnerInvStep
<1> QED
  BY <1>1, <1>2, PTL DEF Spec

-----------------------------------------------------------------------------
(* Safety *)

\* The exit code of run-candidate.sh is the reason the run ended, and 0 means that the
\* coordinator ended by itself and its whole transcript was saved; the cleanup, which
\* stops what still runs, makes no code true that was not.
THEOREM ExitCodeTruthful == Spec => []ExitTellsWhy
<1>1. RunnerInv => ExitTellsWhy
  BY DEF RunnerInv, TypeOK, Reasons, ExitTellsWhy
<1> QED
  BY <1>1, RunnerInvariance, PTL

\* The two passes of cleanup together remove everything that carries the labels of the
\* instance, from whichever point of the setup they are entered.
THEOREM CleanupComplete == Spec => []InstanceRemoved
<1>1. RunnerInv => InstanceRemoved
  BY DEF RunnerInv, Progress, Removal, InstanceRemoved
<1> QED
  BY <1>1, RunnerInvariance, PTL
=============================================================================
