-------------------------- MODULE RunDriverProofs --------------------------
(***************************************************************************)
(* Proofs about RunDriver, for any number of drivers, run directories and  *)
(* slots, any timeout and any number of crashes.                           *)
(***************************************************************************)
EXTENDS RunDriver, FiniteSetTheorems, TLAPS

USE RunDriverAssumption

-----------------------------------------------------------------------------
(* Type correctness *)

\* The initial state is well typed.
LEMMA TypeInit == Init => TypeOK
  BY DEF Init, TypeOK, Slots, Labels, Holding, NoStatus, NoMeta, Horizon,
         OuterDeadline, ExitCodes, ScriptRunning, AsmRunning

\* Every label, exit code and process state the actions name is one.
LEMMA Names ==
  /\ {"acquire", "mkdir", "prepare", "candidate", "interrupted", "cleanup", "finalize",
      "metadata", "marker", "assembly", "done", "error", "crashed"} \subseteq Labels
  /\ {0, 1, 70, 71, 124, 130, Killed} \subseteq ExitCodes
  /\ {"setup", "agent"} \subseteq ScriptRunning
  /\ {"read", "evaluate", "compose"} \subseteq AsmRunning
  /\ Failed \subseteq Status /\ Evaluated \subseteq Status
  BY DEF Labels, Holding, AsmRunning, ScriptRunning, ExitCodes, Status

\* Leave and Continue keep the types of everything the driver owns.
LEMMA LeaveType ==
  ASSUME NEW d \in Drivers, NEW label \in Labels, TypeOK, Leave(d, label)
  PROVE  /\ pc' \in [Drivers -> Labels]
         /\ holder' \in [Slots -> Drivers \cup {NoDriver}]
         /\ attempt' \in [Drivers -> 1 .. MaxConcurrency + 1]
         /\ ctx' \in [Drivers -> {"open", "canceled", "deadline"}]
         /\ exit' \in [Drivers -> ExitCodes]
         /\ unsafe' \in [Drivers -> BOOLEAN]
<1>1. /\ pc' \in [Drivers -> Labels]
      /\ holder' \in [Slots -> Drivers \cup {NoDriver}]
      /\ unsafe' \in [Drivers -> BOOLEAN]
  BY DEF Leave, TypeOK
<1>2. exit' \in [Drivers -> ExitCodes]
  BY Names DEF Leave, TypeOK
<1>3. attempt' \in [Drivers -> 1 .. MaxConcurrency + 1]
  BY DEF Leave, TypeOK
<1>4. ctx' \in [Drivers -> {"open", "canceled", "deadline"}]
  BY DEF Leave, TypeOK
<1> QED
  BY <1>1, <1>2, <1>3, <1>4

\* See LeaveType.
LEMMA ContinueType ==
  ASSUME NEW d \in Drivers, NEW label \in Labels, TypeOK, Continue(d, label)
  PROVE  /\ pc' \in [Drivers -> Labels]
         /\ holder' \in [Slots -> Drivers \cup {NoDriver}]
         /\ attempt' \in [Drivers -> 1 .. MaxConcurrency + 1]
         /\ ctx' \in [Drivers -> {"open", "canceled", "deadline"}]
         /\ exit' \in [Drivers -> ExitCodes]
         /\ unsafe' \in [Drivers -> BOOLEAN]
  BY DEF Continue, TypeOK

\* Writing an artifact keeps the type of files.
LEMMA PutType ==
  ASSUME NEW r \in RunDirs, NEW a \in Artifacts, TypeOK, Put(r, a)
  PROVE  files' \in [RunDirs -> SUBSET Artifacts]
  BY DEF Put, TypeOK

\* Every step of every process keeps the types.
LEMMA TypeStep ==
  ASSUME TypeOK, [Next]_vars
  PROVE  TypeOK'
<1> USE DEF driverVars, scriptVars, asmVars, diskVars
<1>v. CASE UNCHANGED vars
  BY <1>v DEF TypeOK, vars
<1>d. ASSUME NEW d \in Drivers PROVE RunDirOf[d] \in RunDirs
  OBVIOUS
<1>1. ASSUME NEW d \in Drivers, Check(d) PROVE TypeOK'
  <2>1. CASE Leave(d, "error")
    BY <1>1, <2>1, Names, LeaveType DEF Check, TypeOK
  <2>2. CASE Continue(d, "acquire")
    BY <1>1, <2>2, Names, ContinueType DEF Check, TypeOK
  <2> QED
    BY <1>1, <2>1, <2>2 DEF Check
<1>2. ASSUME NEW d \in Drivers, TrySlot(d) PROVE TypeOK'
  <2>0. CASE Leave(d, "error")
    BY <1>2, <2>0, Names, LeaveType DEF TrySlot, TypeOK
  <2>1. CASE ~Leave(d, "error") /\ holder[attempt[d]] = NoDriver
    <3>0. /\ attempt[d] \in Slots
          /\ holder' = [holder EXCEPT ![attempt[d]] = d]
          /\ attempt' = [attempt EXCEPT ![d] = 1]
      BY <1>2, <2>1 DEF TrySlot
    <3>1. holder' \in [Slots -> Drivers \cup {NoDriver}]
      BY <3>0 DEF TypeOK
    <3>2. attempt' \in [Drivers -> 1 .. MaxConcurrency + 1]
      BY <3>0 DEF TypeOK
    <3>3. pc' \in [Drivers -> Labels]
      <4>1. pc' = [pc EXCEPT ![d] = "mkdir"]
        BY <1>2, <2>1 DEF TrySlot
      <4> QED
        BY <4>1, Names DEF TypeOK
    <3> QED
      BY <1>2, <2>1, <3>1, <3>2, <3>3 DEF TrySlot, TypeOK
  <2>2. CASE ~Leave(d, "error") /\ holder[attempt[d]] # NoDriver
    <3>1. attempt[d] + 1 \in 1 .. MaxConcurrency + 1
      BY <1>2 DEF TrySlot, TypeOK, Slots
    <3>2. attempt' \in [Drivers -> 1 .. MaxConcurrency + 1]
      BY <1>2, <2>2, <3>1 DEF TrySlot, TypeOK
    <3> QED
      BY <1>2, <2>2, <3>2 DEF TrySlot, TypeOK
  <2> QED
    BY <2>0, <2>1, <2>2
<1>3. ASSUME NEW d \in Drivers, Poll(d) PROVE TypeOK'
  <2>1. CASE Leave(d, "error")
    BY <1>3, <2>1, Names, LeaveType DEF Poll, TypeOK
  <2>2. CASE ~Leave(d, "error")
    <3>1. attempt' \in [Drivers -> 1 .. MaxConcurrency + 1]
      <4>1. attempt' = [attempt EXCEPT ![d] = 1]
        BY <1>3, <2>2 DEF Poll
      <4> QED
        BY <4>1 DEF TypeOK
    <3> QED
      BY <1>3, <2>2, <3>1 DEF Poll, TypeOK
  <2> QED
    BY <2>1, <2>2
<1>4. ASSUME NEW d \in Drivers, Mkdir(d) PROVE TypeOK'
  <2>1. CASE owner[RunDirOf[d]] = NoDriver
    <3>1. owner' = [owner EXCEPT ![RunDirOf[d]] = d] /\ Continue(d, "prepare")
      BY <1>4, <2>1 DEF Mkdir
    <3>2. owner' \in [RunDirs -> Drivers \cup {NoDriver}]
      BY <1>d, <3>1 DEF TypeOK
    <3> QED
      BY <1>4, <3>1, <3>2, Names, ContinueType DEF Mkdir, TypeOK
  <2>2. CASE owner[RunDirOf[d]] # NoDriver
    BY <1>4, <2>2, Names, LeaveType DEF Mkdir, TypeOK
  <2> QED
    BY <2>1, <2>2
<1>5. ASSUME NEW d \in Drivers, Launch(d) PROVE TypeOK'
  <2>1. CASE Leave(d, "error") /\ UNCHANGED <<script, live>>
    BY <1>5, <2>1, Names, LeaveType DEF Launch, TypeOK
  <2>2. CASE /\ pc'   = [pc EXCEPT ![d] = "cleanup"]
             /\ exit' = [exit EXCEPT ![d] = 71]
             /\ UNCHANGED <<holder, attempt, ctx, unsafe, script, live>>
    <3>1. pc' \in [Drivers -> Labels] /\ exit' \in [Drivers -> ExitCodes]
      BY <2>2, Names DEF TypeOK
    <3> QED
      BY <1>5, <2>2, <3>1 DEF Launch, TypeOK
  <2>3. CASE /\ Continue(d, "candidate")
             /\ script' = [script EXCEPT ![d] = "setup"]
             /\ live'   = [live EXCEPT ![d] = TRUE]
    <3>1. /\ script' \in [Drivers -> ScriptRunning \cup {"none", "exited"}]
          /\ live' \in [Drivers -> BOOLEAN]
      BY <2>3, Names DEF TypeOK
    <3> QED
      BY <1>5, <2>3, <3>1, Names, ContinueType DEF Launch, TypeOK
  <2> QED
    BY <1>5, <2>1, <2>2, <2>3 DEF Launch
<1>6. ASSUME NEW d \in Drivers, Interrupt(d) PROVE TypeOK'
  BY <1>6, Names, ContinueType DEF Interrupt, TypeOK
<1>7. ASSUME NEW d \in Drivers, Kill(d) PROVE TypeOK'
  <2>1. script' \in [Drivers -> ScriptRunning \cup {"none", "exited"}]
    BY <1>7 DEF Kill, TypeOK
  <2>2. exit' \in [Drivers -> ExitCodes]
    BY <1>7, Names DEF Kill, TypeOK
  <2> QED
    BY <1>7, <2>1, <2>2 DEF Kill, TypeOK
<1>8. ASSUME NEW d \in Drivers, Reap(d) PROVE TypeOK'
  <2>1. pc' \in [Drivers -> Labels]
    BY <1>8, Names DEF Reap, TypeOK
  <2>2. exit' \in [Drivers -> ExitCodes]
    BY <1>8, Names DEF Reap, TypeOK
  <2> QED
    BY <1>8, <2>1, <2>2 DEF Reap, TypeOK
<1>9. ASSUME NEW d \in Drivers, Cleanup(d) PROVE TypeOK'
  <2>1. pc' \in [Drivers -> Labels]
    BY <1>9, Names DEF Cleanup, TypeOK
  <2>2. exit' \in [Drivers -> ExitCodes]
    <3>1. exit' = exit \/ exit' = [exit EXCEPT ![d] = 71]
      BY <1>9 DEF Cleanup
    <3> QED
      BY <3>1, Names DEF TypeOK
  <2>3. Leftovers(d) \subseteq BOOLEAN
    BY DEF Leftovers, TypeOK
  <2>4. live' \in [Drivers -> BOOLEAN]
    BY <1>9, <2>3 DEF Cleanup, TypeOK
  <2> QED
    BY <1>9, <2>1, <2>2, <2>4 DEF Cleanup, TypeOK
<1>10. ASSUME NEW d \in Drivers, Finalize(d) PROVE TypeOK'
  <2>1. CASE Leave(d, "error") /\ UNCHANGED files
    BY <1>10, <2>1, Names, LeaveType DEF Finalize, TypeOK
  <2>2. CASE ~(Leave(d, "error") /\ UNCHANGED files)
    <3>1. files' \in [RunDirs -> SUBSET Artifacts]
      BY <1>10, <1>d, <2>2, PutType DEF Finalize, Artifacts
    <3>2. /\ pc' = [pc EXCEPT ![d] = "metadata"]
          /\ \E u \in BOOLEAN : unsafe' = [unsafe EXCEPT ![d] = u]
      BY <1>10, <2>2 DEF Finalize
    <3>3. pc' \in [Drivers -> Labels]
      BY <3>2, Names DEF TypeOK
    <3>4. unsafe' \in [Drivers -> BOOLEAN]
      BY <3>2 DEF TypeOK
    <3> QED
      BY <1>10, <2>2, <3>1, <3>3, <3>4 DEF Finalize, TypeOK
  <2> QED
    BY <2>1, <2>2
<1>11. ASSUME NEW d \in Drivers, WriteMetadata(d) PROVE TypeOK'
  <2>1. CASE Leave(d, "error") /\ UNCHANGED <<meta, files>>
    BY <1>11, <2>1, Names, LeaveType DEF WriteMetadata, TypeOK
  <2>2. CASE ~(Leave(d, "error") /\ UNCHANGED <<meta, files>>)
    <3>1. Classify(exit[d]) \in Status
      BY DEF Classify, Status, Evaluated, Failed
    <3>2. WallClock(exit[d], elapsed[d]) \in 0 .. Horizon
      BY DEF WallClock, TypeOK, Horizon, OuterDeadline
    <3>3. meta' \in [RunDirs -> [status : Status \cup {NoStatus}, wall : 0 .. Horizon]]
      <4> DEFINE m == [status |-> IF unsafe[d] THEN "harness-failure" ELSE Classify(exit[d]),
                       wall   |-> WallClock(exit[d], elapsed[d])]
      <4>1. "harness-failure" \in Status
        BY DEF Status, Failed
      <4>2. m \in [status : Status \cup {NoStatus}, wall : 0 .. Horizon]
        BY <3>1, <3>2, <4>1
      <4>3. meta' = [meta EXCEPT ![RunDirOf[d]] = m]
        BY <1>11, <2>2 DEF WriteMetadata
      <4> HIDE DEF m
      <4> QED
        BY <1>d, <4>2, <4>3 DEF TypeOK
    <3>4. files' \in [RunDirs -> SUBSET Artifacts]
      BY <1>11, <1>d, <2>2, PutType DEF WriteMetadata, Artifacts
    <3> QED
      BY <1>11, <2>2, <3>3, <3>4, Names, ContinueType DEF WriteMetadata, TypeOK
  <2> QED
    BY <2>1, <2>2
<1>12. ASSUME NEW d \in Drivers, StartAssembly(d) PROVE TypeOK'
  <2>1. CASE Leave(d, "error") /\ UNCHANGED <<files, asm>>
    BY <1>12, <2>1, Names, LeaveType DEF StartAssembly, TypeOK
  <2>2. CASE ~(Leave(d, "error") /\ UNCHANGED <<files, asm>>)
    <3>1. files' \in [RunDirs -> SUBSET Artifacts]
      BY <1>12, <1>d, <2>2, PutType DEF StartAssembly, Artifacts
    <3>2. asm' \in [Drivers -> AsmRunning \cup {"none", "ok", "failed"}]
      <4>1. asm' = [asm EXCEPT ![d] = "read"]
        BY <1>12, <2>2 DEF StartAssembly
      <4> QED
        BY <4>1, Names DEF TypeOK
    <3> QED
      BY <1>12, <2>2, <3>1, <3>2, Names, ContinueType DEF StartAssembly, TypeOK
  <2> QED
    BY <2>1, <2>2
<1>13. ASSUME NEW d \in Drivers, Return(d) PROVE TypeOK'
  <2>1. PICK label \in {"done", "error"} : Leave(d, label)
    BY <1>13 DEF Return
  <2>2. label \in Labels
    BY Names
  <2> QED
    BY <1>13, <2>1, <2>2, LeaveType DEF Return, TypeOK
<1>14. ASSUME NEW d \in Drivers, NEW code \in ExitCodes, ScriptExit(d, code) PROVE TypeOK'
  <2>1. live' \in [Drivers -> BOOLEAN]
    BY <1>14 DEF ScriptExit, Leftovers, TypeOK
  <2>2. agentStart' \in [Drivers -> 0 .. Horizon]
    BY <1>14 DEF ScriptExit, TypeOK, Horizon, OuterDeadline
  <2>3. exit' \in [Drivers -> ExitCodes]
    BY <1>14 DEF ScriptExit, TypeOK
  <2>4. script' \in [Drivers -> ScriptRunning \cup {"none", "exited"}]
    BY <1>14 DEF ScriptExit, TypeOK
  <2> QED
    BY <1>14, <2>1, <2>2, <2>3, <2>4 DEF ScriptExit, TypeOK
<1>15. ASSUME NEW d \in Drivers, ScriptStep(d) PROVE TypeOK'
  <2>1. CASE Setup(d)
    <3>1. CASE \E code \in {1, 71} : ScriptExit(d, code)
      BY <3>1, <1>14 DEF ExitCodes
    <3>2. CASE ~\E code \in {1, 71} : ScriptExit(d, code)
      <4>1. /\ script' = [script EXCEPT ![d] = "agent"]
            /\ agentStart' = [agentStart EXCEPT ![d] = elapsed[d]]
        BY <2>1, <3>2 DEF Setup
      <4>2. script' \in [Drivers -> ScriptRunning \cup {"none", "exited"}]
        BY <4>1, Names DEF TypeOK
      <4>3. agentStart' \in [Drivers -> 0 .. Horizon]
        BY <4>1 DEF TypeOK
      <4> QED
        BY <2>1, <3>2, <4>2, <4>3 DEF Setup, TypeOK
    <3> QED
      BY <3>1, <3>2
  <2>2. CASE AgentEnds(d) \/ AgentTimesOut(d) \/ Trap(d)
    BY <2>2, <1>14 DEF AgentEnds, AgentTimesOut, Trap, ExitCodes
  <2> QED
    BY <1>15, <2>1, <2>2 DEF ScriptStep
<1>16. ASSUME NEW d \in Drivers, AsmStep(d) PROVE TypeOK'
  <2>1. CASE AsmRead(d)
    <3>1. files' \in [RunDirs -> SUBSET Artifacts]
      BY <2>1, <1>d, PutType DEF AsmRead, TypeOK, Artifacts
    <3>2. evals' \in [RunDirs -> Nat]
      <4>1. evals[RunDirOf[d]] + 1 \in Nat
        BY <1>d DEF TypeOK
      <4>2. evals' = evals \/ evals' = [evals EXCEPT ![RunDirOf[d]] = @ + 1]
        BY <2>1 DEF AsmRead
      <4> QED
        BY <4>1, <4>2 DEF TypeOK
    <3>3. asm' \in [Drivers -> AsmRunning \cup {"none", "ok", "failed"}]
      <4>1. PICK a \in {"failed", "evaluate", "compose"} : asm' = [asm EXCEPT ![d] = a]
        BY <2>1 DEF AsmRead
      <4> QED
        BY <4>1, Names DEF TypeOK
    <3>4. draft' \in [Drivers -> Status \cup {NoStatus}]
      BY <2>1, <1>d DEF AsmRead, TypeOK, Status
    <3> QED
      BY <2>1, <3>1, <3>2, <3>3, <3>4 DEF AsmRead, TypeOK
  <2>2. CASE AsmEvaluate(d)
    <3>1. files' \in [RunDirs -> SUBSET Artifacts]
      BY <2>2, <1>d, PutType DEF AsmEvaluate, TypeOK, Artifacts
    <3>2. asm' \in [Drivers -> AsmRunning \cup {"none", "ok", "failed"}]
      <4>1. PICK a \in {"failed", "compose"} : asm' = [asm EXCEPT ![d] = a]
        BY <2>2 DEF AsmEvaluate
      <4> QED
        BY <4>1, Names DEF TypeOK
    <3>3. draft' \in [Drivers -> Status \cup {NoStatus}]
      BY <2>2, Names DEF AsmEvaluate, TypeOK
    <3> QED
      BY <2>2, <3>1, <3>2, <3>3 DEF AsmEvaluate, TypeOK
  <2>3. CASE AsmCompose(d)
    <3>1. files' \in [RunDirs -> SUBSET Artifacts]
      <4>1. CASE UNCHANGED files
        BY <4>1 DEF TypeOK
      <4>2. CASE Put(RunDirOf[d], "run-result.json")
        BY <4>2, <1>d, PutType DEF Artifacts
      <4> QED
        BY <2>3, <4>1, <4>2 DEF AsmCompose
    <3>2. result' \in [RunDirs -> Status \cup {NoStatus}]
      BY <2>3, <1>d DEF AsmCompose, TypeOK
    <3>3. asm' \in [Drivers -> AsmRunning \cup {"none", "ok", "failed"}]
      <4>1. PICK a \in {"failed", "ok"} : asm' = [asm EXCEPT ![d] = a]
        BY <2>3 DEF AsmCompose
      <4> QED
        BY <4>1 DEF TypeOK
    <3> QED
      BY <2>3, <3>1, <3>2, <3>3 DEF AsmCompose, TypeOK
  <2> QED
    BY <1>16, <2>1, <2>2, <2>3 DEF AsmStep
<1>17. ASSUME NEW d \in Drivers, Signal(d) PROVE TypeOK'
  BY <1>17 DEF Signal, TypeOK
<1>18. ASSUME NEW d \in Drivers, Tick(d) PROVE TypeOK'
  <2>1. elapsed' = [elapsed EXCEPT ![d] = @ + 1]
    BY <1>18 DEF Tick
  <2>2. elapsed[d] + 1 \in 0 .. Horizon
    BY <1>18 DEF Tick, TypeOK, Horizon, OuterDeadline
  <2>3. elapsed' \in [Drivers -> 0 .. Horizon]
    BY <2>1, <2>2 DEF TypeOK
  <2>4. ctx' \in [Drivers -> {"open", "canceled", "deadline"}]
    BY <1>18 DEF Tick, TypeOK
  <2> QED
    BY <1>18, <2>3, <2>4 DEF Tick, TypeOK
<1>19. ASSUME NEW d \in Drivers, Crash(d) PROVE TypeOK'
  BY <1>19, Names, LeaveType DEF Crash, TypeOK
<1> QED
  BY <1>v, <1>1, <1>2, <1>3, <1>4, <1>5, <1>6, <1>7, <1>8, <1>9, <1>10, <1>11, <1>12,
     <1>13, <1>15, <1>16, <1>17, <1>18, <1>19
     DEF Next, DriverStep, Terminated

\* Every variable keeps its type in every behaviour of the harness.
THEOREM TypeCorrect == Spec => []TypeOK
  BY TypeInit, TypeStep, PTL DEF Spec

-----------------------------------------------------------------------------
(* The inductive invariant IInv, and what follows from it *)

USE DEF driverVars, scriptVars, asmVars, diskVars

\* Anything that driver d, its children or its environment may do.
Step(d) ==
    DriverStep(d) \/ ScriptStep(d) \/ AsmStep(d) \/ Signal(d) \/ Tick(d) \/ Crash(d)

-----------------------------------------------------------------------------
(* What a step leaves alone *)

\* Leaving or continuing changes the label of d only.
LEMMA Moves ==
  ASSUME TypeOK, NEW d \in Drivers, NEW label, Leave(d, label) \/ Continue(d, label)
  PROVE  /\ pc'[d] = label
         /\ \A e \in Drivers \ {d} : pc'[e] = pc[e] /\ exit'[e] = exit[e]
  BY DEF Leave, Continue, TypeOK

\* Writing an artifact adds it to one directory.
LEMMA Puts ==
  ASSUME TypeOK, NEW r \in RunDirs, NEW a, Put(r, a)
  PROVE  /\ files'[r] = files[r] \cup {a}
         /\ \A q \in RunDirs \ {r} : files'[q] = files[q]
  BY DEF Put, TypeOK

\* A step of d does not touch the processes of another driver.
LEMMA ProcessFrame ==
  ASSUME TypeOK, NEW d \in Drivers, Step(d), NEW e \in Drivers, e # d
  PROVE  /\ pc'[e] = pc[e] /\ script'[e] = script[e] /\ live'[e] = live[e]
         /\ exit'[e] = exit[e] /\ asm'[e] = asm[e] /\ draft'[e] = draft[e]
<1>1. CASE Check(d) \/ TrySlot(d) \/ Poll(d) \/ Mkdir(d)
  BY <1>1, Moves DEF Check, TrySlot, Poll, Mkdir, TypeOK
<1>2. CASE Launch(d) \/ Interrupt(d) \/ Kill(d) \/ Reap(d) \/ Cleanup(d)
  BY <1>2, Moves DEF Launch, Interrupt, Kill, Reap, Cleanup, TypeOK
<1>3. CASE Finalize(d) \/ WriteMetadata(d) \/ StartAssembly(d) \/ Return(d)
  BY <1>3, Moves DEF Finalize, WriteMetadata, StartAssembly, Return, TypeOK
<1>4. CASE ScriptStep(d)
  BY <1>4 DEF ScriptStep, Setup, AgentEnds, AgentTimesOut, Trap, ScriptExit, TypeOK
<1>5. CASE AsmStep(d)
  BY <1>5 DEF AsmStep, AsmRead, AsmEvaluate, AsmCompose, TypeOK
<1>6. CASE Signal(d) \/ Tick(d) \/ Crash(d)
  BY <1>6, Moves DEF Signal, Tick, Crash, TypeOK
<1> QED
  BY <1>1, <1>2, <1>3, <1>4, <1>5, <1>6 DEF Step, DriverStep

\* A directory changes hands only by Mkdir, from nobody to the caller.
LEMMA OwnerFrame ==
  ASSUME TypeOK, NEW d \in Drivers, Step(d), NEW r \in RunDirs, owner'[r] # owner[r]
  PROVE  /\ owner[r] = NoDriver /\ owner'[r] = d /\ r = RunDirOf[d]
         /\ Mkdir(d)
<1>1. CASE Mkdir(d)
  BY <1>1 DEF Mkdir, TypeOK
<1>2. CASE ~Mkdir(d)
  <2>1. owner' = owner
    BY <1>2 DEF Step, DriverStep, Check, TrySlot, Poll, Launch, Interrupt, Kill, Reap, Cleanup,
           Finalize, WriteMetadata, StartAssembly, Return, ScriptStep, Setup, AgentEnds,
           AgentTimesOut, Trap, ScriptExit, AsmStep, AsmRead, AsmEvaluate, AsmCompose,
           Signal, Tick, Crash
  <2> QED
    BY <2>1
<1> QED
  BY <1>1, <1>2

\* A step of d changes the contents of d's own directory only, and only if d
\* created it.
LEMMA DiskFrame ==
  ASSUME TypeOK, NEW d \in Drivers, Ownership(d), Step(d), NEW r \in RunDirs,
         r # RunDirOf[d] \/ owner[r] # d
  PROVE  /\ files'[r] = files[r] /\ meta'[r] = meta[r]
         /\ evals'[r] = evals[r] /\ result'[r] = result[r]
<1>0. RunDirOf[d] \in RunDirs
  OBVIOUS
<1>1. CASE Finalize(d) \/ WriteMetadata(d) \/ StartAssembly(d)
  <2>1. r # RunDirOf[d]
    BY <1>1 DEF Finalize, WriteMetadata, StartAssembly, Ownership, Owning, Holding
  <2> QED
    BY <1>0, <1>1, <2>1, Puts DEF Finalize, WriteMetadata, StartAssembly, TypeOK
<1>2. CASE AsmStep(d)
  <2>1. r # RunDirOf[d]
    BY <1>2 DEF AsmStep, AsmRead, AsmEvaluate, AsmCompose, Ownership
  <2> QED
    BY <1>0, <1>2, <2>1, Puts DEF AsmStep, AsmRead, AsmEvaluate, AsmCompose, TypeOK
<1>3. CASE ~(Finalize(d) \/ WriteMetadata(d) \/ StartAssembly(d) \/ AsmStep(d))
  BY <1>3 DEF Step, DriverStep, Check, TrySlot, Poll, Mkdir, Launch, Interrupt, Kill, Reap,
         Cleanup, Return, ScriptStep, Setup, AgentEnds, AgentTimesOut, Trap, ScriptExit,
         Signal, Tick, Crash
<1> QED
  BY <1>1, <1>2, <1>3

-----------------------------------------------------------------------------
(* Slots and directories *)

\* Only d's own flock changes: it takes a free slot or drops the one it holds.
LEMMA SlotFrame ==
  ASSUME TypeOK, NEW d \in Drivers, Step(d), NEW e \in Drivers, e # d,
         NEW s \in Slots, holder[s] = e
  PROVE  holder'[s] = e
<1>1. CASE \E label : Leave(d, label)
  BY <1>1 DEF Leave, TypeOK
<1>2. CASE TrySlot(d)
  BY <1>1, <1>2 DEF TrySlot, TypeOK
<1>3. CASE UNCHANGED holder
  BY <1>3
<1> QED
  BY <1>1, <1>2, <1>3 DEF Step, DriverStep, Check, Poll, Mkdir, Launch, Interrupt, Kill, Reap,
     Cleanup, Finalize, WriteMetadata, StartAssembly, Return, ScriptStep, Setup, AgentEnds,
     AgentTimesOut, Trap, ScriptExit, AsmStep, AsmRead, AsmEvaluate, AsmCompose, Signal, Tick,
     Crash, Continue

\* A driver that is past acquireSlot after its step either held its slot before
\* and kept it or has just taken it.
LEMMA SlotKept ==
  ASSUME TypeOK, SlotHeld, NEW d \in Drivers, Step(d), pc'[d] \in Holding
  PROVE  \E s \in Slots : holder'[s] = d
<1>1. CASE TrySlot(d)
  <2>1. ~Leave(d, "error")
    BY Moves DEF Holding
  <2>2. holder[attempt[d]] = NoDriver
    BY <1>1, <2>1 DEF TrySlot, TypeOK, Holding
  <2>3. attempt[d] \in Slots /\ holder'[attempt[d]] = d
    BY <1>1, <2>1, <2>2 DEF TrySlot, TypeOK
  <2> QED
    BY <2>3
<1>2. CASE \E label \in Ended : Leave(d, label)
  BY <1>2, Moves DEF Ended, Holding
<1>3. CASE UNCHANGED holder /\ pc[d] \in Holding
  BY <1>3 DEF SlotHeld
<1>4. CASE Check(d) \/ Poll(d)
  BY <1>4, Moves DEF Check, Poll, Holding, TypeOK
<1>5. CASE Mkdir(d) \/ Launch(d) \/ Interrupt(d) \/ Kill(d) \/ Reap(d) \/ Cleanup(d)
  BY <1>2, <1>3, <1>5 DEF Mkdir, Launch, Interrupt, Kill, Reap, Cleanup, Continue, Holding, Ended
<1>6. CASE Finalize(d) \/ WriteMetadata(d) \/ StartAssembly(d) \/ Return(d)
  BY <1>2, <1>3, <1>6 DEF Finalize, WriteMetadata, StartAssembly, Return, Continue, Holding, Ended
<1>7. CASE UNCHANGED <<pc, holder>>
  BY <1>7 DEF SlotHeld
<1>8. CASE Crash(d)
  BY <1>2, <1>8 DEF Crash, Ended
<1>9. CASE ScriptStep(d) \/ AsmStep(d) \/ Signal(d) \/ Tick(d)
  BY <1>7, <1>9 DEF ScriptStep, Setup, AgentEnds, AgentTimesOut, Trap, ScriptExit, AsmStep,
     AsmRead, AsmEvaluate, AsmCompose, Signal, Tick
<1> QED
  BY <1>1, <1>4, <1>5, <1>6, <1>8, <1>9 DEF Step, DriverStep

\* Slots stay held under every step of every driver.
LEMMA SlotStep ==
  ASSUME TypeOK, SlotHeld, NEW d \in Drivers, Step(d)
  PROVE  SlotHeld'
<1> SUFFICES ASSUME NEW e \in Drivers, pc'[e] \in Holding
             PROVE  \E s \in Slots : holder'[s] = e
  BY DEF SlotHeld
<1>1. CASE e = d
  BY <1>1, SlotKept
<1>2. CASE e # d
  <2>1. PICK s \in Slots : holder[s] = e
    BY <1>2, ProcessFrame DEF SlotHeld
  <2> QED
    BY <1>2, <2>1, SlotFrame
<1> QED
  BY <1>1, <1>2

\* A created directory belongs to one of the drivers it was given to, and the
\* others stay empty.
LEMMA DirectoryStep ==
  ASSUME TypeOK, OwnersMatch, Unclaimed, NEW d \in Drivers, Ownership(d), Step(d)
  PROVE  OwnersMatch' /\ Unclaimed'
<1>1. OwnersMatch'
  BY OwnerFrame DEF OwnersMatch
<1>2. ASSUME NEW r \in RunDirs, owner'[r] = NoDriver
      PROVE  owner[r] = NoDriver
  BY <1>2, OwnerFrame
<1>3. Unclaimed'
  BY <1>2, DiskFrame DEF Unclaimed
<1> QED
  BY <1>1, <1>3

-----------------------------------------------------------------------------
(* Local(e) under a step of another driver *)

\* Nothing another driver does disturbs what holds of e.
LEMMA OtherStep ==
  ASSUME TypeOK, NEW d \in Drivers, Ownership(d), Step(d),
         NEW e \in Drivers, e # d, Local(e)
  PROVE  Local(e)'
<1> DEFINE r == RunDirOf[e]
<1>1. /\ pc'[e] = pc[e] /\ script'[e] = script[e] /\ live'[e] = live[e]
      /\ exit'[e] = exit[e] /\ asm'[e] = asm[e] /\ draft'[e] = draft[e]
  BY ProcessFrame
<1>2. r \in RunDirs
  OBVIOUS
<1>3. CASE owner[r] = e
  <2>1. owner'[r] = e
    BY <1>2, <1>3, OwnerFrame
  <2>2. /\ files'[r] = files[r] /\ meta'[r] = meta[r]
        /\ evals'[r] = evals[r] /\ result'[r] = result[r]
    BY <1>2, <1>3, DiskFrame
  <2>3. Ownership(e)'
    BY <1>1, <1>3, <2>1 DEF Local, Ownership
  <2>4. Progress(e)'
    BY <1>1, <1>3, <2>1, <2>2 DEF Local, Progress, DriverProgress, AsmProgress, Backed
  <2>5. Quiescence(e)'
    BY <1>1, <1>3, <2>1, <2>2 DEF Local, Quiescence, Stopped
  <2> QED
    BY <2>3, <2>4, <2>5 DEF Local
<1>4. CASE owner[r] # e
  <2>1. owner'[r] # e
    BY <1>2, <1>4, OwnerFrame
  <2>2. Ownership(e)'
    BY <1>1, <1>4, <2>1 DEF Local, Ownership
  <2>3. Progress(e)'
    BY <1>1, <1>4, <2>1 DEF Local, Progress
  <2>4. Quiescence(e)'
    BY <1>1, <1>4, <2>1 DEF Local, Quiescence, Stopped
  <2> QED
    BY <2>2, <2>3, <2>4 DEF Local
<1> QED
  BY <1>3, <1>4

-----------------------------------------------------------------------------
(* Local(d) under a step of d itself *)

\* Nothing but the label, the slot and the locals of d changes: what remains to
\* be shown is that the new label asks for nothing the old one did not give.
LEMMA LeaveLocal ==
  ASSUME TypeOK, NEW d \in Drivers, Local(d), NEW label \in {"error", "crashed"},
         Leave(d, label), UNCHANGED <<scriptVars, asmVars, diskVars>>,
         pc[d] \notin {"done"}
  PROVE  Local(d)'
<1>1. pc'[d] = label
  BY Moves
<1>2. Ownership(d)'
  BY <1>1 DEF Local, Ownership, Owning, Holding
<1>3. Progress(d)'
  BY <1>1 DEF Local, Progress, DriverProgress, AsmProgress, Backed, Owning, Holding
<1>4. Quiescence(d)'
  BY <1>1 DEF Local, Quiescence, Stopped
<1> QED
  BY <1>2, <1>3, <1>4 DEF Local

\* The driver before it owns a directory, and Mkdir.
LEMMA AcquireLocal ==
  ASSUME TypeOK, Unclaimed, NEW d \in Drivers, Local(d),
         Check(d) \/ TrySlot(d) \/ Poll(d) \/ Mkdir(d)
  PROVE  Local(d)'
<1> DEFINE r == RunDirOf[d]
<1>0. r \in RunDirs /\ r \in DOMAIN owner
  BY DEF TypeOK
<1>1. CASE \E label \in {"error"} : Leave(d, label) /\ UNCHANGED <<scriptVars, asmVars, diskVars>>
  BY <1>1, LeaveLocal DEF Check, TrySlot, Poll, Mkdir
<1>2. CASE Mkdir(d) /\ owner[r] = NoDriver
  <2>1. /\ pc'[d] = "prepare" /\ owner'[r] = d
        /\ UNCHANGED <<script, live, exit, asm, draft, files, meta, evals, result>>
    BY <1>0, <1>2, Moves DEF Mkdir, Continue, TypeOK
  <2>2. script[d] = "none" /\ asm[d] = "none"
    BY <1>2 DEF Local, Ownership
  <2>3. files[r] = {} /\ meta[r] = NoMeta /\ evals[r] = 0 /\ result[r] = NoStatus
    BY <1>0, <1>2 DEF Unclaimed
  <2>4. Ownership(d)'
    BY <2>1 DEF Ownership
  <2>5. Progress(d)'
    BY <2>1, <2>2, <2>3 DEF Progress, DriverProgress, AsmProgress
  <2>6. Quiescence(d)'
    BY <2>1, <2>2, <2>3 DEF Quiescence, NoMeta, NoStatus, Evaluated
  <2> QED
    BY <2>4, <2>5, <2>6 DEF Local
<1>3. CASE /\ pc[d] \in {"idle", "acquire"} /\ pc'[d] \in {"acquire", "mkdir"}
           /\ UNCHANGED <<script, live, exit, asm, draft, owner, files, meta, evals, result>>
  <2>1. Ownership(d)'
    BY <1>3 DEF Local, Ownership, Owning, Holding
  <2>2. owner[r] # d
    BY <1>3 DEF Local, Ownership
  <2>3. Progress(d)'
    BY <1>3, <2>2 DEF Progress
  <2>4. Quiescence(d)'
    BY <1>3, <2>2 DEF Quiescence
  <2> QED
    BY <2>1, <2>3, <2>4 DEF Local
<1>4. CASE Check(d)
  BY <1>1, <1>3, <1>4, Moves DEF Check, Continue
<1>5. CASE TrySlot(d)
  BY <1>1, <1>3, <1>5 DEF TrySlot, TypeOK
<1>6. CASE Poll(d)
  BY <1>1, <1>3, <1>6 DEF Poll
<1>7. CASE Mkdir(d)
  BY <1>1, <1>2, <1>7 DEF Mkdir
<1> QED
  BY <1>4, <1>5, <1>6, <1>7

\* The candidate phase and its cleanup.
LEMMA CandidateLocal ==
  ASSUME TypeOK, NEW d \in Drivers, Local(d),
         Launch(d) \/ Interrupt(d) \/ Kill(d) \/ Reap(d) \/ Cleanup(d)
  PROVE  Local(d)'
<1> DEFINE r == RunDirOf[d]
<1>1. CASE Launch(d) /\ Leave(d, "error")
  <2>1. pc'[d] = "error"
    BY <1>1, Moves
  <2>2. pc[d] = "prepare" /\ UNCHANGED <<scriptVars, asmVars, diskVars>>
    BY <1>1, <2>1 DEF Launch, Continue, TypeOK
  <2> QED
    BY <1>1, <2>2, LeaveLocal
<1>2. CASE ~(Launch(d) /\ Leave(d, "error"))
  <2>1. /\ pc[d] \in {"prepare", "candidate", "interrupted", "cleanup"}
        /\ pc'[d] \in {"candidate", "interrupted", "cleanup", "finalize"}
        /\ UNCHANGED <<asm, draft, owner, files, meta, evals, result>>
    BY <1>2 DEF Launch, Interrupt, Kill, Reap, Cleanup, Continue, TypeOK
  <2>2. owner[r] = d /\ meta[r] = NoMeta
    BY <2>1 DEF Local, Ownership, Owning, Holding, Progress, DriverProgress
  <2>3. Ownership(d)'
    BY <2>1, <2>2 DEF Ownership
  <2>4. Progress(d)'
    BY <2>1, <2>2 DEF Local, Progress, DriverProgress, AsmProgress, Backed, Owning, Holding
  <2>5. meta'[r].status \notin Evaluated
    BY <2>1, <2>2 DEF NoMeta, NoStatus, Evaluated
  <2>6. Quiescence(d)'
    <3>1. CASE Launch(d)
      <4>1. CASE Continue(d, "candidate")
        BY <2>5, <4>1, Moves DEF Quiescence
      <4>2. CASE ~Continue(d, "candidate")
        <5>1. /\ pc' = [pc EXCEPT ![d] = "cleanup"] /\ exit' = [exit EXCEPT ![d] = 71]
              /\ UNCHANGED script
          BY <1>2, <3>1, <4>2 DEF Launch
        <5>2. pc'[d] = "cleanup" /\ exit'[d] = 71 /\ script'[d] = "none"
          BY <3>1, <5>1 DEF Launch, Local, Quiescence, TypeOK
        <5> QED
          BY <2>5, <5>2 DEF Quiescence
      <4> QED
        BY <4>1, <4>2
    <3>2. CASE Interrupt(d) \/ Kill(d)
      <4>1. pc'[d] = "interrupted"
        BY <3>2, Moves DEF Interrupt, Kill, TypeOK
      <4> QED
        BY <2>5, <4>1 DEF Quiescence
    <3>3. CASE Reap(d)
      BY <2>5, <3>3 DEF Reap, Quiescence, TypeOK
    <3>4. CASE Cleanup(d)
      <4>1. pc'[d] = "finalize" /\ script' = script
        <5>1. pc' = [pc EXCEPT ![d] = "finalize"] /\ script' = script
          BY <3>4 DEF Cleanup
        <5> QED
          BY <5>1 DEF TypeOK
      <4>2. script[d] = "exited" \/ (script[d] = "none" /\ exit[d] = 71)
        BY <3>4 DEF Cleanup, Local, Quiescence
      <4>3. CASE exit' = [exit EXCEPT ![d] = 71]
        <5>1. exit'[d] = 71
          BY <4>3 DEF TypeOK
        <5> QED
          BY <2>5, <4>1, <4>2, <5>1 DEF Quiescence
      <4>4. CASE exit' = exit /\ \E l \in Leftovers(d) : live' = [live EXCEPT ![d] = l]
        <5>1. RemovalMayFail \/ ~live'[d]
          BY <4>4 DEF Leftovers, TypeOK
        <5> QED
          BY <2>5, <4>1, <4>2, <4>4, <5>1 DEF Quiescence, Stopped
      <4> QED
        BY <3>4, <4>3, <4>4 DEF Cleanup
    <3> QED
      BY <3>1, <3>2, <3>3, <3>4
  <2> QED
    BY <2>3, <2>4, <2>6 DEF Local
<1> QED
  BY <1>1, <1>2

\* final.patch is there before metadata.json is written.
LEMMA FinalizeLocal ==
  ASSUME TypeOK, NEW d \in Drivers, Local(d), Finalize(d)
  PROVE  Local(d)'
<1> DEFINE r == RunDirOf[d]
<1>0. r \in RunDirs
  OBVIOUS
<1>1. CASE Leave(d, "error") /\ UNCHANGED files
  BY <1>1, LeaveLocal DEF Finalize
<1>2. CASE ~(Leave(d, "error") /\ UNCHANGED files)
  <2>1. /\ pc[d] = "finalize" /\ pc'[d] = "metadata"
        /\ UNCHANGED <<script, live, exit, asm, draft, owner, meta, evals, result>>
    BY <1>2 DEF Finalize, TypeOK
  <2>2. files'[r] = files[r] \cup {"final.patch"}
    BY <1>0, <1>2, Puts DEF Finalize
  <2>3. owner[r] = d /\ asm[d] = "none" /\ meta[r] = NoMeta
    BY <2>1 DEF Local, Ownership, Owning, Holding, Progress, DriverProgress
  <2>4. Ownership(d)'
    BY <2>1, <2>3 DEF Ownership
  <2>5. Progress(d)'
    BY <2>1, <2>2, <2>3 DEF Local, Progress, DriverProgress, AsmProgress
  <2>6. Quiescence(d)'
    BY <2>1 DEF Local, Quiescence, Stopped
  <2> QED
    BY <2>4, <2>5, <2>6 DEF Local
<1> QED
  BY <1>1, <1>2

\* The recorded status is evaluable only if the exit code is 0 or 124.
LEMMA Classified ==
  ASSUME NEW code
  PROVE  /\ Classify(code) \in Status
         /\ Classify(code) \in Evaluated => code \in {0, 124}
  BY DEF Classify, Status, Evaluated, Failed

\* An evaluable status is recorded only for a stopped candidate.
LEMMA MetadataLocal ==
  ASSUME TypeOK, NEW d \in Drivers, Local(d), WriteMetadata(d)
  PROVE  Local(d)'
<1> DEFINE r == RunDirOf[d]
<1>0. r \in RunDirs
  OBVIOUS
<1>1. CASE Leave(d, "error") /\ UNCHANGED <<meta, files>>
  BY <1>1, LeaveLocal DEF WriteMetadata
<1>2. CASE ~(Leave(d, "error") /\ UNCHANGED <<meta, files>>)
  <2>1. /\ pc[d] = "metadata" /\ pc'[d] = "marker"
        /\ UNCHANGED <<script, live, exit, asm, draft, owner, evals, result>>
    BY <1>2, Moves DEF WriteMetadata, Continue
  <2>2. files'[r] = files[r] \cup {"metadata.json"}
    BY <1>0, <1>2, Puts DEF WriteMetadata
  <2>3. meta'[r].status = IF unsafe[d] THEN "harness-failure" ELSE Classify(exit[d])
    BY <1>0, <1>2 DEF WriteMetadata, TypeOK
  <2>4. owner[r] = d /\ asm[d] = "none"
    BY <2>1 DEF Local, Ownership, Owning, Holding, Progress, DriverProgress
  <2>5. meta'[r].status \in Status
    BY <2>3, Classified DEF Status, Failed
  <2>6. Ownership(d)'
    BY <2>1, <2>4 DEF Ownership
  <2>7. Progress(d)'
    BY <2>1, <2>2, <2>4, <2>5 DEF Local, Progress, DriverProgress, AsmProgress, Owning, Holding
  <2>8. Quiescence(d)'
    <3>1. meta'[r].status \in Evaluated => exit[d] \in {0, 124}
      BY <2>3, Classified DEF Evaluated
    <3> QED
      BY <2>1, <3>1 DEF Local, Quiescence, Stopped
  <2> QED
    BY <2>6, <2>7, <2>8 DEF Local
<1> QED
  BY <1>1, <1>2

\* The assembler starts on a recorded run without a marker.
LEMMA StartAssemblyLocal ==
  ASSUME TypeOK, NEW d \in Drivers, Local(d), StartAssembly(d)
  PROVE  Local(d)'
<1> DEFINE r == RunDirOf[d]
<1>0. r \in RunDirs
  OBVIOUS
<1>1. CASE Leave(d, "error") /\ UNCHANGED <<files, asm>>
  BY <1>1, LeaveLocal DEF StartAssembly
<1>2. CASE ~(Leave(d, "error") /\ UNCHANGED <<files, asm>>)
  <2>1. /\ pc[d] = "marker" /\ pc'[d] = "assembly" /\ asm'[d] = "read"
        /\ UNCHANGED <<script, live, exit, draft, owner, meta, evals, result>>
    BY <1>2, Moves DEF StartAssembly, Continue, TypeOK
  <2>2. files'[r] = files[r] \cup {".finalization-started"}
    BY <1>0, <1>2, Puts DEF StartAssembly
  <2>3. owner[r] = d /\ asm[d] = "none"
    BY <2>1 DEF Local, Ownership, Owning, Holding, Progress, DriverProgress
  <2>4. Ownership(d)'
    BY <2>1, <2>3 DEF Ownership
  <2>5. Progress(d)'
    BY <2>1, <2>2, <2>3 DEF Local, Progress, DriverProgress, AsmProgress, Owning, Holding
  <2>6. Quiescence(d)'
    BY <2>1 DEF Local, Quiescence, Stopped
  <2> QED
    BY <2>4, <2>5, <2>6 DEF Local
<1> QED
  BY <1>1, <1>2

\* The driver ends with success only after an assembler that published.
LEMMA ReturnLocal ==
  ASSUME TypeOK, NEW d \in Drivers, Local(d), Return(d)
  PROVE  Local(d)'
<1>1. CASE Leave(d, "error")
  BY <1>1, LeaveLocal DEF Return
<1>2. CASE ~Leave(d, "error")
  <2>1. /\ pc'[d] = "done" /\ pc[d] = "assembly" /\ asm[d] = "ok"
        /\ UNCHANGED <<script, live, asm, draft, owner, files, meta, evals, result>>
    BY <1>2, Moves DEF Return
  <2>2. Ownership(d)'
    BY <2>1 DEF Local, Ownership, Owning, Holding
  <2>3. Progress(d)'
    BY <2>1 DEF Local, Progress, DriverProgress, AsmProgress, Backed, Owning, Holding
  <2>4. Quiescence(d)'
    BY <2>1 DEF Local, Quiescence, Stopped
  <2> QED
    BY <2>2, <2>3, <2>4 DEF Local
<1> QED
  BY <1>1, <1>2

\* The runner script acts on runs that are not yet recorded as evaluable.
LEMMA ScriptLocal ==
  ASSUME TypeOK, NEW d \in Drivers, Local(d), ScriptStep(d)
  PROVE  Local(d)'
<1>1. /\ script[d] \in ScriptRunning /\ script'[d] # "none"
      /\ UNCHANGED <<pc, asm, draft, owner, files, meta, evals, result>>
  BY DEF ScriptStep, Setup, AgentEnds, AgentTimesOut, Trap, ScriptExit, ScriptRunning, TypeOK
<1>2. /\ pc[d] \notin {"prepare", "cleanup", "finalize", "metadata"}
      /\ owner[RunDirOf[d]] = d /\ meta[RunDirOf[d]].status \notin Evaluated
  BY <1>1 DEF Local, Ownership, Quiescence, Stopped, ScriptRunning
<1>3. Ownership(d)'
  BY <1>1, <1>2 DEF Local, Ownership
<1>4. Progress(d)'
  BY <1>1 DEF Local, Progress, DriverProgress, AsmProgress, Backed
<1>5. Quiescence(d)'
  BY <1>1, <1>2 DEF Quiescence
<1> QED
  BY <1>3, <1>4, <1>5 DEF Local

\* What every assembler step keeps: the assembler runs, so its driver created
\* the directory, and the driver's own label is past StartAssembly.
LEMMA AsmContext ==
  ASSUME TypeOK, NEW d \in Drivers, Local(d), AsmStep(d)
  PROVE  /\ UNCHANGED <<pc, script, live, exit, owner, meta>>
         /\ owner[RunDirOf[d]] = d /\ asm[d] # "none" /\ asm'[d] # "none"
         /\ pc[d] \notin Owning \ {"assembly"} /\ pc[d] # "done"
         /\ Ownership(d)' /\ Quiescence(d)'
         /\ DriverProgress(d, RunDirOf[d])'
<1>1. /\ UNCHANGED <<pc, script, live, exit, owner, meta>>
      /\ asm[d] \in AsmRunning /\ asm'[d] # "none"
  BY DEF AsmStep, AsmRead, AsmEvaluate, AsmCompose, AsmRunning, TypeOK
<1>2. owner[RunDirOf[d]] = d
  BY <1>1 DEF Local, Ownership, AsmRunning
<1>3. pc[d] \notin Owning \ {"assembly"} /\ pc[d] # "done"
  BY <1>1, <1>2 DEF Local, Progress, DriverProgress, AsmRunning
<1>4. Ownership(d)' /\ Quiescence(d)'
  BY <1>1, <1>2 DEF Local, Ownership, Quiescence, Stopped
<1>5. DriverProgress(d, RunDirOf[d])'
  BY <1>1, <1>3 DEF DriverProgress, Owning, Holding
<1> QED
  BY <1>1, <1>2, <1>3, <1>4, <1>5 DEF AsmRunning

\* The first and only evaluation starts here.
LEMMA AsmReadLocal ==
  ASSUME TypeOK, NEW d \in Drivers, Local(d), AsmRead(d)
  PROVE  Local(d)'
<1> DEFINE r == RunDirOf[d]
<1>0. r \in RunDirs
  OBVIOUS
<1>1. /\ UNCHANGED <<pc, script, live, exit, owner, meta>> /\ owner[r] = d
      /\ pc[d] # "done" /\ Ownership(d)' /\ Quiescence(d)' /\ DriverProgress(d, r)'
  BY AsmContext DEF AsmStep
<1>2. /\ evals[r] = 0 /\ result[r] = NoStatus /\ result' = result
      /\ meta[r].status \in Status
      /\ {"final.patch", "metadata.json", ".finalization-started"} \subseteq files[r]
  BY <1>1 DEF AsmRead, Local, Progress, AsmProgress
<1>3. AsmProgress(d, r)'
  <2>1. CASE asm'[d] = "failed" /\ UNCHANGED <<files, evals>>
    BY <1>1, <1>2, <2>1 DEF AsmProgress
  <2>2. CASE /\ asm'[d] = "evaluate" /\ draft'[d] = meta[r].status /\ evals'[r] = 1
             /\ meta[r].status \in Evaluated /\ UNCHANGED files
    BY <1>1, <1>2, <2>2 DEF AsmProgress
  <2>3. CASE /\ asm'[d] = "compose" /\ draft'[d] = meta[r].status /\ UNCHANGED evals
             /\ meta[r].status \in Failed /\ files'[r] = files[r] \cup {"evaluation.json"}
    BY <1>1, <1>2, <2>3 DEF AsmProgress, Backed
  <2>4. \/ asm'[d] = "failed" /\ UNCHANGED <<files, evals>>
        \/ /\ asm'[d] = "evaluate" /\ draft'[d] = meta[r].status /\ evals'[r] = 1
           /\ meta[r].status \in Evaluated /\ UNCHANGED files
        \/ /\ asm'[d] = "compose" /\ draft'[d] = meta[r].status /\ UNCHANGED evals
           /\ meta[r].status \in Failed /\ files'[r] = files[r] \cup {"evaluation.json"}
    BY <1>0, <1>2, Puts DEF AsmRead, TypeOK
  <2> QED
    BY <2>1, <2>2, <2>3, <2>4
<1> QED
  BY <1>1, <1>3 DEF Local, Progress

\* The evaluation may replace the status by a failure, nothing else.
LEMMA AsmEvaluateLocal ==
  ASSUME TypeOK, NEW d \in Drivers, Local(d), AsmEvaluate(d)
  PROVE  Local(d)'
<1> DEFINE r == RunDirOf[d]
<1>0. r \in RunDirs
  OBVIOUS
<1>1. /\ UNCHANGED <<pc, script, live, exit, owner, meta>> /\ owner[r] = d
      /\ pc[d] # "done" /\ Ownership(d)' /\ Quiescence(d)' /\ DriverProgress(d, r)'
  BY AsmContext DEF AsmStep
<1>2. /\ evals[r] = 1 /\ evals' = evals /\ result[r] = NoStatus /\ result' = result
      /\ meta[r].status \in Status /\ meta[r].status \in Evaluated
      /\ draft[d] = meta[r].status
      /\ {"final.patch", "metadata.json", ".finalization-started"} \subseteq files[r]
  BY <1>1 DEF AsmEvaluate, Local, Progress, AsmProgress
<1>3. AsmProgress(d, r)'
  <2>1. CASE asm'[d] = "failed" /\ UNCHANGED files
    BY <1>1, <1>2, <2>1 DEF AsmProgress
  <2>2. CASE /\ asm'[d] = "compose" /\ draft'[d] \in {draft[d]} \cup Failed
             /\ files'[r] = files[r] \cup {"evaluation.json"}
    BY <1>1, <1>2, <2>2 DEF AsmProgress, Backed
  <2>3. \/ asm'[d] = "failed" /\ UNCHANGED files
        \/ /\ asm'[d] = "compose" /\ draft'[d] \in {draft[d]} \cup Failed
           /\ files'[r] = files[r] \cup {"evaluation.json"}
    BY <1>0, Puts DEF AsmEvaluate, TypeOK
  <2> QED
    BY <2>1, <2>2, <2>3
<1> QED
  BY <1>1, <1>3 DEF Local, Progress

\* What is published is what the draft is backed by.
LEMMA AsmComposeLocal ==
  ASSUME TypeOK, NEW d \in Drivers, Local(d), AsmCompose(d)
  PROVE  Local(d)'
<1> DEFINE r == RunDirOf[d]
<1>0. r \in RunDirs
  OBVIOUS
<1>1. /\ UNCHANGED <<pc, script, live, exit, owner, meta>> /\ owner[r] = d
      /\ pc[d] # "done" /\ Ownership(d)' /\ Quiescence(d)' /\ DriverProgress(d, r)'
  BY AsmContext DEF AsmStep
<1>2. /\ evals' = evals /\ result[r] = NoStatus /\ meta[r].status \in Status
      /\ Backed(r, draft[d])
      /\ {"final.patch", "metadata.json", ".finalization-started", "evaluation.json"}
         \subseteq files[r]
  BY <1>1 DEF AsmCompose, Local, Progress, AsmProgress
<1>3. AsmProgress(d, r)'
  <2>1. CASE /\ asm'[d] = "failed" /\ UNCHANGED result
             /\ files'[r] \in {files[r], files[r] \cup {"run-result.json"}}
    BY <1>1, <1>2, <2>1 DEF AsmProgress, Backed, Failed, Evaluated
  <2>2. CASE /\ asm'[d] = "ok" /\ result'[r] = draft[d]
             /\ files'[r] = files[r] \cup {"run-result.json"}
    <3>1. files'[r] = Artifacts
      BY <1>0, <1>2, <2>2 DEF Artifacts, TypeOK
    <3>2. Backed(r, result[r])'
      BY <1>1, <1>2, <2>2 DEF Backed
    <3> QED
      BY <1>1, <1>2, <2>2, <3>1, <3>2 DEF AsmProgress, Artifacts
  <2>3. \/ /\ asm'[d] = "failed" /\ UNCHANGED result
           /\ files'[r] \in {files[r], files[r] \cup {"run-result.json"}}
        \/ /\ asm'[d] = "ok" /\ result'[r] = draft[d]
           /\ files'[r] = files[r] \cup {"run-result.json"}
    BY <1>0, Puts DEF AsmCompose, TypeOK
  <2> QED
    BY <2>1, <2>2, <2>3
<1> QED
  BY <1>1, <1>3 DEF Local, Progress

\* Signals and time change nothing the invariant speaks about; a crash
\* forgets the driver only.
LEMMA EnvironmentLocal ==
  ASSUME TypeOK, NEW d \in Drivers, Local(d), Signal(d) \/ Tick(d) \/ Crash(d)
  PROVE  Local(d)'
<1>1. CASE Crash(d)
  BY <1>1, LeaveLocal DEF Crash, Ended
<1>2. CASE UNCHANGED <<pc, script, live, exit, asmVars, diskVars>>
  <2>1. Ownership(d)'
    BY <1>2 DEF Local, Ownership
  <2>2. Progress(d)'
    BY <1>2 DEF Local, Progress, DriverProgress, AsmProgress, Backed
  <2>3. Quiescence(d)'
    BY <1>2 DEF Local, Quiescence, Stopped
  <2> QED
    BY <2>1, <2>2, <2>3 DEF Local
<1> QED
  BY <1>1, <1>2 DEF Signal, Tick

-----------------------------------------------------------------------------
(* The invariant *)

\* A step of d keeps what holds of d.
LEMMA LocalStep ==
  ASSUME TypeOK, Unclaimed, NEW d \in Drivers, Local(d), Step(d)
  PROVE  Local(d)'
  BY AcquireLocal, CandidateLocal, FinalizeLocal, MetadataLocal, StartAssemblyLocal,
     ReturnLocal, ScriptLocal, AsmReadLocal, AsmEvaluateLocal, AsmComposeLocal,
     EnvironmentLocal DEF Step, DriverStep, AsmStep

\* The invariant holds initially.
LEMMA InvInit == Init => IInv
<1> SUFFICES ASSUME Init PROVE IInv
  OBVIOUS
<1>1. TypeOK
  BY TypeInit
<1>2. SlotHeld /\ OwnersMatch /\ Unclaimed
  BY DEF Init, SlotHeld, OwnersMatch, Unclaimed, Holding
<1>3. ASSUME NEW d \in Drivers PROVE Local(d)
  <2>1. /\ pc[d] = "idle" /\ script[d] = "none" /\ asm[d] = "none"
        /\ owner[RunDirOf[d]] = NoDriver /\ NoDriver # d
    BY DEF Init
  <2> QED
    BY <2>1 DEF Local, Ownership, Progress, Quiescence, Owning, Holding
<1> QED
  BY <1>1, <1>2, <1>3 DEF IInv

\* Every action, with the driver that takes it.
LEMMA NextSteps ==
  ASSUME [Next]_vars
  PROVE  UNCHANGED vars \/ \E d \in Drivers : Step(d)
  BY DEF Next, Terminated, Step

\* The invariant is inductive.
LEMMA InvStep == IInv /\ [Next]_vars => IInv'
<1> SUFFICES ASSUME IInv, [Next]_vars PROVE IInv'
  OBVIOUS
<1>1. TypeOK'
  BY TypeStep DEF IInv
<1>2. CASE UNCHANGED vars
  <2>1. (SlotHeld /\ OwnersMatch /\ Unclaimed)'
    BY <1>2 DEF IInv, vars, SlotHeld, OwnersMatch, Unclaimed
  <2>2. ASSUME NEW d \in Drivers PROVE Local(d)'
    <3>1. Local(d)
      BY DEF IInv
    <3>2. Ownership(d)'
      BY <1>2, <3>1 DEF vars, Local, Ownership
    <3>3. Progress(d)'
      BY <1>2, <3>1 DEF vars, Local, Progress, DriverProgress, AsmProgress, Backed
    <3>4. Quiescence(d)'
      BY <1>2, <3>1 DEF vars, Local, Quiescence, Stopped
    <3> QED
      BY <3>2, <3>3, <3>4 DEF Local
  <2> QED
    BY <1>1, <2>1, <2>2 DEF IInv
<1>3. ASSUME NEW d \in Drivers, Step(d) PROVE IInv'
  <2>1. SlotHeld'
    BY <1>3, SlotStep DEF IInv
  <2>2. OwnersMatch' /\ Unclaimed'
    BY <1>3, DirectoryStep DEF IInv, Local
  <2>3. ASSUME NEW e \in Drivers PROVE Local(e)'
    BY <1>3, LocalStep, OtherStep DEF IInv, Local
  <2> QED
    BY <1>1, <2>1, <2>2, <2>3 DEF IInv
<1> QED
  BY <1>2, <1>3, NextSteps

\* The inductive invariant holds in every behaviour.
THEOREM Invariance == Spec => []IInv
  BY InvInit, InvStep, PTL DEF Spec

-----------------------------------------------------------------------------
(* Safety *)

\* Drivers past acquireSlot map injectively to the slots they hold.
LEMMA InvBoundsConcurrency == IInv => ConcurrencyBound
<1> SUFFICES ASSUME IInv PROVE ConcurrencyBound
  OBVIOUS
<1> DEFINE H == {d \in Drivers : pc[d] \in Holding}
           f == [d \in H |-> CHOOSE s \in Slots : holder[s] = d]
<1>1. \A d \in H : f[d] \in Slots /\ holder[f[d]] = d
  BY DEF IInv, SlotHeld
<1>2. f \in Injection(H, Slots)
  <2>1. f \in [H -> Slots]
    BY <1>1
  <2>2. \A d, e \in H : f[d] = f[e] => d = e
    BY <1>1
  <2> QED
    BY <2>1, <2>2 DEF Injection, IsInjective
<1>3. IsFiniteSet(Slots) /\ Cardinality(Slots) = MaxConcurrency
  BY FS_Interval DEF Slots
<1>4. Cardinality(H) =< Cardinality(Slots)
  BY <1>2, <1>3, FS_Injection
<1> QED
  BY <1>3, <1>4 DEF ConcurrencyBound

\* At most maxConcurrency drivers are between acquireSlot and release(), for
\* any number of invocations, crashes and slots.
THEOREM ConcurrencyBounded == Spec => []ConcurrencyBound
  BY Invariance, InvBoundsConcurrency, PTL

\* Two workers on one directory would both be its creator.
LEMMA InvOneWriter == IInv => OneWriter
  BY DEF IInv, Local, Ownership, OneWriter, Working, ScriptRunning, AsmRunning

\* Invocations with the same -run-dir never both work on it.
THEOREM SingleWriter == Spec => []OneWriter
  BY Invariance, InvOneWriter, PTL

\* The facts about a directory that a driver created.
LEMMA Owned ==
  ASSUME IInv, NEW r \in RunDirs, owner[r] # NoDriver
  PROVE  /\ owner[r] \in Drivers /\ RunDirOf[owner[r]] = r
         /\ DriverProgress(owner[r], r) /\ AsmProgress(owner[r], r)
         /\ Quiescence(owner[r])
  BY DEF IInv, TypeOK, OwnersMatch, Local, Progress

\* See AtMostOneEvaluation.
LEMMA InvEvaluatedAtMostOnce == IInv => EvaluatedAtMostOnce
<1> SUFFICES ASSUME IInv, NEW r \in RunDirs
             PROVE  evals[r] =< IF meta[r].status \in Evaluated THEN 1 ELSE 0
  BY DEF EvaluatedAtMostOnce
<1>1. CASE owner[r] = NoDriver
  BY <1>1 DEF IInv, Unclaimed
<1>2. CASE owner[r] # NoDriver
  <2> DEFINE d == owner[r]
  <2>1. d \in Drivers /\ AsmProgress(d, r)
    BY <1>2, Owned
  <2>2. asm[d] \in {"none", "read", "evaluate", "compose", "ok", "failed"}
    BY <2>1 DEF IInv, TypeOK, AsmRunning
  <2> QED
    BY <2>1, <2>2 DEF AsmProgress, Backed, Failed, Evaluated
<1> QED
  BY <1>1, <1>2

\* A workspace is evaluated at most once, and never after a failed candidate
\* phase.
THEOREM AtMostOneEvaluation == Spec => []EvaluatedAtMostOnce
  BY Invariance, InvEvaluatedAtMostOnce, PTL

\* See ResultsJustified.
LEMMA InvResultJustified == IInv => ResultJustified
<1> SUFFICES ASSUME IInv, NEW r \in RunDirs, result[r] # NoStatus
             PROVE  /\ files[r] = Artifacts
                    /\ meta[r].status \in Failed => result[r] = meta[r].status
                    /\ result[r] \in Evaluated => result[r] = meta[r].status /\ evals[r] = 1
  BY DEF ResultJustified
<1>1. owner[r] # NoDriver
  BY DEF IInv, Unclaimed
<1>2. AsmProgress(owner[r], r)
  BY <1>1, Owned
<1> QED
  BY <1>2 DEF AsmProgress, Backed, Failed, Evaluated

\* A published result is backed by its artifacts, its record and its evaluation.
THEOREM ResultsJustified == Spec => []ResultJustified
  BY Invariance, InvResultJustified, PTL

\* See DoneIsPublished.
LEMMA InvDone == IInv => DoneMeansPublished
<1> SUFFICES ASSUME IInv, NEW d \in Drivers, pc[d] = "done"
             PROVE  owner[RunDirOf[d]] = d /\ result[RunDirOf[d]] # NoStatus
  BY DEF DoneMeansPublished
<1>1. asm[d] = "ok" /\ owner[RunDirOf[d]] = d
  BY DEF IInv, Local, Ownership, Progress
<1>2. AsmProgress(d, RunDirOf[d])
  BY <1>1 DEF IInv, Local, Progress
<1> QED
  BY <1>1, <1>2 DEF AsmProgress, Backed, Failed, Evaluated, NoStatus

\* Exit status zero of a driver means that its run is published.
THEOREM DoneIsPublished == Spec => []DoneMeansPublished
  BY Invariance, InvDone, PTL

\* An evaluable record implies a stopped candidate.
LEMMA InvQuiescent == ~RemovalMayFail /\ IInv => EvaluationIsQuiescent
<1> SUFFICES ASSUME ~RemovalMayFail, IInv, NEW d \in Drivers, asm[d] = "evaluate"
             PROVE  script[d] = "exited" /\ ~live[d]
  BY DEF EvaluationIsQuiescent
<1>1. owner[RunDirOf[d]] = d
  BY DEF IInv, Local, Ownership
<1>2. meta[RunDirOf[d]].status \in Evaluated
  BY <1>1 DEF IInv, Local, Progress, AsmProgress
<1> QED
  BY <1>1, <1>2 DEF IInv, Local, Quiescence, Stopped

\* While docker removals succeed, no candidate process or container survives
\* into the evaluation of its workspace.
THEOREM QuiescentEvaluation ==
  ASSUME ~RemovalMayFail
  PROVE  Spec => []EvaluationIsQuiescent
<1>1. IInv => EvaluationIsQuiescent
  BY InvQuiescent
<1> QED
  BY <1>1, Invariance, PTL

-----------------------------------------------------------------------------
(* Action properties and refinement *)

\* The disk of one directory under one step: what each action may do to it.
LEMMA DiskStep ==
  ASSUME IInv, NEW d \in Drivers, Step(d), NEW r \in RunDirs
  PROVE  /\ meta[r] # NoMeta => meta'[r] = meta[r]
         /\ result[r] # NoStatus => result'[r] = result[r]
         /\ files[r] \subseteq files'[r]
<1>t. TypeOK /\ Local(d) /\ Ownership(d)
  BY DEF IInv, Local
<1>1. CASE r # RunDirOf[d] \/ owner[r] # d
  BY <1>1, <1>t, DiskFrame
<1>2. CASE r = RunDirOf[d] /\ owner[r] = d
  <2>1. CASE Finalize(d) \/ StartAssembly(d)
    BY <1>2, <1>t, <2>1, Puts DEF Finalize, StartAssembly
  <2>2. CASE WriteMetadata(d)
    <3>1. meta[r] = NoMeta
      BY <1>2, <1>t, <2>2 DEF WriteMetadata, Local, Progress, DriverProgress, Owning, Holding
    <3> QED
      BY <1>2, <1>t, <2>2, <3>1, Puts DEF WriteMetadata
  <2>3. CASE AsmStep(d)
    <3>1. result[r] = NoStatus
      BY <1>2, <1>t, <2>3 DEF AsmStep, AsmRead, AsmEvaluate, AsmCompose, Local, Progress, AsmProgress
    <3> QED
      BY <1>2, <1>t, <2>3, <3>1, Puts DEF AsmStep, AsmRead, AsmEvaluate, AsmCompose
  <2>4. CASE ~(Finalize(d) \/ StartAssembly(d) \/ WriteMetadata(d) \/ AsmStep(d))
    BY <2>4 DEF Step, DriverStep, Check, TrySlot, Poll, Mkdir, Launch, Interrupt, Kill, Reap,
       Cleanup, Return, ScriptStep, Setup, AgentEnds, AgentTimesOut, Trap, ScriptExit,
       Signal, Tick, Crash
  <2> QED
    BY <2>1, <2>2, <2>3, <2>4
<1> QED
  BY <1>1, <1>2

\* metadata.json and run-result.json are written once, and no file disappears.
THEOREM WrittenOnce == Spec => WriteOnce
<1>1. ASSUME IInv, [Next]_vars
      PROVE  [\A r \in RunDirs :
                /\ meta[r] # NoMeta => meta'[r] = meta[r]
                /\ result[r] # NoStatus => result'[r] = result[r]
                /\ files[r] \subseteq files'[r]]_vars
  <2>1. CASE UNCHANGED vars
    BY <2>1
  <2>2. CASE \E d \in Drivers : Step(d)
    BY <1>1, <2>2, DiskStep
  <2> QED
    BY <1>1, <2>1, <2>2, NextSteps
<1> QED
  BY <1>1, Invariance, PTL DEF Spec, WriteOnce

\* The refinement mapping, by name.
Claimed  == [r \in RunDirs |-> owner[r] # NoDriver]
Recorded == [r \in RunDirs |-> meta[r].status]

\* Initial states map to initial states.
LEMMA LedgerInit == Init => Ledger!Init
<1> SUFFICES ASSUME Init PROVE Ledger!Init
  OBVIOUS
<1>1. Claimed = [r \in RunDirs |-> FALSE]
  BY DEF Init, Claimed
<1>2. Recorded = [r \in RunDirs |-> Ledger!None]
  BY DEF Init, Recorded, NoMeta, NoStatus, Ledger!None
<1>3. evals = [r \in RunDirs |-> 0] /\ result = [r \in RunDirs |-> Ledger!None]
  BY DEF Init, NoStatus, Ledger!None
<1> QED
  BY <1>1, <1>2, <1>3 DEF Ledger!Init, Claimed, Recorded

\* Steps that do not create a directory, record, evaluate or publish stutter.
LEMMA LedgerStutter ==
  ASSUME UNCHANGED <<owner, meta, evals, result>>
  PROVE  UNCHANGED Ledger!vars
  BY DEF Ledger!vars

\* A successful Mkdir claims the run.
LEMMA LedgerClaim ==
  ASSUME TypeOK, NEW d \in Drivers, Mkdir(d), owner[RunDirOf[d]] = NoDriver
  PROVE  Ledger!Claim(RunDirOf[d])
<1> DEFINE r == RunDirOf[d]
<1>1. r \in RunDirs /\ owner' = [owner EXCEPT ![r] = d] /\ d # NoDriver
  BY DEF Mkdir
<1>2. ~Claimed[r]
  BY <1>1 DEF Claimed
<1>3. Claimed' = [Claimed EXCEPT ![r] = TRUE]
  <2>1. \A q \in RunDirs : (owner'[q] # NoDriver) = (IF q = r THEN TRUE ELSE owner[q] # NoDriver)
    BY <1>1 DEF TypeOK
  <2> QED
    BY <1>1, <2>1 DEF Claimed
<1>4. UNCHANGED <<meta, evals, result>>
  BY DEF Mkdir
<1> QED
  BY <1>2, <1>3, <1>4 DEF Ledger!Claim, Claimed

\* Writing metadata.json records the run.
LEMMA LedgerRecord ==
  ASSUME IInv, NEW d \in Drivers, WriteMetadata(d), meta' # meta
  PROVE  \E st \in Ledger!Evaluable \cup Ledger!Failure : Ledger!Record(RunDirOf[d], st)
<1> DEFINE r  == RunDirOf[d]
           w  == WallClock(exit[d], elapsed[d])
<1>0. TypeOK /\ r \in RunDirs /\ Local(d)
  BY DEF IInv
<1>1. PICK st \in Ledger!Evaluable \cup Ledger!Failure :
        st = IF unsafe[d] THEN "harness-failure" ELSE Classify(exit[d])
  BY DEF Ledger!Evaluable, Ledger!Failure, Classify
<1>2. meta' = [meta EXCEPT ![r] = [status |-> st, wall |-> w]]
  BY <1>1 DEF WriteMetadata
<1>3. owner[r] = d /\ d # NoDriver /\ meta[r] = NoMeta /\ UNCHANGED <<owner, evals, result>>
  BY <1>0 DEF WriteMetadata, Local, Ownership, Progress, DriverProgress, Owning, Holding
<1>4. Recorded' = [Recorded EXCEPT ![r] = st]
  <2>1. \A q \in RunDirs : meta'[q].status = IF q = r THEN st ELSE meta[q].status
    BY <1>0, <1>2 DEF TypeOK
  <2> QED
    BY <1>0, <2>1 DEF Recorded
<1>5. Claimed[r] /\ Recorded[r] = Ledger!None
  <2>1. Claimed[r]
    BY <1>0, <1>3 DEF Claimed
  <2>2. Recorded[r] = Ledger!None
    BY <1>0, <1>3 DEF Recorded, NoMeta, NoStatus, Ledger!None
  <2> QED
    BY <2>1, <2>2
<1>6. Claimed' = Claimed
  BY <1>3 DEF Claimed
<1>7. Ledger!Record(r, st)
  BY <1>3, <1>4, <1>5, <1>6 DEF Ledger!Record, Claimed, Recorded
<1> QED
  BY <1>7

\* Starting the evaluator is the one evaluation of the run.
LEMMA LedgerEvaluate ==
  ASSUME IInv, NEW d \in Drivers, AsmRead(d), evals' # evals
  PROVE  Ledger!Evaluate(RunDirOf[d])
<1> DEFINE r == RunDirOf[d]
<1>0. TypeOK /\ r \in RunDirs /\ Local(d)
  BY DEF IInv
<1>1. /\ evals' = [evals EXCEPT ![r] = @ + 1] /\ meta[r].status \in Evaluated
      /\ asm[d] = "read" /\ UNCHANGED <<owner, meta, result>>
  BY DEF AsmRead
<1>2. evals[r] = 0
  BY <1>0, <1>1 DEF Local, Ownership, Progress, AsmProgress
<1>3. evals' = [evals EXCEPT ![r] = 1]
  BY <1>0, <1>1, <1>2 DEF TypeOK
<1> QED
  BY <1>0, <1>1, <1>2, <1>3 DEF Ledger!Evaluate, Ledger!Evaluable, Evaluated

\* Writing run-result.json publishes a justified status.
LEMMA LedgerPublish ==
  ASSUME IInv, NEW d \in Drivers, AsmCompose(d), result' # result
  PROVE  \E st \in Ledger!Evaluable \cup Ledger!Failure : Ledger!Publish(RunDirOf[d], st)
<1> DEFINE r  == RunDirOf[d]
           st == draft[d]
<1>0. TypeOK /\ r \in RunDirs /\ Local(d)
  BY DEF IInv
<1>1. /\ result' = [result EXCEPT ![r] = st] /\ asm[d] = "compose"
      /\ UNCHANGED <<owner, meta, evals>>
  BY DEF AsmCompose
<1>2. result[r] = NoStatus /\ Backed(r, st)
  BY <1>0, <1>1 DEF Local, Ownership, Progress, AsmProgress
<1>3. st \in Ledger!Evaluable \cup Ledger!Failure
  BY <1>2 DEF Backed, Failed, Evaluated, Ledger!Evaluable, Ledger!Failure
<1>4. Ledger!Justified(r, st)
  BY <1>0, <1>2 DEF Backed, Failed, Evaluated, Ledger!Justified, Ledger!Evaluable, Ledger!Failure
<1>5. Ledger!Publish(r, st)
  BY <1>0, <1>1, <1>2, <1>4 DEF Ledger!Publish, Ledger!None, NoStatus
<1> QED
  BY <1>3, <1>5

\* Every step maps to a step of the ledger or to a stutter.
LEMMA LedgerStep ==
  ASSUME IInv, [Next]_vars
  PROVE  [Ledger!Next]_Ledger!vars
<1>1. CASE UNCHANGED vars
  BY <1>1, LedgerStutter DEF vars
<1>2. ASSUME NEW d \in Drivers, Step(d)
      PROVE  [Ledger!Next]_Ledger!vars
  <2>0. RunDirOf[d] \in RunDirs /\ TypeOK
    BY DEF IInv
  <2>1. CASE UNCHANGED <<owner, meta, evals, result>>
    BY <2>1, LedgerStutter
  <2>2. CASE Mkdir(d) /\ owner[RunDirOf[d]] = NoDriver
    BY <2>0, <2>2, LedgerClaim DEF Ledger!Next
  <2>3. CASE WriteMetadata(d) /\ meta' # meta
    BY <2>0, <2>3, LedgerRecord DEF Ledger!Next
  <2>4. CASE AsmRead(d) /\ evals' # evals
    BY <2>0, <2>4, LedgerEvaluate DEF Ledger!Next
  <2>5. CASE AsmCompose(d) /\ result' # result
    BY <2>0, <2>5, LedgerPublish DEF Ledger!Next
  <2>6. CASE Mkdir(d) \/ WriteMetadata(d) \/ AsmRead(d) \/ AsmCompose(d)
    BY <2>1, <2>2, <2>3, <2>4, <2>5, <2>6 DEF Mkdir, WriteMetadata, AsmRead, AsmCompose
  <2>7. CASE ~(Mkdir(d) \/ WriteMetadata(d) \/ AsmRead(d) \/ AsmCompose(d))
    BY <1>2, <2>1, <2>7 DEF Step, DriverStep, Check, TrySlot, Poll, Launch, Interrupt, Kill,
       Reap, Cleanup, Finalize, StartAssembly, Return, ScriptStep, Setup, AgentEnds,
       AgentTimesOut, Trap, ScriptExit, AsmStep, AsmEvaluate, Signal, Tick, Crash
  <2> QED
    BY <2>6, <2>7
<1> QED
  BY <1>1, <1>2, NextSteps

\* Drivers, scripts and assemblers together implement the ledger: every run
\* directory is claimed once, recorded once, evaluated at most once and
\* published at most once with a justified status.
THEOREM Refinement == Spec => ImplementsLedger
<1>1. IInv /\ [Next]_vars => [Ledger!Next]_Ledger!vars
  BY LedgerStep
<1> QED
  BY <1>1, LedgerInit, Invariance, PTL DEF Spec, ImplementsLedger, Ledger!Spec
=============================================================================
