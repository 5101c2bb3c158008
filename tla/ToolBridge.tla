----------------------------- MODULE ToolBridge -----------------------------
(***************************************************************************)
(* One request of the tool bridge: the handler starts the native tool, and *)
(* waits for it or, when the coordinator aborts the request, kills its     *)
(* process tree from what /proc shows.  The tool's processes fork, exit    *)
(* and move to other groups while the handler reads and kills.             *)
(***************************************************************************)
EXTENDS Integers, Sequences, FiniteSets

CONSTANT MaxPid   \* processes a tool may start; identifiers are not reused

ASSUME BridgeAssumption == MaxPid \in Nat \ {0}

Pids == 1 .. MaxPid
Root == 1       \* the native tool, cmd.Process.Pid
Reaper == 0     \* the init process of the container

VARIABLES
    state,     \* of a process: "none", "alive", "zombie" or "gone"
    parent,    \* its parent, Reaper once it is an orphan
    group,     \* its process group
    piped,     \* it still holds the pipe of stdout and stderr
    pc,        \* the handler
    frames,    \* calls of killProcessTree, the innermost last
    cancelled, \* the request's context is done
    reply,     \* status written, 0 for none
    visited,   \* history: processes killProcessTree was called for
    tree,      \* history: the tool's processes when the request was aborted
    quiet,     \* history: no process forked, moved or exited by itself since
    moved,     \* history: processes that made a group of their own since
    joined     \* history: a process has joined a group it did not inherit or make

processes == <<state, parent, group, piped>>
history   == <<visited, tree, quiet, moved, joined>>
vars == <<processes, pc, frames, cancelled, reply, history>>

-----------------------------------------------------------------------------
(* Processes *)

Alive == {p \in Pids : state[p] = "alive"}
Shown == {p \in Pids : state[p] \in {"alive", "zombie"}}   \* entries of /proc

\* The processes below Root, by the parents they have now: those in every set
\* that has Root and the children of its members.
Below == {p \in Pids : \A S \in SUBSET Pids :
              Root \in S /\ (\A q \in Shown : parent[q] \in S => q \in S) => p \in S}
Descendants == Below \cap Alive

\* The processes in dead are no longer alive; their children are orphans.
Die(dead) ==
    /\ state'  = [p \in Pids |-> IF p \in dead \cap Alive THEN "zombie" ELSE state[p]]
    /\ parent' = [p \in Pids |-> IF parent[p] \in dead /\ parent[p] \in Alive
                                 THEN Reaper ELSE parent[p]]
    /\ piped'  = [p \in Pids |-> piped[p] /\ p \notin dead]
    /\ UNCHANGED group

\* A process of the tool does something by itself.
Act ==
    /\ quiet' = (quiet /\ pc # "kill")
    /\ UNCHANGED <<pc, frames, cancelled, reply, visited, tree>>

Fork(p) ==
    /\ p \in Alive
    /\ \E c \in Pids :
         /\ state[c] = "none" /\ \A d \in 1 .. c - 1 : state[d] # "none"
         /\ state'  = [state EXCEPT ![c] = "alive"]
         /\ parent' = [parent EXCEPT ![c] = p]
         /\ group'  = [group EXCEPT ![c] = group[p]]
         /\ piped'  = [piped EXCEPT ![c] = piped[p]]
    /\ Act /\ UNCHANGED <<moved, joined>>

\* A process starts a group or session of its own.
Detach(p) ==
    /\ p \in Alive /\ group[p] # p
    /\ group' = [group EXCEPT ![p] = p]
    /\ moved' = IF pc = "kill" THEN moved \cup {p} ELSE moved
    /\ UNCHANGED <<state, parent, piped, joined>>
    /\ Act

\* A process joins the group of another, as the processes of a pipeline do under job
\* control; sessions, which restrict this, are not modelled.  The tool stays where
\* it was started.
Join(p) ==
    /\ p \in Alive \ {Root}
    /\ \E q \in Alive : group[q] # group[p] /\ group' = [group EXCEPT ![p] = group[q]]
    /\ joined' = TRUE
    /\ UNCHANGED <<state, parent, piped, moved>>
    /\ Act

Exit(p) == p \in Alive /\ Die({p}) /\ Act /\ UNCHANGED <<moved, joined>>

\* A parent, the reaper or, for Root, cmd.Wait collects a zombie.
Reap(p) ==
    /\ state[p] = "zombie"
    /\ p = Root \/ parent[p] \in {Reaper} \cup Alive
    /\ state' = [state EXCEPT ![p] = "gone"]
    /\ UNCHANGED <<parent, group, piped, pc, frames, cancelled, reply, history>>

-----------------------------------------------------------------------------
(* execute *)

Init ==
    /\ state  = [p \in Pids |-> "none"]
    /\ parent = [p \in Pids |-> Reaper]
    /\ group  = [p \in Pids |-> Root]
    /\ piped  = [p \in Pids |-> FALSE]
    /\ pc = "request" /\ frames = <<>> /\ cancelled = FALSE /\ reply = 0
    /\ visited = {} /\ tree = {} /\ quiet = TRUE /\ moved = {} /\ joined = FALSE

Return(status) == pc' = "returned" /\ reply' = status

\* A body that does not decode, or a path outside the workspace.
Reject ==
    /\ pc = "request" /\ Return(400)
    /\ UNCHANGED <<processes, frames, cancelled, history>>

StartFails ==
    /\ pc = "request" /\ Return(500)
    /\ UNCHANGED <<processes, frames, cancelled, history>>

\* Defect: without Setpgid the tool stays in the group of the bridge.
StartInGroup ==
    /\ pc = "request"
    /\ state' = [state EXCEPT ![Root] = "alive"]
    /\ piped' = [piped EXCEPT ![Root] = TRUE]
    /\ group' = [p \in Pids |-> Reaper]
    /\ pc' = "select"
    /\ UNCHANGED <<parent, frames, cancelled, reply, history>>

\* cmd.Start with Setpgid; a goroutine waits.  The command's own context is
\* never cancelled.
Start ==
    /\ pc = "request"
    /\ state' = [state EXCEPT ![Root] = "alive"]
    /\ piped' = [piped EXCEPT ![Root] = TRUE]
    /\ pc' = "select"
    /\ UNCHANGED <<parent, group, frames, cancelled, reply, history>>

Cancel ==
    /\ pc # "returned" /\ ~cancelled
    /\ cancelled' = TRUE
    /\ UNCHANGED <<processes, pc, frames, reply, history>>

\* cmd.Wait has returned: Root is reaped and no process holds the pipe.
Waited == state[Root] = "gone" /\ \A p \in Pids : ~piped[p]

\* The tool succeeded with an envelope; it failed; its output was no envelope.
Complete ==
    /\ pc = "select" /\ Waited
    /\ \E status \in {200, 500} : Return(status)
    /\ UNCHANGED <<processes, frames, cancelled, history>>

Frame(root) == [root |-> root, step |-> "list", unread |-> {}, children |-> {}]

Abort ==
    /\ pc = "select" /\ cancelled
    /\ pc' = "kill" /\ frames' = <<Frame(Root)>>
    /\ visited' = {Root} /\ tree' = Descendants
    /\ UNCHANGED <<processes, cancelled, reply, quiet, moved, joined>>

\* <-done of the aborted request.
AbortReturns ==
    /\ pc = "kill" /\ frames = <<>> /\ Waited
    /\ Return(0)
    /\ UNCHANGED <<processes, frames, cancelled, history>>

-----------------------------------------------------------------------------
(* killProcessTree *)

Top == frames[Len(frames)]
SetTop(frame) == frames' = [frames EXCEPT ![Len(frames)] = frame]
Walks(step) == pc = "kill" /\ frames # <<>> /\ Top.step = step

ReadDir ==
    /\ Walks("list")
    /\ SetTop([Top EXCEPT !.step = "read", !.unread = Shown])
    /\ UNCHANGED <<processes, pc, cancelled, reply, history>>

\* /proc/<pid>/stat of the next entry, unless the process has gone; only the
\* children of the frame's root are used later.
ReadStat ==
    /\ Walks("read") /\ Top.unread # {}
    /\ LET p == CHOOSE q \in Top.unread : \A r \in Top.unread : q <= r
           mine == p \in Shown /\ parent[p] = Top.root
       IN  SetTop([Top EXCEPT !.unread = @ \ {p},
                              !.children = IF mine THEN @ \cup {p} ELSE @])
    /\ UNCHANGED <<processes, pc, cancelled, reply, history>>

\* Defect: only the children of the tool are killed, not theirs.
DescendShallow ==
    /\ Walks("read") /\ Top.unread = {} /\ Top.children # {}
    /\ \E p \in Top.children :
         /\ frames' = Append([frames EXCEPT ![Len(frames)].children = @ \ {p}],
                             [Frame(p) EXCEPT !.step = "read"])
         /\ visited' = visited \cup {p}
    /\ UNCHANGED <<processes, pc, cancelled, reply, tree, quiet, moved, joined>>

\* The call for a child, whichever the iteration over the map comes to.
Descend ==
    /\ Walks("read") /\ Top.unread = {} /\ Top.children # {}
    /\ \E p \in Top.children :
         /\ frames' = Append([frames EXCEPT ![Len(frames)].children = @ \ {p}], Frame(p))
         /\ visited' = visited \cup {p}
    /\ UNCHANGED <<processes, pc, cancelled, reply, tree, quiet, moved, joined>>

\* Defect: kill(root) without kill(-root).
KillNoGroup ==
    /\ Walks("read") /\ Top.unread = {} /\ Top.children = {}
    /\ SetTop([Top EXCEPT !.step = "self"])
    /\ UNCHANGED <<processes, pc, cancelled, reply, history>>

KillGroup ==
    /\ Walks("read") /\ Top.unread = {} /\ Top.children = {}
    /\ Die({p \in Pids : group[p] = Top.root})
    /\ SetTop([Top EXCEPT !.step = "self"])
    /\ UNCHANGED <<pc, cancelled, reply, history>>

\* kill(root), and the same kill by the caller once the call has returned.
KillSelf ==
    /\ Walks("self")
    /\ Die({Top.root})
    /\ frames' = SubSeq(frames, 1, Len(frames) - 1)
    /\ UNCHANGED <<pc, cancelled, reply, history>>

Walk == ReadDir \/ ReadStat \/ Descend \/ KillGroup \/ KillSelf

Finished == pc = "returned" /\ UNCHANGED vars

Next ==
    \/ \E p \in Pids : Fork(p) \/ Detach(p) \/ Join(p) \/ Exit(p) \/ Reap(p)
    \/ Reject \/ StartFails \/ Start \/ Cancel \/ Complete \/ Abort \/ AbortReturns
    \/ Walk \/ Finished

\* The handler and the goroutine in cmd.Wait run on; zombies are collected.
\* Nothing obliges the tool's processes to do anything.
Spec ==
    /\ Init /\ [][Next]_vars
    /\ WF_vars(Walk) /\ WF_vars(Abort) /\ WF_vars(AbortReturns) /\ WF_vars(Complete)
    /\ \A p \in Pids : WF_vars(Reap(p))

-----------------------------------------------------------------------------
(* Properties *)

Frames == [root : Pids, step : {"list", "read", "self"}, unread : SUBSET Pids, children : SUBSET Pids]

TypeOK ==
    /\ state \in [Pids -> {"none", "alive", "zombie", "gone"}]
    /\ parent \in [Pids -> Pids \cup {Reaper}] /\ group \in [Pids -> Pids]
    /\ piped \in [Pids -> BOOLEAN]
    /\ pc \in {"request", "select", "kill", "returned"} /\ frames \in Seq(Frames)
    /\ cancelled \in BOOLEAN /\ reply \in {0, 200, 400, 500}
    /\ visited \subseteq Pids /\ tree \subseteq Pids /\ quiet \in BOOLEAN /\ moved \subseteq Pids
    /\ joined \in BOOLEAN

\* Killed: the walk over the tree of an aborted request is over.
Killed == pc \in {"kill", "returned"} /\ visited # {} /\ frames = <<>>

\* Whatever the processes do meanwhile, no process that stayed in the group of
\* the tool survives the walk, and none in a group of its own whose leader was
\* found, unless that leader made the group while the walk was going on: a
\* leader that moves between the two kills can still fork into its group.
SurvivorsDetached ==
    Killed => \A p \in Alive : group[p] # Root /\ (group[p] \in visited => group[p] \in moved)

\* No process does anything by itself during the walk, and the leader of every
\* group is an ancestor of its members.
Still == quiet /\ ~joined

\* When no process of the tool forks, moves or exits by itself during the walk,
\* every process below the tool is dead at its end, in whatever group it or an
\* ancestor started: children are killed before the parent that shows where they
\* are.  Not so once a process has joined the group of a sibling: kill(-sibling)
\* may come first, and orphans the children of the one that joined.
QuietTreeDies == Killed /\ Still => tree \cap Alive = {}

\* An aborted request returns, whatever the processes do; only a process that
\* survived in a group of its own with the pipe open can hold it.
AbortedReturns ==
    (pc = "select" /\ cancelled) ~>
        \/ pc = "returned"
        \/ pc = "kill" /\ frames = <<>> /\ \E p \in Pids : piped[p] /\ group[p] \in Pids \ {Root}

-----------------------------------------------------------------------------
(* Inductive invariant *)

\* S has the parent of each of its members other than Root.
Upwards(S) == \A q \in S \ {Root} : parent[q] \in S

\* Identifiers grow from parent to child, and the leader of a process's group
\* is the process or an ancestor that a chain of live parents leads to, until a
\* process joins another group.
Ancestry ==
    /\ group[Root] = Root /\ parent[Root] = Reaper
    /\ pc = "request" => state[Root] = "none"
    /\ pc = "select" => state[Root] # "none"
    /\ \A p \in Pids : parent[p] \in {Reaper} \cup Alive /\ parent[p] < p
    /\ \A p, q \in Pids : p < q /\ state[p] = "none" => state[q] = "none"
    /\ ~joined =>
         \A p \in Alive : \A S \in SUBSET Pids : p \in S /\ Upwards(S) => group[p] \in S

\* What the walk has seen has been started.
Seen ==
    /\ \A p \in visited \cup tree : state[p] # "none"
    /\ \A k \in 1 .. Len(frames) : \A p \in frames[k].unread \cup frames[k].children :
         state[p] # "none"

\* A call is for a child of its caller's process, or one that is an orphan since.
Calls ==
    /\ pc \in {"request", "select"} => visited = {} /\ tree = {}
    /\ pc = "kill" \/ visited # {} => Root \in visited
    /\ frames # <<>> => pc = "kill" /\ frames[1].root = Root
    /\ \A k \in 1 .. Len(frames) :
         /\ frames[k].root \in visited
         /\ \A p \in frames[k].children : frames[k].root < p /\ parent[p] \in {frames[k].root, Reaper}
         /\ k > 1 => parent[frames[k].root] \in {frames[k - 1].root, Reaper}
         /\ \A j \in 1 .. k - 1 : frames[j].root < frames[k].root

\* A process whose call has returned is dead, and once kill(-root) was called
\* its group is empty, unless it makes a new one.
Kills ==
    /\ Root \notin moved
    /\ \A v \in visited :
         /\ v \in Alive => \E k \in 1 .. Len(frames) : frames[k].root = v
         /\ v \notin moved =>
              \/ \E k \in 1 .. Len(frames) : frames[k].root = v /\ frames[k].step # "self"
              \/ \A p \in Alive : group[p] # v

\* A call that will still come to p.
Awaits(k, p) ==
    /\ frames[k].root = parent[p]
    /\ \/ frames[k].step = "list"
       \/ frames[k].step = "read" /\ p \in frames[k].unread \cup frames[k].children

\* Of a quiet tree, the processes left are connected, and the walk will come to each.
Connected ==
    /\ Still /\ pc = "kill" => \A p \in (tree \cap Alive) \ {Root} :
         /\ parent[p] \in tree \cap Alive
         /\ \/ p \in visited \/ parent[p] \notin visited
            \/ \E k \in 1 .. Len(frames) : Awaits(k, p)
    /\ Still /\ pc = "returned" => tree \cap Alive = {}

BridgeInv == TypeOK /\ Ancestry /\ Seen /\ Calls /\ Kills /\ Connected

=============================================================================
