-------------------------- MODULE ToolBridgeProofs --------------------------
(***************************************************************************)
(* killProcessTree against processes that fork, move and exit, for any     *)
(* number of processes: who can survive it, and that it finds every        *)
(* process of a tree that keeps still.                                     *)
(***************************************************************************)
EXTENDS ToolBridge, SequenceTheorems, WellFoundedInduction, TLAPS

\* Identifiers are positive; the reaper has none of them.
LEMMA Identifiers ==
  /\ \A p \in Pids : p \in Nat /\ p > 0 /\ 1 .. p - 1 \subseteq Pids
  /\ Pids \subseteq Nat
  /\ Root \in Pids /\ Reaper \in Nat /\ Reaper \notin Pids /\ \A p \in Pids : Root <= p
  BY BridgeAssumption DEF Pids, Root, Reaper

-----------------------------------------------------------------------------
(* Operators of the model *)

\* A set of numbers that is not empty has a least one.
LEMMA LeastNumber ==
  ASSUME NEW T, T \subseteq Nat, T # {}
  PROVE  \E x \in T : \A y \in T : x <= y
<1>1. PICK x \in T : \A y \in T : ~(<<y, x>> \in OpToRel(<, Nat))
  BY WFMin, NatLessThanWellFounded
<1>2. \A y \in T : ~(y < x)
  BY <1>1 DEF OpToRel
<1> QED
  BY <1>2

\* Kills: no other process dies, and only orphans change their parent.
LEMMA Deaths ==
  ASSUME TypeOK, NEW dead, Die(dead)
  PROVE  /\ state' \in [Pids -> {"none", "alive", "zombie", "gone"}]
         /\ parent' \in [Pids -> Pids \cup {Reaper}] /\ piped' \in [Pids -> BOOLEAN]
         /\ group' = group /\ Alive' = Alive \ dead
         /\ \A p \in Pids : (state'[p] = "none") <=> (state[p] = "none")
         /\ \A p \in Pids : parent'[p] = IF parent[p] \in dead \cap Alive THEN Reaper ELSE parent[p]
  BY DEF TypeOK, Die, Alive

\* A fork: one process more, the child of a live one.
LEMMA Forks ==
  ASSUME TypeOK, Ancestry, NEW p \in Pids, Fork(p)
  PROVE  \E c \in Pids :
           /\ state[c] = "none" /\ p < c /\ c # Root /\ Alive' = Alive \cup {c}
           /\ state' = [state EXCEPT ![c] = "alive"] /\ parent' = [parent EXCEPT ![c] = p]
           /\ group' = [group EXCEPT ![c] = group[p]] /\ piped' = [piped EXCEPT ![c] = piped[p]]
           /\ \A q \in Pids : parent[q] # c
           /\ \A q \in Pids : q < c => state[q] # "none"
<1>1. PICK c \in Pids :
         /\ state[c] = "none" /\ \A d \in 1 .. c - 1 : state[d] # "none"
         /\ state'  = [state EXCEPT ![c] = "alive"]
         /\ parent' = [parent EXCEPT ![c] = p]
         /\ group'  = [group EXCEPT ![c] = group[p]]
         /\ piped'  = [piped EXCEPT ![c] = piped[p]]
  BY DEF Fork
<1>2. p \in Alive /\ state[p] = "alive"
  BY DEF Fork, Alive
<1>3. p < c /\ c # Root
  <2>1. c # p /\ ~(c < p)
    BY <1>1, <1>2 DEF Ancestry
  <2>2. p < c /\ Root <= p
    BY <2>1, Identifiers
  <2> QED
    BY <2>2, Identifiers
<1>4. Alive' = Alive \cup {c}
  BY <1>1 DEF Alive, TypeOK
<1>5. \A q \in Pids : parent[q] # c
  BY <1>1, Identifiers DEF Ancestry, Alive
<1>6. \A q \in Pids : q < c => state[q] # "none"
  <2>1. \A q \in Pids : q < c => q \in 1 .. c - 1
    BY Identifiers
  <2> QED
    BY <1>1, <2>1
<1> QED
  BY <1>1, <1>3, <1>4, <1>5, <1>6

\* The innermost call goes on.
LEMMA TopChanges ==
  ASSUME TypeOK, frames # <<>>, NEW f \in Frames, SetTop(f)
  PROVE  /\ frames' \in Seq(Frames) /\ frames' # <<>> /\ Len(frames') = Len(frames)
         /\ Len(frames) \in Nat \ {0} /\ Top \in Frames
         /\ frames'[Len(frames)] = f
         /\ \A k \in 1 .. Len(frames) : k # Len(frames) => frames'[k] = frames[k]
  BY DEF TypeOK, SetTop, Top

\* A call for a child of the innermost call's process.
LEMMA Descends ==
  ASSUME TypeOK, Descend
  PROVE  \E p \in Top.children :
           /\ frames' \in Seq(Frames) /\ Len(frames') = Len(frames) + 1
           /\ Len(frames) \in Nat \ {0} /\ Top \in Frames
           /\ frames'[Len(frames) + 1] = Frame(p)
           /\ frames'[Len(frames)] = [Top EXCEPT !.children = @ \ {p}]
           /\ \A k \in 1 .. Len(frames) : k # Len(frames) => frames'[k] = frames[k]
           /\ visited' = visited \cup {p} /\ p \in Pids
<1>1. /\ frames \in Seq(Frames) /\ Len(frames) \in Nat \ {0} /\ Top \in Frames
  BY DEF TypeOK, Descend, Walks, Top
<1>2. PICK p \in Top.children :
         /\ frames' = Append([frames EXCEPT ![Len(frames)].children = @ \ {p}], Frame(p))
         /\ visited' = visited \cup {p}
  BY DEF Descend
<1> DEFINE g == [frames EXCEPT ![Len(frames)].children = @ \ {p}]
<1>3. [Top EXCEPT !.children = @ \ {p}] \in Frames /\ Frame(p) \in Frames /\ p \in Pids
  BY <1>1 DEF Frames, Frame
<1>4. /\ g \in Seq(Frames) /\ Len(g) = Len(frames)
      /\ g[Len(frames)] = [Top EXCEPT !.children = @ \ {p}]
      /\ \A k \in 1 .. Len(frames) : k # Len(frames) => g[k] = frames[k]
  <2>1. g = [frames EXCEPT ![Len(frames)] = [Top EXCEPT !.children = @ \ {p}]]
    BY DEF Top
  <2> HIDE DEF g
  <2> QED
    BY <1>1, <1>3, <2>1
<1>5. frames' = Append(g, Frame(p))
  BY <1>2
<1> HIDE DEF g
<1>6. /\ frames' \in Seq(Frames) /\ Len(frames') = Len(frames) + 1
      /\ frames'[Len(frames) + 1] = Frame(p)
      /\ \A k \in 1 .. Len(frames) : frames'[k] = g[k]
  BY <1>1, <1>3, <1>4, <1>5
<1>7. \A k \in 1 .. Len(frames) : k # Len(frames) => frames'[k] = frames[k]
  BY <1>4, <1>6
<1>8. frames'[Len(frames)] = [Top EXCEPT !.children = @ \ {p}]
  BY <1>1, <1>4, <1>6
<1> WITNESS p \in Top.children
<1> QED
  BY <1>1, <1>2, <1>3, <1>6, <1>7, <1>8

\* The innermost call returns.
LEMMA Returns ==
  ASSUME TypeOK, KillSelf
  PROVE  /\ frames' \in Seq(Frames) /\ Len(frames') = Len(frames) - 1
         /\ Len(frames) \in Nat \ {0} /\ Top \in Frames
         /\ \A k \in 1 .. Len(frames) - 1 : frames'[k] = frames[k]
<1>1. frames \in Seq(Frames) /\ Len(frames) \in Nat \ {0} /\ Top \in Frames
  BY DEF TypeOK, KillSelf, Walks, Top
<1>2. frames' = SubSeq(frames, 1, Len(frames) - 1)
  BY DEF KillSelf
<1>3. /\ 1 \in 1 .. Len(frames) + 1 /\ Len(frames) - 1 \in 1 - 1 .. Len(frames)
  BY <1>1
<1>4. /\ frames' \in Seq(Frames)
      /\ Len(frames') = IF 1 <= Len(frames) - 1 THEN (Len(frames) - 1) - 1 + 1 ELSE 0
      /\ \A k \in 1 .. (Len(frames) - 1) - 1 + 1 : frames'[k] = frames[1 + k - 1]
  BY <1>1, <1>2, <1>3, SubSeqProperties
<1>5. Len(frames') = Len(frames) - 1
  <2> DEFINE m == Len(frames)
  <2>1. m \in Nat \ {0} /\ Len(frames') = IF 1 <= m - 1 THEN (m - 1) - 1 + 1 ELSE 0
    BY <1>1, <1>4
  <2> HIDE DEF m
  <2>2. Len(frames') = m - 1
    BY <2>1
  <2> QED
    BY <2>2 DEF m
<1>6. ASSUME NEW k \in 1 .. Len(frames) - 1
      PROVE  frames'[k] = frames[k]
  <2>1. k \in 1 .. (Len(frames) - 1) - 1 + 1 /\ 1 + k - 1 = k
    BY <1>1
  <2> QED
    BY <1>4, <2>1
<1> QED
  BY <1>1, <1>4, <1>5, <1>6

-----------------------------------------------------------------------------
(* Type correctness *)

\* What a process does by itself leaves quiet a truth value.
LEMMA ActType ==
  ASSUME TypeOK, Act
  PROVE  quiet' \in BOOLEAN
  BY DEF TypeOK, Act

\* Every step keeps the types.
LEMMA TypeStep ==
  ASSUME TypeOK, Ancestry, [Next]_vars
  PROVE  TypeOK'
<1>1. ASSUME NEW p \in Pids, Fork(p) PROVE TypeOK'
  <2>1. /\ state' \in [Pids -> {"none", "alive", "zombie", "gone"}]
        /\ parent' \in [Pids -> Pids \cup {Reaper}]
        /\ group' \in [Pids -> Pids] /\ piped' \in [Pids -> BOOLEAN]
    BY <1>1, Forks DEF TypeOK
  <2> QED
    BY <1>1, <2>1, ActType DEF TypeOK, Fork, Act
<1>2. ASSUME NEW p \in Pids, Detach(p) PROVE TypeOK'
  BY <1>2, ActType DEF TypeOK, Detach, Act
<1>2a. ASSUME NEW p \in Pids, Join(p) PROVE TypeOK'
  BY <1>2a, ActType DEF TypeOK, Join, Act, Alive
<1>3. ASSUME NEW p \in Pids, Exit(p) PROVE TypeOK'
  <2>1. Die({p}) /\ Act /\ moved' = moved /\ joined' = joined
    BY <1>3 DEF Exit
  <2> QED
    BY <2>1, Deaths, ActType DEF TypeOK, Act
<1>4. ASSUME NEW p \in Pids, Reap(p) PROVE TypeOK'
  BY <1>4 DEF TypeOK, Reap, history
<1>5. CASE Reject \/ StartFails \/ Complete \/ AbortReturns \/ Cancel
  <2>1. UNCHANGED <<state, parent, group, piped, frames, visited, tree, quiet, moved, joined>>
    BY <1>5 DEF Reject, StartFails, Complete, AbortReturns, Cancel, processes, history
  <2>2. pc' \in {"request", "select", "kill", "returned"} /\ reply' \in {0, 200, 400, 500}
    BY <1>5 DEF Reject, StartFails, Complete, AbortReturns, Cancel, Return, TypeOK
  <2>3. cancelled' \in BOOLEAN
    BY <1>5 DEF Reject, StartFails, Complete, AbortReturns, Cancel, TypeOK
  <2> QED
    BY <2>1, <2>2, <2>3 DEF TypeOK
<1>6. CASE Start
  BY <1>6 DEF TypeOK, Start, history
<1>7. CASE Abort
  <2>1. frames' \in Seq(Frames)
    BY <1>7, Identifiers DEF Abort, Frame, Frames
  <2>2. tree' \subseteq Pids /\ visited' \subseteq Pids
    BY <1>7, Identifiers DEF Abort, Descendants, Below
  <2> QED
    BY <1>7, <2>1, <2>2 DEF TypeOK, Abort, processes
<1>8. CASE ReadDir
  <2>1. Top \in Frames /\ frames # <<>>
    BY <1>8 DEF TypeOK, ReadDir, Walks, Top
  <2>2. [Top EXCEPT !.step = "read", !.unread = Shown] \in Frames
    BY <2>1 DEF Frames, Shown
  <2>3. frames' \in Seq(Frames)
    BY <1>8, <2>1, <2>2, TopChanges DEF ReadDir
  <2> QED
    BY <1>8, <2>3 DEF TypeOK, ReadDir, processes, history
<1>9. CASE ReadStat
  <2>1. Top \in Frames /\ frames # <<>>
    BY <1>9 DEF TypeOK, ReadStat, Walks, Top
  <2>2. PICK p : SetTop([Top EXCEPT !.unread = @ \ {p}, !.children =
                    IF p \in Shown /\ parent[p] = Top.root THEN @ \cup {p} ELSE @])
    BY <1>9 DEF ReadStat
  <2>3. [Top EXCEPT !.unread = @ \ {p}, !.children =
            IF p \in Shown /\ parent[p] = Top.root THEN @ \cup {p} ELSE @] \in Frames
    BY <2>1 DEF Frames, Shown
  <2>4. frames' \in Seq(Frames)
    BY <2>1, <2>2, <2>3, TopChanges
  <2> QED
    BY <1>9, <2>4 DEF TypeOK, ReadStat, processes, history
<1>10. CASE Descend
  <2>1. frames' \in Seq(Frames) /\ visited' \subseteq Pids
    <3>1. PICK p \in Pids : frames' \in Seq(Frames) /\ visited' = visited \cup {p}
      BY <1>10, Descends
    <3> QED
      BY <3>1 DEF TypeOK
  <2> QED
    BY <1>10, <2>1 DEF TypeOK, Descend, processes
<1>11. CASE KillGroup
  <2>1. Top \in Frames /\ frames # <<>>
    BY <1>11 DEF TypeOK, KillGroup, Walks, Top
  <2>2. [Top EXCEPT !.step = "self"] \in Frames
    BY <2>1 DEF Frames
  <2>3. frames' \in Seq(Frames)
    BY <1>11, <2>1, <2>2, TopChanges DEF KillGroup
  <2> QED
    BY <1>11, <2>3, Deaths DEF TypeOK, KillGroup, history
<1>12. CASE KillSelf
  <2>1. /\ Die({Top.root})
        /\ UNCHANGED <<pc, cancelled, reply, visited, tree, quiet, moved, joined>>
    BY <1>12 DEF KillSelf, history
  <2> QED
    BY <1>12, <2>1, Returns, Deaths DEF TypeOK
<1>13. CASE UNCHANGED vars
  BY <1>13 DEF TypeOK, vars, processes, history
<1> QED
  BY <1>1, <1>2, <1>2a, <1>3, <1>4, <1>5, <1>6, <1>7, <1>8, <1>9, <1>10, <1>11, <1>12, <1>13
     DEF Next, Walk, Finished

-----------------------------------------------------------------------------
(* Parents and groups *)

\* A step of the handler that sends no signal.
LEMMA AncestryKept ==
  ASSUME Ancestry, UNCHANGED processes, joined' = joined, pc' \in {pc, "kill", "returned"}
  PROVE  Ancestry'
  BY DEF Ancestry, processes, Alive, Upwards

\* Deaths make orphans, which takes sets that are closed upwards away.
LEMMA AncestryDies ==
  ASSUME TypeOK, Ancestry, NEW dead, Die(dead), pc' = pc, joined' = joined
  PROVE  Ancestry'
<1>1. /\ group' = group /\ Alive' = Alive \ dead
      /\ \A p \in Pids : (state'[p] = "none") <=> (state[p] = "none")
      /\ \A p \in Pids : parent'[p] = IF parent[p] \in dead \cap Alive THEN Reaper ELSE parent[p]
  BY Deaths
<1>2. /\ group'[Root] = Root /\ parent'[Root] = Reaper
      /\ pc' = "request" => state'[Root] = "none"
      /\ pc' = "select" => state'[Root] # "none"
      /\ \A p, q \in Pids : p < q /\ state'[p] = "none" => state'[q] = "none"
  BY <1>1, Identifiers DEF Ancestry
<1>3. \A p \in Pids : parent'[p] \in {Reaper} \cup Alive' /\ parent'[p] < p
  <2>1. \A p \in Pids : Reaper < p
    BY DEF Pids, Reaper
  <2> QED
    BY <1>1, <2>1 DEF Ancestry
<1>4. ASSUME ~joined', NEW p \in Alive', NEW S \in SUBSET Pids, p \in S, Upwards(S)'
      PROVE  group'[p] \in S
  <2>1. \A q \in S \ {Root} : parent'[q] \in S
    BY <1>4 DEF Upwards
  <2>2. \A q \in S \ {Root} : parent'[q] = parent[q]
    BY <1>1, <2>1, Identifiers
  <2>3. Upwards(S)
    BY <2>1, <2>2 DEF Upwards
  <2> QED
    BY <1>1, <1>4, <2>3 DEF Ancestry
<1> QED
  BY <1>2, <1>3, <1>4 DEF Ancestry

\* A fork extends the sets that are closed upwards by the new process only.
LEMMA AncestryForks ==
  ASSUME TypeOK, Ancestry, NEW p \in Pids, Fork(p)
  PROVE  Ancestry'
<1>1. PICK c \in Pids :
           /\ state[c] = "none" /\ p < c /\ c # Root /\ Alive' = Alive \cup {c}
           /\ state' = [state EXCEPT ![c] = "alive"] /\ parent' = [parent EXCEPT ![c] = p]
           /\ group' = [group EXCEPT ![c] = group[p]]
           /\ \A q \in Pids : parent[q] # c
           /\ \A q \in Pids : q < c => state[q] # "none"
  BY Forks
<1>2. p \in Alive /\ pc' = pc /\ joined' = joined /\ c \notin Alive /\ p # c
  BY <1>1 DEF Fork, Act, Alive
<1>3. /\ group'[Root] = Root /\ parent'[Root] = Reaper
      /\ pc' = "request" => state'[Root] = "none"
      /\ pc' = "select" => state'[Root] # "none"
  BY <1>1, <1>2, Identifiers DEF Ancestry, TypeOK
<1>4. \A q \in Pids : parent'[q] \in {Reaper} \cup Alive' /\ parent'[q] < q
  BY <1>1, <1>2 DEF Ancestry, TypeOK
<1>5. \A q, r \in Pids : q < r /\ state'[q] = "none" => state'[r] = "none"
  <2> SUFFICES ASSUME NEW q \in Pids, NEW r \in Pids, q < r, state'[q] = "none"
               PROVE  state'[r] = "none"
    OBVIOUS
  <2>1. state[q] = "none" /\ q # c
    BY <1>1 DEF TypeOK
  <2>2. state[r] = "none"
    BY <2>1 DEF Ancestry
  <2>3. ~(q < c)
    BY <1>1, <2>1
  <2>4. r # c
    BY <2>3
  <2> QED
    BY <1>1, <2>2, <2>4 DEF TypeOK
<1>6. ASSUME ~joined', NEW q \in Alive', NEW S \in SUBSET Pids, q \in S, Upwards(S)'
      PROVE  group'[q] \in S
  <2> DEFINE R == S \ {c}
  <2>1. \A r \in S \ {Root} : parent'[r] \in S
    BY <1>6 DEF Upwards
  <2>2. \A r \in R \ {Root} : parent'[r] = parent[r] /\ parent[r] # c
    BY <1>1 DEF TypeOK
  <2>3. Upwards(R) /\ R \in SUBSET Pids
    BY <2>1, <2>2 DEF Upwards
  <2>4. CASE q = c
    <3>1. p \in R
      BY <1>1, <1>2, <1>6, <2>1, <2>4 DEF TypeOK
    <3>2. group[p] \in R
      BY <1>2, <1>6, <2>3, <3>1 DEF Ancestry
    <3> QED
      BY <1>1, <2>4, <3>2 DEF TypeOK
  <2>5. CASE q # c
    <3>1. q \in Alive /\ q \in R
      BY <1>1, <1>6, <2>5
    <3>2. group[q] \in R
      BY <1>2, <1>6, <2>3, <3>1 DEF Ancestry
    <3> QED
      BY <1>1, <1>6, <2>5, <3>2 DEF TypeOK
  <2> QED
    BY <2>4, <2>5
<1> QED
  BY <1>3, <1>4, <1>5, <1>6 DEF Ancestry

\* Every step keeps parents and groups in order.
LEMMA AncestryStep ==
  ASSUME TypeOK, Ancestry, [Next]_vars
  PROVE  Ancestry'
<1>1. ASSUME NEW p \in Pids, Fork(p) PROVE Ancestry'
  BY <1>1, AncestryForks
<1>2. ASSUME NEW p \in Pids, Detach(p) PROVE Ancestry'
  <2>1. /\ p \in Alive /\ p # Root /\ state' = state /\ parent' = parent /\ pc' = pc
        /\ group' = [group EXCEPT ![p] = p] /\ joined' = joined
    BY <1>2 DEF Detach, Act, Ancestry
  <2>2. group'[p] = p /\ \A q \in Pids : q # p => group'[q] = group[q]
    BY <2>1 DEF TypeOK
  <2>3. Alive' = Alive /\ Alive \subseteq Pids
    BY <2>1 DEF Alive
  <2>4. ~joined' => \A q \in Alive' : \A S \in SUBSET Pids : q \in S /\ Upwards(S)' => group'[q] \in S
    BY <2>1, <2>2, <2>3 DEF Ancestry, Upwards
  <2> QED
    BY <2>1, <2>2, <2>3, <2>4, Identifiers DEF Ancestry
<1>2a. ASSUME NEW p \in Pids, Join(p) PROVE Ancestry'
  <2>1. /\ p \in Pids \ {Root} /\ state' = state /\ parent' = parent /\ pc' = pc /\ joined'
        /\ \E g : group' = [group EXCEPT ![p] = g]
    BY <1>2a DEF Join, Act
  <2>2. group'[Root] = group[Root] /\ Alive' = Alive
    BY <2>1, Identifiers DEF TypeOK, Alive
  <2> QED
    BY <2>1, <2>2 DEF Ancestry
<1>3. ASSUME NEW p \in Pids, Exit(p) PROVE Ancestry'
  BY <1>3, AncestryDies, Identifiers DEF Exit, Act
<1>4. ASSUME NEW p \in Pids, Reap(p) PROVE Ancestry'
  <2>1. /\ state[p] = "zombie" /\ state' = [state EXCEPT ![p] = "gone"]
        /\ parent' = parent /\ group' = group /\ pc' = pc /\ joined' = joined
    BY <1>4 DEF Reap, history
  <2>2. Alive' = Alive /\ \A q \in Pids : (state'[q] = "none") <=> (state[q] = "none")
    BY <2>1 DEF Alive, TypeOK
  <2> QED
    BY <2>1, <2>2, Identifiers DEF Ancestry, Upwards
<1>5. CASE Reject \/ StartFails \/ Complete \/ AbortReturns \/ Cancel \/ Abort
  <2>1. UNCHANGED <<processes, joined>> /\ pc' \in {pc, "kill", "returned"}
    BY <1>5 DEF Reject, StartFails, Complete, AbortReturns, Cancel, Abort, Return, history
  <2> QED
    BY <2>1, AncestryKept
<1>6. CASE Start
  <2>1. /\ state' = [state EXCEPT ![Root] = "alive"] /\ parent' = parent /\ group' = group
        /\ pc = "request" /\ pc' = "select"
    BY <1>6 DEF Start
  <2>2. \A p \in Pids : state[p] = "none"
    <3>1. \A p \in Pids : p = Root \/ Root < p
      BY DEF Pids, Root
    <3> QED
      BY <2>1, <3>1, Identifiers DEF Ancestry
  <2>3. Alive = {} /\ Alive' = {Root} /\ \A p \in Pids : (state'[p] = "none") <=> (p # Root)
    <3>1. \A p \in Pids : state'[p] = IF p = Root THEN "alive" ELSE "none"
      BY <2>1, <2>2 DEF TypeOK
    <3> QED
      BY <2>2, <3>1, Identifiers DEF Alive
  <2>4. \A p \in Pids : parent'[p] = Reaper
    BY <2>1, <2>3 DEF Ancestry
  <2>5. \A p \in Alive' : \A S \in SUBSET Pids : p \in S /\ Upwards(S)' => group'[p] \in S
    BY <2>1, <2>3 DEF Ancestry
  <2>6. \A p, q \in Pids : p < q /\ state'[p] = "none" => state'[q] = "none"
    <3>1. \A p, q \in Pids : p < q => q # Root
      BY DEF Pids, Root
    <3> QED
      BY <2>3, <3>1
  <2> QED
    BY <2>1, <2>3, <2>4, <2>5, <2>6, Identifiers DEF Ancestry
<1>7. CASE ReadDir \/ ReadStat \/ Descend
  <2>1. UNCHANGED <<processes, joined>> /\ pc' = pc
    BY <1>7 DEF ReadDir, ReadStat, Descend, history
  <2> QED
    BY <2>1, AncestryKept
<1>8. CASE KillGroup \/ KillSelf
  <2>1. (\E dead : Die(dead)) /\ pc' = pc /\ joined' = joined
    BY <1>8 DEF KillGroup, KillSelf, history
  <2> QED
    BY <2>1, AncestryDies, Identifiers
<1>9. CASE UNCHANGED vars
  BY <1>9, AncestryKept DEF vars, history
<1> QED
  BY <1>1, <1>2, <1>2a, <1>3, <1>4, <1>5, <1>6, <1>7, <1>8, <1>9 DEF Next, Walk, Finished

-----------------------------------------------------------------------------
(* The calls of killProcessTree *)

\* A process that was started is never started again, and keeps its parent or
\* becomes an orphan.
LEMMA Lifecycle ==
  ASSUME TypeOK, Ancestry, [Next]_vars
  PROVE  \A p \in Pids : state[p] # "none" =>
           /\ state'[p] # "none" /\ (p \in Alive' => p \in Alive)
           /\ parent'[p] \in {parent[p], Reaper}
<1> DEFINE Q == \A p \in Pids : state[p] # "none" =>
                  /\ state'[p] # "none" /\ (p \in Alive' => p \in Alive)
                  /\ parent'[p] \in {parent[p], Reaper}
<1>1. ASSUME NEW p \in Pids, Fork(p) PROVE Q
  <2>1. PICK c \in Pids :
           /\ state[c] = "none" /\ Alive' = Alive \cup {c}
           /\ state' = [state EXCEPT ![c] = "alive"] /\ parent' = [parent EXCEPT ![c] = p]
    BY <1>1, Forks
  <2> QED
    BY <2>1 DEF TypeOK
<1>2. ASSUME NEW dead, Die(dead) PROVE Q
  <2>1. /\ Alive' = Alive \ dead
        /\ \A p \in Pids : (state'[p] = "none") <=> (state[p] = "none")
        /\ \A p \in Pids : parent'[p] = IF parent[p] \in dead \cap Alive THEN Reaper ELSE parent[p]
    BY <1>2, Deaths
  <2> QED
    BY <2>1
<1>3. ASSUME NEW p \in Pids, Reap(p) PROVE Q
  BY <1>3 DEF Reap, TypeOK, Alive
<1>4. CASE Start
  <2>1. state[Root] = "none"
    BY <1>4 DEF Start, Ancestry
  <2> QED
    BY <1>4, <2>1 DEF Start, TypeOK, Alive
<1>5. CASE state' = state /\ parent' = parent
  BY <1>5 DEF Alive
<1>6. ASSUME NEW p \in Pids, Exit(p) PROVE Q
  BY <1>2, <1>6 DEF Exit
<1>7. CASE KillGroup
  BY <1>2, <1>7 DEF KillGroup
<1>8. CASE KillSelf
  BY <1>2, <1>8 DEF KillSelf
<1>9. ASSUME NEW p \in Pids, Detach(p) PROVE Q
  BY <1>5, <1>9 DEF Detach
<1>9a. ASSUME NEW p \in Pids, Join(p) PROVE Q
  BY <1>5, <1>9a DEF Join
<1>10. CASE Reject \/ StartFails \/ Cancel \/ Complete \/ Abort \/ AbortReturns
  BY <1>5, <1>10 DEF Reject, StartFails, Cancel, Complete, Abort, AbortReturns, processes
<1>11. CASE ReadDir \/ ReadStat \/ Descend \/ UNCHANGED vars
  BY <1>5, <1>11 DEF ReadDir, ReadStat, Descend, vars, processes
<1> QED
  BY <1>1, <1>3, <1>4, <1>6, <1>7, <1>8, <1>9, <1>9a, <1>10, <1>11 DEF Next, Walk, Finished

\* What neither starts nor continues the walk leaves its calls alone.
LEMMA Aside ==
  ASSUME Calls, [Next]_vars, ~Abort, ~Walk
  PROVE  /\ frames' = frames /\ visited' = visited /\ tree' = tree
         /\ frames # <<>> => pc' = pc
         /\ pc' \in {"request", "select"} => pc \in {"request", "select"}
         /\ pc' = "kill" => pc = "kill"
<1>1. CASE \E p \in Pids : Fork(p) \/ Detach(p) \/ Join(p) \/ Exit(p)
  BY <1>1 DEF Fork, Detach, Join, Exit, Act
<1>2. CASE \E p \in Pids : Reap(p)
  BY <1>2 DEF Reap, history
<1>3. CASE Reject \/ StartFails \/ Start \/ Cancel \/ Complete \/ AbortReturns
  BY <1>3 DEF Reject, StartFails, Start, Cancel, Complete, AbortReturns, Return, history, Calls
<1>4. CASE UNCHANGED vars
  BY <1>4 DEF vars, history
<1> QED
  BY <1>1, <1>2, <1>3, <1>4 DEF Next, Finished

\* Reading /proc: whatever is added to a call was shown, a child was seen to be
\* one, and no live child is lost.
LEMMA Reads ==
  ASSUME TypeOK, ReadDir \/ ReadStat
  PROVE  /\ frames' \in Seq(Frames) /\ Len(frames') = Len(frames)
         /\ Len(frames) \in Nat \ {0} /\ Top \in Frames /\ Top.step # "self"
         /\ \A k \in 1 .. Len(frames) : k # Len(frames) => frames'[k] = frames[k]
         /\ frames'[Len(frames)].root = Top.root /\ frames'[Len(frames)].step = "read"
         /\ \A p \in frames'[Len(frames)].unread : p \in Shown \/ p \in Top.unread
         /\ \A p \in frames'[Len(frames)].children :
              p \in Top.children \/ (p \in Shown /\ parent[p] = Top.root)
         /\ \A p \in Alive :
              parent[p] = Top.root /\ (Top.step = "list" \/ p \in Top.unread \cup Top.children) =>
                p \in frames'[Len(frames)].unread \cup frames'[Len(frames)].children
         /\ UNCHANGED <<state, parent, group, pc, visited, tree, quiet, moved, joined>>
<1>0. UNCHANGED <<state, parent, group, pc, visited, tree, quiet, moved, joined>>
  BY DEF ReadDir, ReadStat, processes, history
<1>1. /\ frames \in Seq(Frames) /\ frames # <<>> /\ Top \in Frames /\ Top.step \in {"list", "read"}
      /\ Alive \subseteq Shown
  BY DEF TypeOK, ReadDir, ReadStat, Walks, Top, Alive, Shown
<1>2. CASE ReadDir
  <2> DEFINE f == [Top EXCEPT !.step = "read", !.unread = Shown]
  <2>1. /\ f \in Frames /\ f.root = Top.root /\ f.step = "read"
        /\ f.unread = Shown /\ f.children = Top.children
    BY <1>1 DEF Frames, Shown
  <2>2. SetTop(f)
    BY <1>2 DEF ReadDir
  <2> HIDE DEF f
  <2> QED
    BY <1>0, <1>1, <2>1, <2>2, TopChanges
<1>3. CASE ReadStat
  <2>1. PICK p : SetTop([Top EXCEPT !.unread = @ \ {p}, !.children =
                    IF p \in Shown /\ parent[p] = Top.root THEN @ \cup {p} ELSE @])
    BY <1>3 DEF ReadStat
  <2> DEFINE f == [Top EXCEPT !.unread = @ \ {p}, !.children =
                    IF p \in Shown /\ parent[p] = Top.root THEN @ \cup {p} ELSE @]
  <2>2. Top.step = "read"
    BY <1>3 DEF ReadStat, Walks
  <2>3. /\ f \in Frames /\ f.root = Top.root /\ f.step = "read" /\ f.unread = Top.unread \ {p}
        /\ f.children = IF p \in Shown /\ parent[p] = Top.root THEN Top.children \cup {p} ELSE Top.children
    BY <1>1, <2>2 DEF Frames, Shown
  <2>4. SetTop(f)
    BY <2>1
  <2> HIDE DEF f
  <2> QED
    BY <1>0, <1>1, <2>2, <2>3, <2>4, TopChanges
<1> QED
  BY <1>2, <1>3

\* kill(-root): the members of the group die, and the call goes on to kill(root).
LEMMA GroupKilled ==
  ASSUME TypeOK, KillGroup
  PROVE  /\ frames' \in Seq(Frames) /\ Len(frames') = Len(frames)
         /\ Len(frames) \in Nat \ {0} /\ Top \in Frames
         /\ Top.step = "read" /\ Top.unread = {} /\ Top.children = {}
         /\ \A k \in 1 .. Len(frames) : k # Len(frames) => frames'[k] = frames[k]
         /\ frames'[Len(frames)].root = Top.root /\ frames'[Len(frames)].step = "self"
         /\ frames'[Len(frames)].unread = {} /\ frames'[Len(frames)].children = {}
         /\ group' = group /\ Alive' = {p \in Alive : group[p] # Top.root}
         /\ UNCHANGED <<pc, visited, tree, quiet, moved, joined>>
<1>1. /\ frames \in Seq(Frames) /\ frames # <<>> /\ Top \in Frames
      /\ Top.step = "read" /\ Top.unread = {} /\ Top.children = {}
      /\ UNCHANGED <<pc, visited, tree, quiet, moved, joined>>
  BY DEF TypeOK, KillGroup, Walks, Top, history
<1> DEFINE f == [Top EXCEPT !.step = "self"]
           dead == {p \in Pids : group[p] = Top.root}
<1>2. /\ f \in Frames /\ f.root = Top.root /\ f.step = "self" /\ f.unread = {} /\ f.children = {}
  BY <1>1 DEF Frames
<1>3. SetTop(f) /\ Die(dead)
  BY DEF KillGroup
<1>4. group' = group /\ Alive' = Alive \ dead
  BY <1>3, Deaths
<1>5. Alive' = {p \in Alive : group[p] # Top.root}
  BY <1>4 DEF Alive
<1> HIDE DEF f
<1> QED
  BY <1>1, <1>2, <1>3, <1>4, <1>5, TopChanges

\* What the walk has seen stays started.
LEMMA SeenStep ==
  ASSUME TypeOK, Ancestry, Seen, Calls, [Next]_vars
  PROVE  Seen'
<1>1. \A p \in Pids : state[p] # "none" => state'[p] # "none"
  BY Lifecycle
<1>2. \A p \in Shown : p \in Pids /\ state[p] # "none"
  BY DEF Shown
<1>3. frames \in Seq(Frames) /\ visited \subseteq Pids /\ tree \subseteq Pids
  BY DEF TypeOK
<1>3a. \A k \in 1 .. Len(frames) : frames[k].unread \subseteq Pids /\ frames[k].children \subseteq Pids
  <2>1. \A k \in 1 .. Len(frames) : frames[k] \in Frames
    BY <1>3
  <2> QED
    BY <2>1 DEF Frames
<1>4. CASE ~Abort /\ ~Walk
  BY <1>1, <1>3, <1>3a, <1>4, Aside DEF Seen
<1>5. CASE Abort
  <2>1. /\ visited' = {Root} /\ tree' = Descendants /\ frames' = <<Frame(Root)>>
        /\ state' = state /\ pc = "select"
    BY <1>5 DEF Abort, processes
  <2>2. Len(frames') = 1 /\ frames'[1].unread = {} /\ frames'[1].children = {}
    BY <2>1 DEF Frame
  <2>3. \A p \in visited' \cup tree' : state'[p] # "none"
    BY <2>1, Identifiers DEF Descendants, Alive, Ancestry
  <2> QED
    BY <2>2, <2>3 DEF Seen
<1>6. CASE ReadDir \/ ReadStat
  <2>1. Len(frames) \in 1 .. Len(frames) /\ Top = frames[Len(frames)]
    BY <1>6, Reads DEF Top
  <2> QED
    BY <1>1, <1>2, <1>3, <1>3a, <1>6, <2>1, Reads DEF Seen
<1>7. CASE Descend
  <2>1. PICK p \in Top.children :
           /\ frames' \in Seq(Frames) /\ Len(frames') = Len(frames) + 1
           /\ Len(frames) \in Nat \ {0} /\ Top \in Frames
           /\ frames'[Len(frames) + 1] = Frame(p)
           /\ frames'[Len(frames)] = [Top EXCEPT !.children = @ \ {p}]
           /\ \A k \in 1 .. Len(frames) : k # Len(frames) => frames'[k] = frames[k]
           /\ visited' = visited \cup {p} /\ p \in Pids
    BY <1>7, Descends
  <2>2. Len(frames) \in 1 .. Len(frames) /\ Top = frames[Len(frames)] /\ tree' = tree /\ state' = state
    BY <1>7, <2>1 DEF Top, Descend, processes
  <2>3. state[p] # "none"
    BY <2>1, <2>2 DEF Seen
  <2>4. ASSUME NEW k \in 1 .. Len(frames'), NEW q \in frames'[k].unread \cup frames'[k].children
        PROVE  state'[q] # "none"
    <3>1. CASE k = Len(frames) + 1
      BY <2>1, <2>4, <3>1 DEF Frame
    <3>2. CASE k = Len(frames)
      <4>1. frames'[k].unread = Top.unread /\ frames'[k].children \subseteq Top.children
        BY <2>1, <3>2 DEF Frames
      <4> QED
        BY <2>2, <2>4, <4>1 DEF Seen
    <3>3. CASE k # Len(frames) + 1 /\ k # Len(frames)
      <4>1. k \in 1 .. Len(frames) /\ frames'[k] = frames[k]
        BY <2>1, <3>3
      <4> QED
        BY <2>2, <2>4, <4>1 DEF Seen
    <3> QED
      BY <3>1, <3>2, <3>3
  <2> QED
    BY <2>1, <2>2, <2>3, <2>4 DEF Seen
<1>8. CASE KillGroup
  BY <1>1, <1>3, <1>3a, <1>8, GroupKilled DEF Seen
<1>9. CASE KillSelf
  <2>1. visited' = visited /\ tree' = tree
    BY <1>9 DEF KillSelf, history
  <2>2. \A k \in 1 .. Len(frames') : k \in 1 .. Len(frames) /\ frames'[k] = frames[k]
    BY <1>9, Returns
  <2> QED
    BY <1>1, <1>3, <1>3a, <2>1, <2>2 DEF Seen
<1> QED
  BY <1>4, <1>5, <1>6, <1>7, <1>8, <1>9 DEF Walk

\* The calls that are not innermost, and the process and the children of the
\* innermost one, are linked after any step as they were before.
LEMMA LinksStay ==
  ASSUME TypeOK, Ancestry, Seen, Calls, [Next]_vars, NEW k \in 1 .. Len(frames)
  PROVE  /\ frames[k] \in Frames /\ frames[k].root \in Pids
         /\ \A p \in frames[k].children : p \in Pids /\ parent'[p] \in {frames[k].root, Reaper}
         /\ k > 1 => parent'[frames[k].root] \in {frames[k - 1].root, Reaper}
<1>1. frames[k] \in Frames /\ frames[k].root \in Pids /\ frames[k].children \subseteq Pids
  <2>1. frames[k] \in Frames
    BY DEF TypeOK
  <2> QED
    BY <2>1 DEF Frames
<1>2. frames[k].root \in visited
  BY DEF Calls
<1>3. \A p \in Pids : state[p] # "none" => parent'[p] \in {parent[p], Reaper}
  BY Lifecycle
<1>4. state[frames[k].root] # "none" /\ \A p \in frames[k].children : state[p] # "none"
  BY <1>2 DEF Seen
<1> QED
  BY <1>1, <1>3, <1>4 DEF Calls

\* The stack of calls follows the tree of processes.
LEMMA CallsStep ==
  ASSUME TypeOK, Ancestry, Seen, Calls, [Next]_vars
  PROVE  Calls'
<1> DEFINE n == Len(frames)
<1>0. \A k \in 1 .. n :
         /\ frames[k] \in Frames /\ frames[k].root \in Pids
         /\ \A p \in frames[k].children : p \in Pids /\ parent'[p] \in {frames[k].root, Reaper}
         /\ k > 1 => parent'[frames[k].root] \in {frames[k - 1].root, Reaper}
  BY LinksStay
<1>0a. \A k \in 1 .. n :
         /\ frames[k].root \in visited
         /\ \A p \in frames[k].children : frames[k].root < p
         /\ \A j \in 1 .. k - 1 : frames[j].root < frames[k].root
  BY DEF Calls
<1>1. CASE ~Abort /\ ~Walk
  <2>1. /\ frames' = frames /\ visited' = visited /\ tree' = tree
        /\ frames # <<>> => pc' = pc
        /\ pc' \in {"request", "select"} => pc \in {"request", "select"}
        /\ pc' = "kill" => pc = "kill"
    BY <1>1, Aside
  <2>2. \A k \in 1 .. Len(frames') :
         /\ frames'[k].root \in visited'
         /\ \A p \in frames'[k].children : frames'[k].root < p /\ parent'[p] \in {frames'[k].root, Reaper}
         /\ k > 1 => parent'[frames'[k].root] \in {frames'[k - 1].root, Reaper}
         /\ \A j \in 1 .. k - 1 : frames'[j].root < frames'[k].root
    BY <2>1, <1>0, <1>0a
  <2> QED
    BY <2>1, <2>2 DEF Calls
<1>2. CASE Abort
  <2>1. /\ visited' = {Root} /\ frames' = <<Frame(Root)>> /\ pc' = "kill"
    BY <1>2 DEF Abort
  <2>2. Len(frames') = 1 /\ frames'[1].root = Root /\ frames'[1].children = {}
    BY <2>1 DEF Frame
  <2> QED
    BY <2>1, <2>2 DEF Calls
<1>3. ASSUME Walk PROVE n \in Nat \ {0} /\ n \in 1 .. n /\ 1 \in 1 .. n /\ Top = frames[n]
                        /\ pc = "kill" /\ pc' = pc /\ frames[1].root = Root
  BY <1>3 DEF TypeOK, Walk, ReadDir, ReadStat, Descend, KillGroup, KillSelf, Walks, Top, Calls
<1>4. CASE ReadDir \/ ReadStat
  <2>1. /\ Len(frames') = n /\ visited' = visited /\ parent' = parent
        /\ \A k \in 1 .. n : frames'[k].root = frames[k].root
        /\ \A k \in 1 .. n : k # n => frames'[k].children = frames[k].children
        /\ \A p \in frames'[n].children : p \in Top.children \/ (p \in Shown /\ parent[p] = Top.root)
    BY <1>3, <1>4, Reads DEF Walk
  <2>2. ASSUME NEW k \in 1 .. n, NEW p \in frames'[k].children
        PROVE  frames'[k].root < p /\ parent'[p] \in {frames'[k].root, Reaper}
    <3>1. \A q \in Shown : q \in Pids /\ parent[q] < q
      BY DEF Shown, Ancestry
    <3> QED
      BY <1>0, <1>0a, <1>3, <1>4, <2>1, <2>2, <3>1 DEF Walk
  <2>3. frames' # <<>> => pc' = "kill" /\ frames'[1].root = Root
    BY <1>3, <1>4, <2>1 DEF Walk
  <2>4. \A k \in 1 .. n :
         /\ frames'[k].root \in visited'
         /\ k > 1 => parent'[frames'[k].root] \in {frames'[k - 1].root, Reaper}
         /\ \A j \in 1 .. k - 1 : frames'[j].root < frames'[k].root
    BY <1>0, <1>0a, <2>1
  <2> QED
    BY <1>3, <1>4, <2>1, <2>2, <2>3, <2>4 DEF Calls, Walk
<1>5. CASE Descend
  <2>1. PICK p \in Top.children :
           /\ Len(frames') = n + 1 /\ Top \in Frames
           /\ frames'[n + 1] = Frame(p)
           /\ frames'[n] = [Top EXCEPT !.children = @ \ {p}]
           /\ \A k \in 1 .. n : k # n => frames'[k] = frames[k]
           /\ visited' = visited \cup {p} /\ p \in Pids
    BY <1>5, Descends
  <2>2. /\ n \in Nat \ {0} /\ n \in 1 .. n /\ 1 \in 1 .. n /\ Top = frames[n]
        /\ pc = "kill" /\ pc' = pc /\ frames[1].root = Root
    BY <1>3, <1>5 DEF Walk
  <2>3. /\ frames'[n + 1].root = p /\ frames'[n + 1].children = {}
        /\ \A k \in 1 .. n : frames'[k].root = frames[k].root
        /\ \A k \in 1 .. n : frames'[k].children \subseteq frames[k].children
    <3>1. frames'[n].root = Top.root /\ frames'[n].children \subseteq Top.children
      BY <2>1 DEF Frames
    <3>2. frames'[n + 1].root = p /\ frames'[n + 1].children = {}
      BY <2>1 DEF Frame
    <3> QED
      BY <2>1, <2>2, <3>1, <3>2
  <2>4. Top.root < p /\ parent'[p] \in {Top.root, Reaper} /\ Root \in visited
    BY <1>0, <1>0a, <2>1, <2>2
  <2>5. ASSUME NEW k \in 1 .. n + 1
        PROVE  /\ frames'[k].root \in visited'
               /\ \A q \in frames'[k].children : frames'[k].root < q /\ parent'[q] \in {frames'[k].root, Reaper}
               /\ k > 1 => parent'[frames'[k].root] \in {frames'[k - 1].root, Reaper}
               /\ \A j \in 1 .. k - 1 : frames'[j].root < frames'[k].root
    <3>1. CASE k = n + 1
      <4>1. \A j \in 1 .. k - 1 : j \in 1 .. n /\ (j = n \/ j \in 1 .. n - 1)
        BY <2>2, <3>1
      <4>2. \A j \in 1 .. n - 1 : frames[j].root < frames[n].root
        BY <1>0a, <2>2
      <4>3. \A j \in 1 .. n : frames[j].root \in Nat
        BY <1>0, Identifiers
      <4>4. \A j \in 1 .. k - 1 : frames'[j].root < p
        <5> SUFFICES ASSUME NEW j \in 1 .. k - 1 PROVE frames'[j].root < p
          OBVIOUS
        <5>1. frames'[j].root = frames[j].root /\ frames[j].root \in Nat /\ frames[n].root \in Nat
          BY <2>2, <2>3, <4>1, <4>3
        <5>2. j = n \/ frames[j].root < frames[n].root
          BY <4>1, <4>2
        <5>3. frames[n].root < p /\ p \in Nat
          BY <2>1, <2>2, <2>4, Identifiers
        <5> QED
          BY <5>1, <5>2, <5>3
      <4> QED
        BY <2>1, <2>2, <2>3, <2>4, <3>1, <4>4
    <3>2. CASE k # n + 1
      <4>1. k \in 1 .. n /\ (k > 1 => k - 1 \in 1 .. n) /\ \A j \in 1 .. k - 1 : j \in 1 .. n
        BY <2>2, <3>2
      <4> QED
        BY <1>0, <1>0a, <2>1, <2>3, <4>1
    <3> QED
      BY <3>1, <3>2
  <2>6. frames'[1].root = Root /\ Root \in visited'
    BY <2>1, <2>2, <2>3, <2>4
  <2> QED
    BY <2>1, <2>2, <2>5, <2>6 DEF Calls
<1>6. CASE KillGroup
  <2>1. /\ Len(frames') = n /\ visited' = visited
        /\ \A k \in 1 .. n : frames'[k].root = frames[k].root
        /\ \A k \in 1 .. n : frames'[k].children \subseteq frames[k].children
    BY <1>3, <1>6, GroupKilled DEF Walk
  <2>2. \A k \in 1 .. n :
         /\ frames'[k].root \in visited'
         /\ \A p \in frames'[k].children : frames'[k].root < p /\ parent'[p] \in {frames'[k].root, Reaper}
         /\ k > 1 => parent'[frames'[k].root] \in {frames'[k - 1].root, Reaper}
         /\ \A j \in 1 .. k - 1 : frames'[j].root < frames'[k].root
    BY <1>0, <1>0a, <2>1
  <2> QED
    BY <1>3, <1>6, <2>1, <2>2 DEF Calls, Walk
<1>7. CASE KillSelf
  <2>1. /\ Len(frames') = n - 1 /\ n \in Nat \ {0} /\ frames' \in Seq(Frames)
        /\ \A k \in 1 .. n - 1 : frames'[k] = frames[k]
    BY <1>7, Returns
  <2>2. visited' = visited /\ pc = "kill" /\ pc' = pc /\ frames[1].root = Root
    BY <1>3, <1>7 DEF KillSelf, history, Walk
  <2>3. \A k \in 1 .. n - 1 :
         /\ frames'[k].root \in visited'
         /\ \A p \in frames'[k].children : frames'[k].root < p /\ parent'[p] \in {frames'[k].root, Reaper}
         /\ k > 1 => parent'[frames'[k].root] \in {frames'[k - 1].root, Reaper}
         /\ \A j \in 1 .. k - 1 : frames'[j].root < frames'[k].root
    <3> SUFFICES ASSUME NEW k \in 1 .. n - 1
                 PROVE  /\ frames'[k].root \in visited'
                        /\ \A p \in frames'[k].children :
                             frames'[k].root < p /\ parent'[p] \in {frames'[k].root, Reaper}
                        /\ k > 1 => parent'[frames'[k].root] \in {frames'[k - 1].root, Reaper}
                        /\ \A j \in 1 .. k - 1 : frames'[j].root < frames'[k].root
      OBVIOUS
    <3>1. /\ k \in 1 .. n /\ frames'[k] = frames[k] /\ (k > 1 => frames'[k - 1] = frames[k - 1])
          /\ \A j \in 1 .. k - 1 : frames'[j] = frames[j]
      BY <2>1
    <3> QED
      BY <1>0, <1>0a, <2>2, <3>1
  <2>4. frames' # <<>> => frames'[1].root = Root
    BY <2>1, <2>2
  <2> QED
    BY <2>1, <2>2, <2>3, <2>4 DEF Calls
<1> QED
  BY <1>1, <1>2, <1>4, <1>5, <1>6, <1>7 DEF Walk

-----------------------------------------------------------------------------
(* Who is dead *)

\* While no signal is sent, an empty group stays empty unless its leader moves.
LEMMA EmptyStays ==
  ASSUME TypeOK, Ancestry, Calls, Kills, [Next]_vars, ~Abort, ~Walk, NEW v \in visited, v \notin moved',
         \A p \in Alive : group[p] # v
  PROVE  \A p \in Alive' : group'[p] # v
<1>1. ASSUME NEW p \in Pids, Fork(p) PROVE \A q \in Alive' : group'[q] # v
  <2>1. PICK c \in Pids : Alive' = Alive \cup {c} /\ group' = [group EXCEPT ![c] = group[p]]
    BY <1>1, Forks
  <2>2. p \in Alive /\ Alive \subseteq Pids
    BY <1>1 DEF Fork, Alive
  <2> QED
    BY <2>1, <2>2 DEF TypeOK
<1>2. ASSUME NEW p \in Pids, Detach(p) PROVE \A q \in Alive' : group'[q] # v
  <2>1. /\ p \in Alive /\ group' = [group EXCEPT ![p] = p] /\ Alive' = Alive /\ Alive \subseteq Pids
        /\ moved' = IF pc = "kill" THEN moved \cup {p} ELSE moved
    BY <1>2 DEF Detach, Alive
  <2>2. p # v
    <3> SUFFICES ASSUME p = v PROVE FALSE
      OBVIOUS
    <3>1. frames # <<>>
      BY <2>1 DEF Kills
    <3> QED
      BY <2>1, <3>1 DEF Calls
  <2> QED
    BY <2>1, <2>2 DEF TypeOK
<1>2a. ASSUME NEW p \in Pids, Join(p) PROVE \A q \in Alive' : group'[q] # v
  <2>1. PICK q \in Alive : group' = [group EXCEPT ![p] = group[q]] /\ Alive' = Alive /\ Alive \subseteq Pids
    BY <1>2a DEF Join, Alive
  <2> QED
    BY <2>1 DEF TypeOK
<1>3. ASSUME NEW p \in Pids, Exit(p) PROVE \A q \in Alive' : group'[q] # v
  BY <1>3, Deaths DEF Exit
<1>4. ASSUME NEW p \in Pids, Reap(p) PROVE \A q \in Alive' : group'[q] # v
  BY <1>4 DEF Reap, Alive, TypeOK
<1>5. CASE Start
  BY <1>5 DEF Start, Calls
<1>6. CASE Reject \/ StartFails \/ Cancel \/ Complete \/ AbortReturns \/ UNCHANGED vars
  BY <1>6 DEF Reject, StartFails, Cancel, Complete, AbortReturns, vars, processes, Alive
<1> QED
  BY <1>1, <1>2, <1>2a, <1>3, <1>4, <1>5, <1>6 DEF Next, Finished

\* The leader of the tool's group never moves.
LEMMA RootStays ==
  ASSUME Ancestry, Kills, [Next]_vars
  PROVE  Root \notin moved' /\ moved \subseteq moved'
<1>1. CASE \E p \in Pids : Fork(p) \/ Join(p) \/ Exit(p) \/ Reap(p)
  BY <1>1 DEF Kills, Fork, Join, Exit, Reap, history
<1>2. CASE \E p \in Pids : Detach(p)
  BY <1>2 DEF Kills, Detach, Ancestry
<1>3. CASE Reject \/ StartFails \/ Start \/ Cancel \/ Complete \/ Abort \/ AbortReturns
  BY <1>3 DEF Kills, Reject, StartFails, Start, Cancel, Complete, Abort, AbortReturns, history
<1>4. CASE Walk \/ UNCHANGED vars
  BY <1>4 DEF Kills, Walk, ReadDir, ReadStat, Descend, KillGroup, KillSelf, vars, history
<1> QED
  BY <1>1, <1>2, <1>3, <1>4 DEF Next, Finished

\* What was killed stays dead, and its group empty.
LEMMA KillsStep ==
  ASSUME TypeOK, Ancestry, Seen, Calls, Kills, [Next]_vars
  PROVE  Kills'
<1> DEFINE n == Len(frames)
<1>0. Root \notin moved' /\ moved \subseteq moved'
  BY RootStays
<1>0a. \A v \in visited : v \in Alive' => v \in Alive
  BY Lifecycle DEF Seen, TypeOK
<1>0b. \A v \in visited :
         /\ v \in Alive => \E k \in 1 .. n : frames[k].root = v
         /\ v \notin moved =>
              \/ \E k \in 1 .. n : frames[k].root = v /\ frames[k].step # "self"
              \/ \A p \in Alive : group[p] # v
  BY DEF Kills
<1>1. CASE ~Abort /\ ~Walk
  <2>1. frames' = frames /\ visited' = visited
    BY <1>1, Aside
  <2> QED
    BY <1>0, <1>0a, <1>0b, <1>1, <2>1, EmptyStays DEF Kills
<1>2. CASE Abort
  <2>1. visited' = {Root} /\ frames' = <<Frame(Root)>>
    BY <1>2 DEF Abort
  <2>2. Len(frames') = 1 /\ frames'[1].root = Root /\ frames'[1].step = "list"
    BY <2>1 DEF Frame
  <2> QED
    BY <1>0, <2>1, <2>2 DEF Kills
<1>3. CASE ReadDir \/ ReadStat
  <2>1. /\ Len(frames') = n /\ visited' = visited /\ group' = group /\ Alive' = Alive /\ n \in 1 .. n
        /\ \A k \in 1 .. n : k # n => frames'[k] = frames[k]
        /\ frames'[n].root = frames[n].root /\ frames'[n].step # "self"
    BY <1>3, Reads DEF Top, Alive
  <2>2. \A k \in 1 .. n : /\ frames'[k].root = frames[k].root
                          /\ frames[k].step # "self" => frames'[k].step # "self"
    BY <2>1
  <2> QED
    BY <1>0, <1>0b, <2>1, <2>2 DEF Kills
<1>4. CASE Descend
  <2>1. PICK p \in Top.children :
           /\ Len(frames') = n + 1 /\ Top \in Frames /\ n \in Nat
           /\ frames'[n + 1] = Frame(p)
           /\ frames'[n] = [Top EXCEPT !.children = @ \ {p}]
           /\ \A k \in 1 .. n : k # n => frames'[k] = frames[k]
           /\ visited' = visited \cup {p}
    BY <1>4, Descends
  <2>2. Alive' = Alive /\ group' = group
    BY <1>4 DEF Descend, processes, Alive
  <2>3. frames'[n].root = frames[n].root /\ frames'[n].step = frames[n].step
    BY <2>1 DEF Frames, Top
  <2>4. \A k \in 1 .. n : /\ k \in 1 .. n + 1
                          /\ frames'[k].root = frames[k].root /\ frames'[k].step = frames[k].step
    <3>1. \A k \in 1 .. n : k \in 1 .. n + 1
      BY <2>1
    <3>2. \A k \in 1 .. n : k = n \/ frames'[k] = frames[k]
      BY <2>1
    <3> QED
      BY <2>3, <3>1, <3>2
  <2>5. n + 1 \in 1 .. n + 1 /\ frames'[n + 1].root = p /\ frames'[n + 1].step # "self"
    BY <2>1 DEF Frame
  <2> QED
    BY <1>0, <1>0b, <2>1, <2>2, <2>4, <2>5 DEF Kills
<1>5. CASE KillGroup
  <2>1. /\ Len(frames') = n /\ visited' = visited /\ group' = group /\ n \in 1 .. n
        /\ \A k \in 1 .. n : k # n => frames'[k] = frames[k]
        /\ frames'[n].root = frames[n].root
        /\ Alive' = {p \in Alive : group[p] # frames[n].root}
    BY <1>5, GroupKilled DEF Top
  <2>2. \A k \in 1 .. n : frames'[k].root = frames[k].root
    BY <2>1
  <2>3. ASSUME NEW v \in visited, v \notin moved
        PROVE  \/ \E k \in 1 .. n : frames'[k].root = v /\ frames'[k].step # "self"
               \/ \A p \in Alive' : group'[p] # v
    BY <1>0b, <2>1, <2>3
  <2> QED
    BY <1>0, <1>0b, <2>1, <2>2, <2>3 DEF Kills
<1>6. CASE KillSelf
  <2>1. /\ Len(frames') = n - 1 /\ n \in Nat \ {0}
        /\ \A k \in 1 .. n - 1 : frames'[k] = frames[k]
    BY <1>6, Returns
  <2>2. Die({Top.root}) /\ visited' = visited /\ Top.step = "self" /\ Top = frames[n]
    BY <1>6 DEF KillSelf, Walks, history, Top
  <2>3. group' = group /\ Alive' = Alive \ {frames[n].root}
    BY <2>2, Deaths
  <2>4. \A k \in 1 .. n : k = n \/ (k \in 1 .. n - 1 /\ frames'[k] = frames[k])
    BY <2>1
  <2>5. ASSUME NEW v \in visited
        PROVE  /\ v \in Alive' => \E k \in 1 .. n - 1 : frames'[k].root = v
               /\ v \notin moved =>
                    \/ \E k \in 1 .. n - 1 : frames'[k].root = v /\ frames'[k].step # "self"
                    \/ \A p \in Alive' : group'[p] # v
    BY <1>0b, <2>2, <2>3, <2>4
  <2> QED
    BY <1>0, <2>1, <2>2, <2>5 DEF Kills
<1> QED
  BY <1>1, <1>2, <1>3, <1>4, <1>5, <1>6 DEF Walk

-----------------------------------------------------------------------------
(* A tree that keeps still *)

\* When a call comes to its kills, the children of its process are dead.
LEMMA ChildrenFirst ==
  ASSUME TypeOK, Ancestry, Calls, Kills, Connected, Still, pc = "kill", frames # <<>>,
         Top.step = "self" \/ (Top.unread = {} /\ Top.children = {} /\ Top.step # "list"),
         NEW w \in tree \cap Alive
  PROVE  parent[w] # Top.root
<1> SUFFICES ASSUME parent[w] = Top.root PROVE FALSE
  OBVIOUS
<1> DEFINE n == Len(frames)
<1>1. n \in Nat \ {0} /\ n \in 1 .. n /\ Top = frames[n] /\ Top \in Frames /\ Top.root \in Pids
  <2>1. n \in Nat \ {0} /\ n \in 1 .. n /\ Top = frames[n] /\ Top \in Frames
    BY DEF TypeOK, Top
  <2> QED
    BY <2>1 DEF Frames
<1>2. w # Root /\ parent[w] \in visited /\ parent[w] # Reaper
  BY <1>1, Identifiers DEF Ancestry, Calls
<1>3. \A k \in 1 .. n : frames[k].root \in Nat
  <2>1. \A k \in 1 .. n : frames[k] \in Frames
    BY DEF TypeOK
  <2> QED
    BY <2>1, Identifiers DEF Frames
<1>4. \A k \in 1 .. n : frames[k].root = Top.root => k = n
  <2> SUFFICES ASSUME NEW k \in 1 .. n, frames[k].root = Top.root, k # n PROVE FALSE
    OBVIOUS
  <2>1. k \in 1 .. n - 1
    BY <1>1
  <2>2. frames[k].root < frames[n].root
    BY <1>1, <2>1 DEF Calls
  <2> QED
    BY <1>1, <1>3, <2>2
<1>5. CASE w \in visited
  <2>1. PICK k \in 1 .. n : frames[k].root = w
    BY <1>5 DEF Kills
  <2>2. k > 1
    BY <1>2, <2>1 DEF Calls
  <2>3. frames[k - 1].root = Top.root
    BY <1>2, <2>1, <2>2 DEF Calls
  <2>4. k - 1 \in 1 .. n /\ k - 1 # n
    BY <1>1, <2>2
  <2> QED
    BY <1>4, <2>3, <2>4
<1>6. CASE \E k \in 1 .. n : Awaits(k, w)
  BY <1>1, <1>4, <1>6 DEF Awaits
<1> QED
  BY <1>2, <1>5, <1>6 DEF Connected

\* Of the tree, kill(-root) only meets the process of the call: the others of
\* its group are below it and dead.
LEMMA GroupBelow ==
  ASSUME TypeOK, Ancestry, Calls, Kills, Connected, Still, pc = "kill", frames # <<>>,
         Top.unread = {}, Top.children = {}, Top.step = "read",
         NEW u \in tree \cap Alive, group[u] = Top.root
  PROVE  u = Top.root
<1> SUFFICES ASSUME u # Top.root PROVE FALSE
  OBVIOUS
<1> DEFINE S == (tree \cap Alive) \ {Top.root}
<1>1. \A q \in S \ {Root} : parent[q] \in S
  BY ChildrenFirst DEF Connected
<1>2. S \in SUBSET Pids /\ u \in S /\ Upwards(S)
  BY <1>1 DEF Alive, Upwards
<1>3. group[u] \in S
  BY <1>2 DEF Ancestry, Still
<1> QED
  BY <1>3

\* After the walk, nothing is left of the tree: what were left would be
\* connected to the tool, which is dead.
LEMMA NothingConnected ==
  ASSUME TypeOK, Ancestry, Calls, Kills, Connected, Still, pc = "kill", frames = <<>>
  PROVE  tree \cap Alive = {}
<1> DEFINE S == tree \cap Alive
<1> SUFFICES ASSUME S # {} PROVE FALSE
  OBVIOUS
<1>1. Root \notin S
  BY DEF Calls, Kills
<1>2. S \subseteq Pids /\ S \subseteq Nat
  BY Identifiers DEF Alive
<1>3. PICK m \in S : \A p \in S : m <= p
  <2> HIDE DEF S
  <2> QED
    BY <1>2, LeastNumber
<1>4. parent[m] \in S
  BY <1>1, <1>3 DEF Connected
<1>5. parent[m] < m
  BY <1>2 DEF Ancestry
<1> QED
  BY <1>2, <1>3, <1>4, <1>5

\* The processes below Root have their parents there.
LEMMA BelowConnected ==
  ASSUME TypeOK, Ancestry, NEW p \in Descendants \ {Root}
  PROVE  parent[p] \in Descendants
<1>1. p \in Below /\ p \in Alive /\ p \in Pids /\ Alive \subseteq Shown
  BY DEF Descendants, Alive, Shown
<1>2. parent[p] \in Below
  <2> SUFFICES ASSUME parent[p] \notin Below PROVE FALSE
    OBVIOUS
  <2> DEFINE S == Below \ {p}
  <2>1. Root \in S /\ S \in SUBSET Pids
    BY Identifiers DEF Below
  <2>2. ASSUME NEW q \in Shown, parent[q] \in S
        PROVE  q \in S
    <3>1. q # p
      BY <2>2
    <3>2. q \in Pids
      BY DEF Shown
    <3>3. q \in Below
      BY <2>2, <3>2 DEF Below
    <3> QED
      BY <3>1, <3>3
  <2>3. p \in S
    <3> HIDE DEF S
    <3> QED
      BY <1>1, <2>1, <2>2 DEF Below
  <2> QED
    BY <2>3
<1>3. parent[p] \in Pids
  BY <1>2 DEF Below
<1>4. parent[p] \in Alive
  BY <1>1, <1>3, Identifiers DEF Ancestry
<1> QED
  BY <1>2, <1>4 DEF Descendants

\* Deaths that spare the parents of the living keep the tree connected.
LEMMA ConnectedDies ==
  ASSUME TypeOK, Connected, NEW dead, Die(dead), Still, pc = "kill",
         tree' = tree, visited' = visited,
         \A p \in (tree \cap Alive) \ {Root} : p \notin dead =>
            /\ parent[p] \notin dead
            /\ \A k \in 1 .. Len(frames) : Awaits(k, p) =>
                 k \in 1 .. Len(frames') /\ frames'[k] = frames[k]
  PROVE  \A p \in (tree' \cap Alive') \ {Root} :
           /\ parent'[p] \in tree' \cap Alive'
           /\ \/ p \in visited' \/ parent'[p] \notin visited'
              \/ \E k \in 1 .. Len(frames') : Awaits(k, p)'
<1>1. /\ Alive' = Alive \ dead
      /\ \A p \in Pids : parent'[p] = IF parent[p] \in dead \cap Alive THEN Reaper ELSE parent[p]
  BY Deaths
<1> SUFFICES ASSUME NEW p \in (tree' \cap Alive') \ {Root}
             PROVE  /\ parent'[p] \in tree' \cap Alive'
                    /\ \/ p \in visited' \/ parent'[p] \notin visited'
                       \/ \E k \in 1 .. Len(frames') : Awaits(k, p)'
  OBVIOUS
<1>2. p \in (tree \cap Alive) \ {Root} /\ p \notin dead /\ p \in Pids
  BY <1>1 DEF Alive
<1>3. /\ parent[p] \in tree \cap Alive
      /\ \/ p \in visited \/ parent[p] \notin visited
         \/ \E k \in 1 .. Len(frames) : Awaits(k, p)
  BY <1>2 DEF Connected
<1>4. parent'[p] = parent[p] /\ parent[p] \notin dead
  BY <1>1, <1>2
<1>5. ASSUME NEW k \in 1 .. Len(frames), Awaits(k, p)
      PROVE  k \in 1 .. Len(frames') /\ Awaits(k, p)'
  <2>1. k \in 1 .. Len(frames') /\ frames'[k] = frames[k]
    BY <1>2, <1>5
  <2> QED
    BY <1>4, <1>5, <2>1 DEF Awaits
<1> QED
  BY <1>1, <1>3, <1>4, <1>5

\* During a quiet walk, only zombies are collected and the request cancelled.
LEMMA QuietAside ==
  ASSUME [Next]_vars, ~Abort, ~Walk, quiet', pc = "kill", pc' = "kill", TypeOK
  PROVE  Alive' = Alive /\ parent' = parent
<1>1. CASE \E p \in Pids : Fork(p) \/ Detach(p) \/ Join(p) \/ Exit(p)
  BY <1>1 DEF Fork, Detach, Join, Exit, Act
<1>2. CASE \E p \in Pids : Reap(p)
  BY <1>2 DEF Reap, history, Alive, TypeOK
<1>3. CASE Reject \/ StartFails \/ Start \/ Complete \/ AbortReturns
  BY <1>3 DEF Reject, StartFails, Start, Complete, AbortReturns, Return
<1>4. CASE Cancel \/ UNCHANGED vars
  BY <1>4 DEF Cancel, vars, history, processes, Alive
<1> QED
  BY <1>1, <1>2, <1>3, <1>4 DEF Next, Finished

\* No step makes a tree still again.
LEMMA QuietFalls ==
  ASSUME TypeOK, [Next]_vars, Still'
  PROVE  Still
<1>0. quiet' /\ ~joined'
  BY DEF Still
<1>1. CASE \E p \in Pids : Fork(p) \/ Detach(p) \/ Join(p) \/ Exit(p)
  <2>1. quiet' = (quiet /\ pc # "kill")
    BY <1>1 DEF Fork, Detach, Join, Exit, Act
  <2>2. joined' = joined \/ joined' = TRUE
    BY <1>1 DEF Fork, Detach, Join, Exit, Act
  <2>3. joined' = joined
    BY <1>0, <2>2
  <2>4. quiet
    BY <1>0, <2>1
  <2> QED
    BY <1>0, <2>3, <2>4 DEF Still
<1>2. CASE \E p \in Pids : Reap(p)
  <2>1. quiet' = quiet /\ joined' = joined
    BY <1>2 DEF Reap, history
  <2> QED
    BY <1>0, <2>1 DEF Still
<1>3. CASE Reject \/ StartFails \/ Start \/ Cancel \/ Complete \/ Abort \/ AbortReturns
  <2>1. quiet' = quiet /\ joined' = joined
    BY <1>3 DEF Reject, StartFails, Start, Cancel, Complete, Abort, AbortReturns, history
  <2> QED
    BY <1>0, <2>1 DEF Still
<1>4. CASE Walk \/ UNCHANGED vars
  <2>1. quiet' = quiet /\ joined' = joined
    BY <1>4 DEF Walk, ReadDir, ReadStat, Descend, KillGroup, KillSelf, vars, history
  <2> QED
    BY <1>0, <2>1 DEF Still
<1> QED
  BY <1>1, <1>2, <1>3, <1>4 DEF Next, Finished

\* The second half of Connected: what is dead when the request returns stays dead.
LEMMA ReturnedStep ==
  ASSUME TypeOK, Ancestry, Seen, Calls, Kills, Connected, [Next]_vars, Still', pc' = "returned"
  PROVE  tree' \cap Alive' = {}
<1>1. ~Abort /\ ~Walk
  BY DEF Abort, Walk, ReadDir, ReadStat, Descend, KillGroup, KillSelf, Walks
<1>2. tree' = tree /\ Still
  BY <1>1, Aside, QuietFalls
<1>3. \A p \in tree : p \in Alive' => p \in Alive
  BY Lifecycle DEF Seen, TypeOK
<1>4. CASE pc = "returned"
  BY <1>2, <1>3, <1>4 DEF Connected
<1>5. CASE pc \in {"request", "select"}
  BY <1>2, <1>5 DEF Calls
<1>6. CASE pc = "kill"
  <2>1. frames = <<>>
    BY <1>1, <1>6, Aside
  <2> QED
    BY <1>2, <1>3, <1>6, <2>1, NothingConnected
<1> QED
  BY <1>4, <1>5, <1>6 DEF TypeOK

\* While the tree keeps still, the walk will come to whatever is left of it.
LEMMA ConnectedStep ==
  ASSUME TypeOK, Ancestry, Seen, Calls, Kills, Connected, [Next]_vars
  PROVE  Connected'
<1> DEFINE n == Len(frames)
           C == \A p \in (tree' \cap Alive') \ {Root} :
                  /\ parent'[p] \in tree' \cap Alive'
                  /\ \/ p \in visited' \/ parent'[p] \notin visited'
                     \/ \E k \in 1 .. Len(frames') : Awaits(k, p)'
<1> SUFFICES ASSUME Still', pc' = "kill" PROVE C
  BY ReturnedStep DEF Connected
<1>0. Still
  BY QuietFalls
<1>0a. ASSUME pc = "kill", NEW p \in (tree \cap Alive) \ {Root}
       PROVE  /\ parent[p] \in tree \cap Alive
              /\ \/ p \in visited \/ parent[p] \notin visited
                 \/ \E k \in 1 .. n : Awaits(k, p)
  BY <1>0, <1>0a DEF Connected
<1>1. CASE ~Abort /\ ~Walk
  <2>1. frames' = frames /\ visited' = visited /\ tree' = tree /\ pc = "kill"
    BY <1>1, Aside
  <2>2. Alive' = Alive /\ parent' = parent
    BY <1>1, <2>1, QuietAside DEF Still
  <2> QED
    BY <1>0a, <2>1, <2>2 DEF Awaits
<1>2. CASE Abort
  <2>1. /\ visited' = {Root} /\ frames' = <<Frame(Root)>> /\ tree' = Descendants
        /\ parent' = parent /\ Alive' = Alive
    BY <1>2 DEF Abort, processes, Alive
  <2>2. Len(frames') = 1 /\ frames'[1].root = Root /\ frames'[1].step = "list"
    BY <2>1 DEF Frame
  <2>3. \A p \in Descendants : p \in Alive
    BY DEF Descendants
  <2>4. ASSUME NEW p \in Descendants \ {Root}, parent[p] = Root
        PROVE  Awaits(1, p)'
    BY <2>1, <2>2, <2>4 DEF Awaits
  <2> QED
    BY <2>1, <2>2, <2>3, <2>4, BelowConnected
<1>3. ASSUME Walk PROVE pc = "kill" /\ n \in Nat \ {0} /\ n \in 1 .. n /\ Top = frames[n] /\ frames # <<>>
  <2>1. pc = "kill" /\ frames # <<>>
    BY <1>3 DEF Walk, ReadDir, ReadStat, Descend, KillGroup, KillSelf, Walks
  <2> QED
    BY <2>1 DEF TypeOK, Top
<1>4. CASE ReadDir \/ ReadStat
  <2>1. /\ Len(frames') = n /\ n \in 1 .. n /\ pc = "kill"
        /\ \A k \in 1 .. n : k # n => frames'[k] = frames[k]
        /\ frames'[n].root = Top.root /\ frames'[n].step = "read" /\ Top = frames[n]
        /\ \A p \in Alive :
             parent[p] = Top.root /\ (Top.step = "list" \/ p \in Top.unread \cup Top.children) =>
               p \in frames'[n].unread \cup frames'[n].children
        /\ visited' = visited /\ tree' = tree /\ parent' = parent /\ Alive' = Alive
    BY <1>3, <1>4, Reads DEF Walk, Alive
  <2>2. ASSUME NEW p \in Alive, NEW k \in 1 .. n, Awaits(k, p)
        PROVE  Awaits(k, p)'
    BY <2>1, <2>2 DEF Awaits
  <2> QED
    BY <1>0a, <2>1, <2>2
<1>5. CASE Descend
  <2>1. PICK p \in Top.children :
           /\ Len(frames') = n + 1 /\ Top \in Frames
           /\ frames'[n + 1] = Frame(p)
           /\ frames'[n] = [Top EXCEPT !.children = @ \ {p}]
           /\ \A k \in 1 .. n : k # n => frames'[k] = frames[k]
           /\ visited' = visited \cup {p}
    BY <1>5, Descends
  <2>2. /\ tree' = tree /\ parent' = parent /\ Alive' = Alive /\ pc = "kill"
        /\ n \in Nat /\ Top = frames[n]
    BY <1>3, <1>5 DEF Descend, processes, Alive, Walk
  <2>3. /\ n + 1 \in 1 .. n + 1 /\ frames'[n + 1].root = p /\ frames'[n + 1].step = "list"
        /\ \A k \in 1 .. n : k \in 1 .. n + 1
    BY <2>1, <2>2 DEF Frame
  <2>4. /\ frames'[n].root = Top.root /\ frames'[n].step = Top.step /\ frames'[n].unread = Top.unread
        /\ frames'[n].children = Top.children \ {p}
    BY <2>1 DEF Frames
  <2>5. ASSUME NEW q \in (tree \cap Alive) \ {Root}
        PROVE  \/ q \in visited' \/ parent'[q] \notin visited'
               \/ \E k \in 1 .. n + 1 : Awaits(k, q)'
    <3>1. CASE parent[q] \notin visited /\ parent[q] = p
      <4>1. PICK m \in 1 .. n + 1 : m = n + 1
        BY <2>3
      <4>2. Awaits(m, q)'
        BY <2>2, <2>3, <3>1, <4>1 DEF Awaits
      <4> QED
        BY <4>2
    <3>2. ASSUME NEW k \in 1 .. n, Awaits(k, q), q # p PROVE Awaits(k, q)'
      BY <2>1, <2>2, <2>4, <3>2 DEF Awaits
    <3> QED
      BY <1>0a, <2>1, <2>2, <2>3, <3>1, <3>2
  <2> QED
    BY <1>0a, <2>1, <2>2, <2>5
<1>6. CASE KillGroup
  <2> DEFINE dead == {p \in Pids : group[p] = Top.root}
  <2>1. /\ Len(frames') = n /\ Top.step = "read" /\ Top.unread = {} /\ Top.children = {}
        /\ \A k \in 1 .. n : k # n => frames'[k] = frames[k]
        /\ visited' = visited /\ tree' = tree
    BY <1>6, GroupKilled
  <2>2. Die(dead) /\ pc = "kill" /\ frames # <<>> /\ Top = frames[n]
    BY <1>3, <1>6 DEF KillGroup, Walk
  <2>3. ASSUME NEW p \in (tree \cap Alive) \ {Root}
        PROVE  /\ parent[p] \notin dead
               /\ \A k \in 1 .. n : Awaits(k, p) => frames'[k] = frames[k]
    <3>1. parent[p] # Top.root /\ parent[p] \in tree \cap Alive
      BY <1>0, <1>0a, <2>1, <2>2, ChildrenFirst
    <3>2. group[parent[p]] # Top.root
      BY <1>0, <2>1, <2>2, <3>1, GroupBelow
    <3> QED
      BY <2>1, <2>2, <3>1, <3>2 DEF Awaits
  <2> HIDE DEF dead
  <2> QED
    BY <1>0, <2>1, <2>2, <2>3, ConnectedDies
<1>7. CASE KillSelf
  <2>1. /\ Len(frames') = n - 1 /\ n \in Nat \ {0}
        /\ \A k \in 1 .. n - 1 : frames'[k] = frames[k]
    BY <1>7, Returns
  <2>2. /\ Die({Top.root}) /\ visited' = visited /\ tree' = tree /\ Top.step = "self"
        /\ pc = "kill" /\ frames # <<>> /\ Top = frames[n]
    BY <1>3, <1>7 DEF KillSelf, Walks, history, Walk
  <2>3. ASSUME NEW p \in (tree \cap Alive) \ {Root}
        PROVE  /\ parent[p] \notin {Top.root}
               /\ \A k \in 1 .. n : Awaits(k, p) => k \in 1 .. n - 1 /\ frames'[k] = frames[k]
    <3>1. parent[p] # Top.root
      BY <1>0, <2>2, ChildrenFirst
    <3>2. \A k \in 1 .. n : k # n => k \in 1 .. n - 1
      BY <2>1
    <3> QED
      BY <2>1, <2>2, <3>1, <3>2 DEF Awaits
  <2> QED
    BY <1>0, <2>1, <2>2, <2>3, ConnectedDies
<1> QED
  BY <1>1, <1>2, <1>4, <1>5, <1>6, <1>7 DEF Walk

-----------------------------------------------------------------------------
(* Theorems *)

\* No process runs before the request.
LEMMA BridgeInit == Init => BridgeInv
<1> SUFFICES ASSUME Init PROVE BridgeInv
  OBVIOUS
<1> USE DEF Init
<1>1. Alive = {} /\ frames \in Seq(Frames) /\ Len(frames) = 0
  BY DEF Alive
<1>2. TypeOK
  BY <1>1, Identifiers DEF TypeOK
<1>3. Ancestry
  <2>1. \A p \in Pids : Reaper < p
    BY DEF Pids, Reaper
  <2> QED
    BY <1>1, <2>1, Identifiers DEF Ancestry
<1>4. Seen /\ Calls /\ Kills /\ Connected
  BY <1>1 DEF Seen, Calls, Kills, Connected
<1> QED
  BY <1>2, <1>3, <1>4 DEF BridgeInv

\* The inductive invariant holds however many processes the tool starts and
\* whatever they do between any two reads and kills of the handler.
THEOREM BridgeInvariance == Spec => []BridgeInv
<1>1. BridgeInv /\ [Next]_vars => BridgeInv'
  BY TypeStep, AncestryStep, SeenStep, CallsStep, KillsStep, ConnectedStep DEF BridgeInv
<1> QED
  BY <1>1, BridgeInit, PTL DEF Spec

\* A process that survives killProcessTree has left the tool's group, and its
\* own group either was not found or was made while the walk was going on.
THEOREM SurvivorsHaveLeft == Spec => []SurvivorsDetached
<1>1. ASSUME BridgeInv, Killed, NEW p \in Alive
      PROVE  group[p] # Root /\ (group[p] \in visited => group[p] \in moved)
  <2>1. frames = <<>> /\ Len(frames) = 0 /\ Root \in visited /\ Root \notin moved
    BY <1>1 DEF Killed, BridgeInv, Calls, Kills
  <2>2. \A v \in visited : v \notin moved => group[p] # v
    BY <1>1, <2>1 DEF BridgeInv, Kills
  <2> QED
    BY <2>1, <2>2
<1>2. BridgeInv => SurvivorsDetached
  BY <1>1 DEF SurvivorsDetached
<1> QED
  BY <1>2, BridgeInvariance, PTL

\* Of a tree that keeps still no process survives, in whatever groups they or their
\* ancestors started and in whatever order the handler comes to them.
THEOREM StillTreeDies == Spec => []QuietTreeDies
<1>1. ASSUME BridgeInv, Killed, Still
      PROVE  tree \cap Alive = {}
  <2>1. CASE pc = "kill"
    BY <1>1, <2>1, NothingConnected DEF BridgeInv, Killed
  <2>2. CASE pc = "returned"
    BY <1>1, <2>2 DEF BridgeInv, Connected
  <2> QED
    BY <1>1, <2>1, <2>2 DEF Killed
<1>2. BridgeInv => QuietTreeDies
  BY <1>1 DEF QuietTreeDies
<1> QED
  BY <1>2, BridgeInvariance, PTL
=============================================================================
