------------------------------ MODULE Schedule ------------------------------
(***************************************************************************)
(* freezecheck schedule: the generator of blocked randomized schedules and *)
(* the validator of schedule files, which may have been edited since.  The *)
(* digests of the counter stream are arbitrary words of W bits.            *)
(***************************************************************************)
EXTENDS Integers, Sequences, FiniteSets, Functions

CONSTANTS
    Configs,    \* sets of cells [id, stratum, treatment] that a config may hold;
                \* a stratum is the place of its key among all keys
    Strata,     \* number of strata the matrix must have (7 in the code)
    Blocks,     \* blocks of the phase (5 measured, 1 pilot)
    W,          \* bits of a word of the stream (64 in the code)
    MaxEdits    \* bound: edits of the published file

ASSUME ScheduleAssumption == /\ Strata \in Nat \ {0} /\ Blocks \in Nat \ {0}
                             /\ W \in Nat /\ 2 ^ W >= 2 /\ 2 ^ W >= Strata
                             /\ MaxEdits \in Nat
                             /\ \A cells \in Configs :
                                  IsFiniteSet(cells) /\ \A c \in cells : c.stratum \in Int

\* header says of algorithm, seed and configRevision of the document whether each
\* is what the validator demands: the name of the algorithm, and the config's seed
\* and revision where the config fixes them.
VARIABLES config, header, pc, order, index, runs, edits

scheduleVars == <<config, header, pc, order, index, runs, edits>>

Headers == [algorithm : BOOLEAN, seed : BOOLEAN, revision : BOOLEAN]

Run(ordinal, id, cell, repeat) == [ordinal |-> ordinal, id |-> id, cell |-> cell, repeat |-> repeat]

-----------------------------------------------------------------------------
(* The matrix *)

Treatments == {"direct", "codegen"}
Keys(cells) == {c.stratum : c \in cells}
CellOf(cells, key, treatment) == CHOOSE c \in cells : c.stratum = key /\ c.treatment = treatment

\* matrixStrata returns no error.
matrixStrata(cells) ==
    /\ Cardinality(Keys(cells)) = Strata
    /\ \A c \in cells : c.treatment \in Treatments
    /\ \A key \in Keys(cells), t \in Treatments :
         Cardinality({c \in cells : c.stratum = key /\ c.treatment = t}) = 1

-----------------------------------------------------------------------------
(* The stream *)

Words == 0 .. 2 ^ W - 1

\* Defect: the remainder of any word is taken.
thresholdNone(n) == 0

\* -n % n in unsigned arithmetic of W bits.
threshold(n) == ((2 ^ W - n) % 2 ^ W) % n

\* Words for which uintn(n) returns; it draws again for the others.
Accepted(n) == {v \in Words : v >= threshold(n)}
uintn(n) == {v % n : v \in Accepted(n)}

-----------------------------------------------------------------------------
(* generateSchedule *)

\* Seed and revision are arguments, explicit ones, of the command.
ScheduleInit ==
    /\ config \in Configs
    /\ header \in {h \in Headers : h.algorithm}
    /\ pc = "start" /\ order = <<>> /\ index = 0 /\ runs = <<>> /\ edits = 0

Refuse ==
    /\ pc = "start" /\ ~matrixStrata(config)
    /\ pc' = "refused"
    /\ UNCHANGED <<config, header, order, index, runs, edits>>

\* The strata in the order of their keys: one sequence, in a set.
Sorted == {s \in [1 .. Strata -> Keys(config)] : \A i, j \in 1 .. Strata : i < j => s[i] < s[j]}

StartBlock ==
    /\ pc = "start" /\ matrixStrata(config) /\ Len(runs) < Blocks * Strata * 2
    /\ pc' = "shuffle" /\ order' \in Sorted /\ index' = Strata
    /\ UNCHANGED <<config, header, runs, edits>>

shuffle ==
    /\ pc = "shuffle" /\ index > 1
    /\ \E j \in uintn(index) :
         order' = [order EXCEPT ![index] = order[j + 1], ![j + 1] = order[index]]
    /\ index' = index - 1
    /\ UNCHANGED <<config, header, pc, runs, edits>>

StartPairs ==
    /\ pc = "shuffle" /\ index = 1
    /\ pc' = "pairs"
    /\ UNCHANGED <<config, header, order, index, runs, edits>>

\* Both cells of the next stratum, in an order drawn for it.
Pair ==
    /\ pc = "pairs"
    /\ \E bit \in uintn(2) :
         LET at == Len(runs)
             block == at \div (2 * Strata) + 1
             first == IF bit = 1 THEN "codegen" ELSE "direct"
             other == IF bit = 1 THEN "direct" ELSE "codegen"
             cell(t) == CellOf(config, order[index], t).id
         IN  runs' = runs \o << Run(at + 1, <<at + 1, cell(first)>>, cell(first), block),
                                Run(at + 2, <<at + 2, cell(other)>>, cell(other), block) >>
    /\ index' = index + 1
    /\ pc' = IF index < Strata THEN "pairs"
             ELSE IF Len(runs') < Blocks * Strata * 2 THEN "start" ELSE "validate"
    /\ UNCHANGED <<config, header, order, edits>>

-----------------------------------------------------------------------------
(* validateScheduleSemantic *)

\* Cells are looked up by identifier.  Of two that share one the code keeps the
\* later, the model any: the validator refuses such a matrix in either case.
CellIds == {c.id : c \in config}
StratumOf(id) == (CHOOSE c \in config : c.id = id).stratum
TreatmentOf(id) == (CHOOSE c \in config : c.id = id).treatment
AtPair(b, k) == <<runs[(b - 1) * 2 * Strata + 2 * k - 1], runs[(b - 1) * 2 * Strata + 2 * k]>>

\* Defect: the repeat of a run need not be that of its block.
validPairAnyRepeat(b, k) ==
    LET left == AtPair(b, k)[1] right == AtPair(b, k)[2]
    IN  /\ left.cell \in CellIds /\ right.cell \in CellIds
        /\ StratumOf(left.cell) = StratumOf(right.cell)
        /\ TreatmentOf(left.cell) # TreatmentOf(right.cell)

validPair(b, k) ==
    LET left == AtPair(b, k)[1] right == AtPair(b, k)[2]
    IN  /\ left.cell \in CellIds /\ right.cell \in CellIds
        /\ StratumOf(left.cell) = StratumOf(right.cell)
        /\ TreatmentOf(left.cell) # TreatmentOf(right.cell)
        /\ left.repeat = b /\ right.repeat = b

validBlock(b) ==
    /\ \A k \in 1 .. Strata : validPair(b, k)
    /\ \A k, l \in 1 .. Strata :
         k # l => StratumOf(AtPair(b, k)[1].cell) # StratumOf(AtPair(b, l)[1].cell)

\* Each cell occurs once in each repeat.
validOccurrences ==
    \A id \in CellIds, r \in 1 .. Blocks :
        Cardinality({i \in DOMAIN runs : runs[i].cell = id /\ runs[i].repeat = r}) = 1

validateScheduleSemantic ==
    /\ header.algorithm /\ header.seed /\ header.revision
    /\ matrixStrata(config)
    /\ Len(runs) = Blocks * Strata * 2
    /\ \A i \in DOMAIN runs :
         /\ runs[i].ordinal = i /\ runs[i].cell \in CellIds
         /\ \A j \in 1 .. i - 1 : runs[j].id # runs[i].id
    /\ validOccurrences
    /\ \A b \in 1 .. Blocks : validBlock(b)

\* The generator's own check, before the document is written.
Publish ==
    /\ pc = "validate"
    /\ pc' = IF validateScheduleSemantic THEN "published" ELSE "invalid"
    /\ UNCHANGED <<config, header, order, index, runs, edits>>

\* Somebody edits the file: two runs change places, with or without their
\* ordinals, a run is copied over another, gets another repeat, or is dropped.
EditRuns ==
    /\ \E i, j \in DOMAIN runs :
         \/ runs' = [runs EXCEPT ![i] = runs[j], ![j] = runs[i]]
         \/ runs' = [runs EXCEPT ![i] = [runs[j] EXCEPT !.ordinal = i],
                                 ![j] = [runs[i] EXCEPT !.ordinal = j]]
         \/ runs' = [runs EXCEPT ![i] = [runs[j] EXCEPT !.ordinal = i, !.id = runs[i].id]]
         \/ runs' = [runs EXCEPT ![i].repeat = runs[j].repeat]
         \/ runs' = SubSeq(runs, 1, Len(runs) - 1)
    /\ UNCHANGED header

\* Or its header.
EditHeader == header' \in Headers \ {header} /\ UNCHANGED runs

Edit ==
    /\ pc = "published" /\ edits < MaxEdits
    /\ edits' = edits + 1
    /\ EditRuns \/ EditHeader
    /\ UNCHANGED <<config, pc, order, index>>

Finished == pc \in {"refused", "published", "invalid"} /\ UNCHANGED scheduleVars

ScheduleNext == Refuse \/ StartBlock \/ shuffle \/ StartPairs \/ Pair \/ Publish \/ Edit \/ Finished

ScheduleSpec == ScheduleInit /\ [][ScheduleNext]_scheduleVars

-----------------------------------------------------------------------------
(* Properties *)

\* Whatever is drawn next, a position in the shuffle or the order of a pair,
\* uintn favours no outcome: as many words lead to one as to any other.
Unbiased ==
    pc \in {"shuffle", "pairs"} =>
        LET n == IF pc = "shuffle" THEN index ELSE 2
        IN  \A r \in 0 .. n - 1 :
              Cardinality({v \in Accepted(n) : v % n = r}) * n = Cardinality(Accepted(n))

Observed(n, S) == Cardinality({i \in 1 .. n : runs[i].cell \in S})

\* In a schedule that the validator accepts, however the file came about, the
\* treatments are balanced throughout execution and not only at its end: after
\* any number of runs no treatment is ahead of the other by more than one run,
\* no cell of any other, and each cell is run once in each repeat, the repeats
\* in order.
BalancedThroughout ==
    pc = "published" /\ validateScheduleSemantic =>
        /\ \A n \in 1 .. Len(runs) :
             /\ LET ahead == Observed(n, {c.id : c \in {d \in config : d.treatment = "direct"}}) * 2 - n
                IN  ahead \in {-1, 0, 1}
             /\ \A c, d \in CellIds : Observed(n, {c}) - Observed(n, {d}) \in {-1, 0, 1}
        /\ \A c \in CellIds : Observed(Len(runs), {c}) = Blocks
        /\ \A i, j \in DOMAIN runs : i < j => runs[i].repeat <= runs[j].repeat

\* The command can write no schedule for this config and these arguments.
Unfit == (\E c, d \in config : c # d /\ c.id = d.id) \/ ~header.seed \/ ~header.revision

\* The generator's own validation refuses what was generated exactly when two
\* cells of the matrix share an identifier or when the seed or the revision is not
\* the one that the config fixes: never for a block, pair, ordinal or identifier
\* of a run that the generator got wrong.
GeneratedAccepted ==
    /\ pc = "invalid" => Unfit
    /\ pc = "published" /\ edits = 0 => ~Unfit

\* What is generated is accepted, and what is accepted is balanced.
ScheduleSound == GeneratedAccepted /\ BalancedThroughout

-----------------------------------------------------------------------------
(* The inductive invariant *)

ScheduleTypeOK ==
    /\ config \in Configs /\ header \in Headers
    /\ pc \in {"start", "refused", "shuffle", "pairs", "validate", "published", "invalid"}
    /\ index \in 0 .. Strata + 1
    /\ runs \in Seq([ordinal : Nat, id : Nat \X CellIds, cell : CellIds, repeat : Nat])
    /\ edits \in 0 .. MaxEdits

\* The run before a pair of block b, and the pair as it is generated for a stratum.
Before(b, k) == (b - 1) * 2 * Strata + 2 * (k - 1)
PairOf(b, k, key) ==
    \E t, u \in Treatments :
        /\ t # u
        /\ runs[Before(b, k) + 1] =
             LET cell == CellOf(config, key, t).id
             IN  Run(Before(b, k) + 1, <<Before(b, k) + 1, cell>>, cell, b)
        /\ runs[Before(b, k) + 2] =
             LET cell == CellOf(config, key, u).id
             IN  Run(Before(b, k) + 2, <<Before(b, k) + 2, cell>>, cell, b)

Orders == Bijection(1 .. Strata, Keys(config))

\* Every block before b has each stratum once.
BlocksBefore(b) ==
    \A a \in 1 .. b - 1 : \E o \in Orders : \A k \in 1 .. Strata : PairOf(a, k, o[k])

\* The generator is in block b, at the stratum with the given index.
At(b, k) == Len(runs) = Before(b, k) /\ BlocksBefore(b)

Generation ==
    /\ pc \in {"shuffle", "pairs", "validate"} => matrixStrata(config)
    /\ pc \in {"shuffle", "pairs"} => order \in Orders /\ index \in 1 .. Strata
    /\ pc \in {"start", "shuffle"} => \E b \in 1 .. Blocks : At(b, 1)
    /\ pc = "pairs" =>
         \E b \in 1 .. Blocks : At(b, index) /\ \A k \in 1 .. index - 1 : PairOf(b, k, order[k])
    /\ pc = "validate" => At(Blocks + 1, 1)

\* The document names the generator's algorithm until somebody edits it.
HeaderKept == pc # "published" => header.algorithm

ScheduleInv == ScheduleTypeOK /\ Generation /\ HeaderKept /\ GeneratedAccepted

=============================================================================
