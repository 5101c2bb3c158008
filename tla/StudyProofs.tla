----------------------------- MODULE StudyProofs -----------------------------
(***************************************************************************)
(* The study around a run: the schedule that orders the runs, the metrics  *)
(* that a run's transcript yields, and the set of results that is          *)
(* analysed.  The three specifications share nothing but lemmas about      *)
(* numbers and finite sets.                                                *)
(***************************************************************************)
EXTENDS Schedule, TranscriptMetrics, ResultSet, FiniteSetTheorems, WellFoundedInduction, TLAPS

-----------------------------------------------------------------------------
(* Arithmetic *)

\* Quotient and remainder.
LEMMA Division ==
  ASSUME NEW a \in Nat, NEW n \in Nat \ {0}
  PROVE  a \div n \in Nat /\ a % n \in 0 .. n - 1 /\ a = n * (a \div n) + (a % n)
OBVIOUS

\* They are unique.
LEMMA DivisionUnique ==
  ASSUME NEW q \in Nat, NEW r \in Nat, NEW n \in Nat \ {0}, r < n
  PROVE  (n * q + r) \div n = q /\ (n * q + r) % n = r
OBVIOUS

\* Products keep the order.
LEMMA ProductOrder ==
  ASSUME NEW p \in Int, NEW q \in Int, NEW n \in Nat \ {0}
  PROVE  /\ p < q => n * p + n <= n * q
         /\ p <= q <=> n * p <= n * q
         /\ p = q <=> n * p = n * q
OBVIOUS

\* A set of numbers that is not empty has a least one.
LEMMA LeastNumber ==
  ASSUME NEW T, T \subseteq Nat, T # {}
  PROVE  \E x \in T : \A y \in T : x <= y
<1>1. PICK x \in T : \A y \in T : ~(<<y, x>> \in OpToRel(<, Nat))
  BY WFMin, NatLessThanWellFounded
<1>2. \A y \in T : ~(y < x)
  BY <1>1 DEF OpToRel
<1> QED
  BY <1>2

-----------------------------------------------------------------------------
(* The stream *)

\* The accepted words are a whole number of rounds of n remainders.
LEMMA Rounds ==
  ASSUME NEW n \in Nat \ {0}, n <= 2 ^ W
  PROVE  \E q \in Nat \ {0}, t \in 0 .. n - 1 :
            2 ^ W = n * q + t /\ Accepted(n) = t .. n * q + t - 1
<1> DEFINE M == 2 ^ W
<1>1. M \in Nat /\ M - n \in 0 .. M - 1
  BY ScheduleAssumption
<1> DEFINE p == (M - n) \div n
           t == (M - n) % n
<1>2. p \in Nat /\ t \in 0 .. n - 1 /\ M - n = n * p + t
  <2>1. M - n \in Nat
    BY <1>1
  <2> HIDE DEF M
  <2> QED
    BY <2>1, Division
<1>3. (M - n) % M = M - n
  <2> HIDE DEF M
  <2> QED
    BY <1>1
<1>4. threshold(n) = t
  BY <1>3 DEF threshold
<1>5. Accepted(n) = t .. M - 1
  <2>1. Accepted(n) = {v \in 0 .. M - 1 : v >= t}
    BY <1>4 DEF Accepted, Words
  <2> HIDE DEF M, t
  <2> QED
    BY <1>1, <1>2, <2>1
<1>6. M = n * (p + 1) + t
  <2> HIDE DEF M, p, t
  <2> QED
    BY <1>1, <1>2
<1>7. p + 1 \in Nat \ {0}
  BY <1>2
<1> HIDE DEF M, p, t
<1>8. Accepted(n) = t .. (n * (p + 1) + t) - 1
  BY <1>5, <1>6
<1>9. 2 ^ W = n * (p + 1) + t
  BY <1>6 DEF M
<1>10. t \in 0 .. n - 1
  BY <1>2
<1> WITNESS p + 1 \in Nat \ {0}, t \in 0 .. n - 1
<1> QED
  BY <1>2, <1>8, <1>9

\* In q rounds every remainder occurs q times, wherever they begin.
LEMMA RemainderCount ==
  ASSUME NEW n \in Nat \ {0}, NEW q \in Nat \ {0}, NEW t \in 0 .. n - 1, NEW r \in 0 .. n - 1
  PROVE  Cardinality({v \in t .. n * q + t - 1 : v % n = r}) = q
<1> DEFINE R == {v \in t .. n * q + t - 1 : v % n = r}
           lo == IF r >= t THEN 0 ELSE 1
           f == [k \in 1 .. q |-> n * (k - 1 + lo) + r]
<1>1. lo \in {0, 1} /\ (lo = 0 <=> r >= t)
  OBVIOUS
<1> HIDE DEF lo
<1>2. ASSUME NEW k \in 1 .. q
      PROVE  n * (k - 1 + lo) + r \in R
  <2>1. k - 1 + lo \in Nat /\ r \in Nat /\ r < n /\ t \in Nat /\ t < n
    BY <1>1
  <2>2. (n * (k - 1 + lo) + r) % n = r
    BY <2>1, DivisionUnique
  <2>3. n * (k - 1 + lo) \in Nat /\ n * q \in Nat
    BY <2>1
  <2>4. CASE lo = 0
    <3>1. n * (k - 1 + lo) + n <= n * q
      BY <2>1, <2>4, ProductOrder
    <3> QED
      BY <1>1, <2>1, <2>2, <2>3, <2>4, <3>1
  <2>5. CASE lo = 1
    <3>1. n * (k - 1 + lo) <= n * q /\ n <= n * (k - 1 + lo)
      BY <2>1, <2>5, ProductOrder
    <3> QED
      BY <1>1, <2>1, <2>2, <2>3, <2>5, <3>1
  <2> QED
    BY <1>1, <2>4, <2>5
<1>3. f \in [1 .. q -> R]
  BY <1>2
<1>4. f \in Injection(1 .. q, R)
  <2>1. ASSUME NEW a \in 1 .. q, NEW b \in 1 .. q, f[a] = f[b] PROVE a = b
    <3>1. n * (a - 1 + lo) + r = n * (b - 1 + lo) + r
      BY <2>1
    <3>2. a - 1 + lo \in Int /\ b - 1 + lo \in Int
      BY <1>1
    <3>3. n * (a - 1 + lo) = n * (b - 1 + lo)
      BY <3>1, <3>2
    <3>4. a - 1 + lo = b - 1 + lo
      BY <3>2, <3>3, ProductOrder
    <3> QED
      BY <1>1, <3>4
  <2> HIDE DEF f, R
  <2> QED
    BY <1>3, <2>1 DEF Injection, IsInjective
<1>5. f \in Surjection(1 .. q, R)
  <2>1. ASSUME NEW v \in R PROVE \E k \in 1 .. q : f[k] = v
    <3> DEFINE d == v \div n
    <3>1. v \in Nat /\ d \in Nat /\ v = n * d + r /\ t <= v /\ v <= n * q + t - 1
      <4>1. v \in Nat
        OBVIOUS
      <4> QED
        BY <4>1, Division
    <3> HIDE DEF d
    <3>2. lo <= d
      BY <1>1, <3>1
    <3>3. d <= q - 1 + lo
      <4>1. CASE lo = 0
        <5>1. n * d < n * q
          BY <1>1, <3>1, <4>1
        <5> QED
          BY <3>1, <4>1, <5>1, ProductOrder
      <4>2. CASE lo = 1
        <5>1. n * d < n * q + n
          BY <1>1, <3>1, <4>2
        <5>2. ~(q + 1 <= d)
          <6>1. n * (q + 1) = n * q + n
            OBVIOUS
          <6> QED
            BY <3>1, <5>1, <6>1, ProductOrder
        <5> QED
          BY <3>1, <4>2, <5>2
      <4> QED
        BY <1>1, <4>1, <4>2
    <3>4. d - lo + 1 \in 1 .. q /\ (d - lo + 1) - 1 + lo = d
      BY <1>1, <3>1, <3>2, <3>3
    <3>5. f[d - lo + 1] = n * ((d - lo + 1) - 1 + lo) + r
      BY <3>4
    <3> QED
      BY <3>1, <3>4, <3>5
  <2> QED
    BY <1>3, <2>1 DEF Surjection
<1>6. ExistsBijection(1 .. q, R)
  BY <1>4, <1>5 DEF ExistsBijection, Bijection
<1> HIDE DEF R
<1>7. Cardinality(R) = q
  BY <1>6, FS_CountingElements
<1> QED
  BY <1>7 DEF R

\* uintn favours no outcome.
LEMMA Fair ==
  ASSUME NEW n \in Nat \ {0}, n <= 2 ^ W, NEW r \in 0 .. n - 1
  PROVE  Cardinality({v \in Accepted(n) : v % n = r}) * n = Cardinality(Accepted(n))
<1>1. PICK q \in Nat \ {0}, t \in 0 .. n - 1 : Accepted(n) = t .. n * q + t - 1
  BY Rounds
<1>2. Cardinality({v \in t .. n * q + t - 1 : v % n = r}) = q
  BY RemainderCount
<1>3. n * q \in Nat /\ t \in Int /\ n * q + t - 1 \in Int /\ t <= n * q + t - 1
  BY ProductOrder
<1>4. Cardinality(Accepted(n)) = n * q
  BY <1>1, <1>3, FS_Interval
<1>5. Cardinality({v \in Accepted(n) : v % n = r}) = q
  BY <1>1, <1>2
<1> QED
  BY <1>4, <1>5

-----------------------------------------------------------------------------
(* Blocks, pairs and runs *)

\* The block of the run at a position.
Block(i) == (i - 1) \div (2 * Strata) + 1

\* The runs of a pair lie in its block.
LEMMA RunOfPair ==
  ASSUME NEW b \in Nat \ {0}, NEW k \in 1 .. Strata, NEW s \in {1, 2}
  PROVE  /\ Before(b, k) \in Nat /\ Before(b, k) + s \in Nat \ {0}
         /\ Block(Before(b, k) + s) = b
<1> DEFINE n == 2 * Strata
           r == 2 * (k - 1) + s - 1
<1>1. n \in Nat \ {0} /\ r \in Nat /\ r < n /\ b - 1 \in Nat
  BY ScheduleAssumption
<1>2. Before(b, k) = n * (b - 1) + 2 * (k - 1)
  BY ScheduleAssumption DEF Before
<1>3. n * (b - 1) \in Nat
  BY <1>1
<1>4. Before(b, k) + s - 1 = n * (b - 1) + r /\ Before(b, k) \in Nat
  BY <1>2, <1>3
<1> HIDE DEF r
<1>5. (n * (b - 1) + r) \div n = b - 1
  BY <1>1, DivisionUnique
<1> QED
  BY <1>1, <1>4, <1>5 DEF Block

\* Blocks follow one another.
LEMMA BlockLength ==
  ASSUME NEW b \in Nat, NEW i \in Nat \ {0}
  PROVE  /\ Block(i) \in Nat \ {0}
         /\ Block(i) <= b <=> i <= b * 2 * Strata
<1> DEFINE n == 2 * Strata
           q == (i - 1) \div n
           r == (i - 1) % n
<1>1. n \in Nat \ {0} /\ i - 1 \in Nat /\ b * 2 * Strata = n * b
  BY ScheduleAssumption
<1>2. q \in Nat /\ r \in 0 .. n - 1 /\ i - 1 = n * q + r
  BY <1>1, Division
<1>3. Block(i) = q + 1
  BY DEF Block
<1> HIDE DEF n, q, r
<1>4. n * q \in Nat /\ n * b \in Nat
  BY <1>1, <1>2
<1>5. ASSUME q < b PROVE i <= n * b
  <2>1. n * q + n <= n * b
    BY <1>1, <1>2, <1>5, ProductOrder
  <2> QED
    BY <1>1, <1>2, <1>4, <2>1
<1>6. ASSUME b <= q PROVE ~(i <= n * b)
  <2>1. n * b <= n * q
    BY <1>1, <1>2, <1>6, ProductOrder
  <2> QED
    BY <1>1, <1>2, <1>4, <2>1
<1> QED
  BY <1>1, <1>2, <1>3, <1>5, <1>6

\* Every run is in a pair.
LEMMA PairOfRun ==
  ASSUME NEW i \in Nat \ {0}
  PROVE  \E k \in 1 .. Strata, s \in {1, 2} : i = Before(Block(i), k) + s
<1> DEFINE n == 2 * Strata
           q == (i - 1) \div n
           r == (i - 1) % n
           h == r \div 2
<1>1. n \in Nat \ {0} /\ i - 1 \in Nat /\ n = 2 * Strata /\ Strata \in Nat
  BY ScheduleAssumption
<1>2. q \in Nat /\ r \in 0 .. n - 1 /\ i - 1 = n * q + r
  BY <1>1, Division
<1>3. Block(i) = q + 1
  BY DEF Block
<1>4. h \in Nat /\ r % 2 \in 0 .. 1 /\ r = 2 * h + (r % 2)
  <2>1. r \in Nat
    BY <1>1, <1>2
  <2> HIDE DEF r
  <2> QED
    BY <2>1, Division
<1>5. Before(Block(i), h + 1) = n * q + 2 * h
  <2> HIDE DEF q, h
  <2> QED
    BY <1>1, <1>2, <1>3, <1>4 DEF Before
<1> HIDE DEF n, q, r, h
<1>6. h + 1 \in 1 .. Strata /\ (r % 2) + 1 \in {1, 2} /\ n * q \in Nat
  BY <1>1, <1>2, <1>4
<1>7. i = Before(Block(i), h + 1) + ((r % 2) + 1)
  BY <1>1, <1>2, <1>4, <1>5, <1>6
<1> QED
  BY <1>6, <1>7

\* The runs of a valid schedule.
LEMMA Positions ==
  ASSUME ScheduleTypeOK, Len(runs) = Blocks * Strata * 2, NEW i
  PROVE  /\ Len(runs) \in Nat /\ DOMAIN runs = 1 .. Len(runs)
         /\ i \in DOMAIN runs <=> i \in Nat \ {0} /\ Block(i) \in 1 .. Blocks
<1>1. Len(runs) \in Nat /\ DOMAIN runs = 1 .. Len(runs)
  BY DEF ScheduleTypeOK
<1>2. Blocks \in Nat /\ Blocks * Strata * 2 = Blocks * 2 * Strata
  BY ScheduleAssumption
<1>3. ASSUME NEW j \in Nat \ {0}
      PROVE  j \in DOMAIN runs <=> Block(j) \in 1 .. Blocks
  <2>1. Block(j) \in Nat \ {0} /\ (Block(j) <= Blocks <=> j <= Blocks * 2 * Strata)
    BY <1>2, BlockLength
  <2> QED
    BY <1>1, <1>2, <2>1
<1> QED
  BY <1>1, <1>3

-----------------------------------------------------------------------------
(* What the validator accepts *)

\* The validator reads the pairs where the generator puts them.
LEMMA AtPairRuns ==
  ASSUME NEW b \in Nat \ {0}, NEW k \in 1 .. Strata
  PROVE  AtPair(b, k) = <<runs[Before(b, k) + 1], runs[Before(b, k) + 2]>>
<1>1. /\ (b - 1) * 2 * Strata + 2 * k - 1 = Before(b, k) + 1
      /\ (b - 1) * 2 * Strata + 2 * k = Before(b, k) + 2
  <2>1. (b - 1) * 2 * Strata \in Int
    BY ScheduleAssumption
  <2> QED
    BY <2>1 DEF Before
<1> QED
  BY <1>1 DEF AtPair

\* What validPair says of the two runs.
LEMMA ValidRuns ==
  ASSUME validateScheduleSemantic, NEW b \in 1 .. Blocks, NEW k \in 1 .. Strata
  PROVE  LET left  == runs[Before(b, k) + 1]
             right == runs[Before(b, k) + 2]
         IN  /\ left.cell \in CellIds /\ right.cell \in CellIds
             /\ TreatmentOf(left.cell) # TreatmentOf(right.cell)
             /\ left.repeat = b /\ right.repeat = b
<1>1. b \in Nat \ {0}
  BY ScheduleAssumption
<1>2. validPair(b, k)
  BY DEF validateScheduleSemantic, validBlock
<1> QED
  BY <1>1, <1>2, AtPairRuns DEF validPair

\* The repeat of a run is its block.
LEMMA RepeatIsBlock ==
  ASSUME ScheduleTypeOK, validateScheduleSemantic, NEW i \in DOMAIN runs
  PROVE  /\ i \in Nat \ {0} /\ Block(i) \in 1 .. Blocks
         /\ runs[i].cell \in CellIds /\ runs[i].repeat = Block(i)
<1>1. i \in Nat \ {0} /\ Block(i) \in 1 .. Blocks
  BY Positions DEF validateScheduleSemantic
<1>2. PICK k \in 1 .. Strata, s \in {1, 2} : i = Before(Block(i), k) + s
  BY <1>1, PairOfRun
<1> QED
  BY <1>1, <1>2, ValidRuns

\* A cell is run once in a block.
LEMMA OnePerBlock ==
  ASSUME ScheduleTypeOK, validateScheduleSemantic, NEW c \in CellIds, NEW b \in 1 .. Blocks
  PROVE  \E i \in DOMAIN runs :
            /\ Block(i) = b /\ runs[i].cell = c
            /\ \A j \in DOMAIN runs : Block(j) = b /\ runs[j].cell = c => j = i
<1> DEFINE T == {i \in DOMAIN runs : runs[i].cell = c /\ runs[i].repeat = b}
<1>1. Cardinality(T) = 1
  BY DEF validateScheduleSemantic, validOccurrences
<1>2. IsFiniteSet(T)
  <2>1. DOMAIN runs = 1 .. Len(runs) /\ Len(runs) \in Nat
    BY DEF ScheduleTypeOK
  <2>2. IsFiniteSet(DOMAIN runs)
    BY <2>1, FS_Interval
  <2>3. T \in SUBSET DOMAIN runs
    OBVIOUS
  <2> QED
    BY <2>2, <2>3, FS_Subset
<1>3. PICK i : T = {i}
  BY <1>1, <1>2, FS_Singleton
<1>4. i \in T /\ \A j \in T : j = i
  BY <1>3
<1> QED
  BY <1>4, RepeatIsBlock

-----------------------------------------------------------------------------
(* Counting *)

\* The runs that are observed are finitely many.
LEMMA ObservedFinite ==
  ASSUME NEW n \in Nat, NEW S
  PROVE  /\ IsFiniteSet({i \in 1 .. n : runs[i].cell \in S}) /\ Observed(n, S) \in Nat
<1>1. IsFiniteSet({i \in 1 .. n : runs[i].cell \in S})
  <2>1. IsFiniteSet(1 .. n)
    BY FS_Interval
  <2>2. {i \in 1 .. n : runs[i].cell \in S} \in SUBSET (1 .. n)
    OBVIOUS
  <2> QED
    BY <2>1, <2>2, FS_Subset
<1> QED
  BY <1>1, FS_CardinalityType DEF Observed

\* Numbering what is observed with at most m numbers bounds it.
LEMMA ObservedAtMost ==
  ASSUME NEW n \in Nat, NEW S, NEW m \in Nat,
         NEW f \in Injection({i \in 1 .. n : runs[i].cell \in S}, 1 .. m)
  PROVE  Observed(n, S) <= m
<1>1. IsFiniteSet(1 .. m) /\ Cardinality(1 .. m) = m
  BY FS_Interval
<1> QED
  BY <1>1, FS_Injection DEF Observed

\* So does observing something for each of m numbers, from below.
LEMMA ObservedAtLeast ==
  ASSUME NEW n \in Nat, NEW S, NEW m \in Nat,
         NEW f \in Injection(1 .. m, {i \in 1 .. n : runs[i].cell \in S})
  PROVE  m <= Observed(n, S)
<1> DEFINE T == {i \in 1 .. n : runs[i].cell \in S}
<1>1. Cardinality(1 .. m) = m
  BY FS_Interval
<1>2. IsFiniteSet(T) /\ Observed(n, S) = Cardinality(T) /\ f \in Injection(1 .. m, T)
  BY ObservedFinite DEF Observed
<1> HIDE DEF T
<1> QED
  BY <1>1, <1>2, FS_Injection

\* Within the first u blocks a cell is run at most u times.
LEMMA CellAtMost ==
  ASSUME ScheduleTypeOK, validateScheduleSemantic, NEW c \in CellIds,
         NEW n \in 0 .. Len(runs), NEW u \in Nat, n <= u * 2 * Strata
  PROVE  Observed(n, {c}) <= u
<1> DEFINE T == {i \in 1 .. n : runs[i].cell \in {c}}
           f == [i \in T |-> Block(i)]
<1>1. n \in Nat /\ DOMAIN runs = 1 .. Len(runs) /\ Len(runs) \in Nat
  BY DEF ScheduleTypeOK
<1>2. ASSUME NEW i \in T
      PROVE  i \in DOMAIN runs /\ runs[i].cell = c /\ Block(i) \in 1 .. u /\ Block(i) \in 1 .. Blocks
  <2>1. i \in DOMAIN runs /\ runs[i].cell = c /\ i \in Nat \ {0} /\ i <= n
    BY <1>1
  <2>2. Block(i) \in 1 .. Blocks
    BY <2>1, RepeatIsBlock
  <2>3. i <= u * 2 * Strata
    <3>1. u * 2 * Strata \in Nat
      BY ScheduleAssumption
    <3> QED
      BY <1>1, <2>1, <3>1
  <2>4. Block(i) <= u
    BY <2>1, <2>3, BlockLength
  <2> QED
    BY <2>1, <2>2, <2>4
<1>3. ASSUME NEW i \in T, NEW j \in T, Block(i) = Block(j)
      PROVE  i = j
  BY <1>2, <1>3, OnePerBlock
<1>4. f \in Injection(T, 1 .. u)
  <2>1. f \in [T -> 1 .. u]
    BY <1>2
  <2>2. \A i, j \in T : f[i] = f[j] => i = j
    BY <1>3
  <2> HIDE DEF T, f
  <2> QED
    BY <2>1, <2>2 DEF Injection, IsInjective
<1> QED
  BY <1>1, <1>4, ObservedAtMost

\* In q whole blocks it is run q times.
LEMMA CellAtLeast ==
  ASSUME ScheduleTypeOK, validateScheduleSemantic, NEW c \in CellIds,
         NEW n \in 0 .. Len(runs), NEW q \in 0 .. Blocks, q * 2 * Strata <= n
  PROVE  q <= Observed(n, {c})
<1> DEFINE T == {i \in 1 .. n : runs[i].cell \in {c}}
           at(b) == CHOOSE i \in DOMAIN runs : Block(i) = b /\ runs[i].cell = c
           f == [b \in 1 .. q |-> at(b)]
<1>1. /\ n \in Nat /\ DOMAIN runs = 1 .. Len(runs) /\ Len(runs) \in Nat
      /\ q \in Nat /\ q * 2 * Strata \in Nat /\ Blocks \in Nat
  BY ScheduleAssumption DEF ScheduleTypeOK
<1>2. ASSUME NEW b \in 1 .. q
      PROVE  at(b) \in T /\ Block(at(b)) = b
  <2>1. b \in 1 .. Blocks
    BY <1>1
  <2>2. at(b) \in DOMAIN runs /\ Block(at(b)) = b /\ runs[at(b)].cell = c
    BY <2>1, OnePerBlock
  <2> HIDE DEF at
  <2>3. at(b) \in Nat \ {0} /\ Block(at(b)) <= q
    BY <1>1, <2>2
  <2>4. at(b) <= q * 2 * Strata
    BY <1>1, <2>3, BlockLength
  <2> QED
    BY <1>1, <2>2, <2>3, <2>4
<1> HIDE DEF at
<1>3. f \in Injection(1 .. q, T)
  <2>1. f \in [1 .. q -> T]
    BY <1>2
  <2>2. \A a, b \in 1 .. q : f[a] = f[b] => a = b
    BY <1>2
  <2> HIDE DEF T, f
  <2> QED
    BY <2>1, <2>2 DEF Injection, IsInjective
<1> QED
  BY <1>1, <1>3, ObservedAtLeast

-----------------------------------------------------------------------------
(* Identifiers *)

\* The cell of a stratum and a treatment is there, and is the only one.
LEMMA CellOfMatrix ==
  ASSUME config \in Configs, matrixStrata(config),
         NEW key \in Keys(config), NEW t \in Treatments
  PROVE  /\ CellOf(config, key, t) \in config
         /\ CellOf(config, key, t).stratum = key /\ CellOf(config, key, t).treatment = t
         /\ \A c \in config : c.stratum = key /\ c.treatment = t => c = CellOf(config, key, t)
<1> DEFINE T == {c \in config : c.stratum = key /\ c.treatment = t}
<1>1. IsFiniteSet(T)
  <2>1. IsFiniteSet(config) /\ T \in SUBSET config
    BY ScheduleAssumption
  <2> QED
    BY <2>1, FS_Subset
<1>2. Cardinality(T) = 1
  BY DEF matrixStrata
<1>3. PICK x : T = {x}
  BY <1>1, <1>2, FS_Singleton
<1>4. x \in T /\ \A c \in T : c = x
  BY <1>3
<1>5. CellOf(config, key, t) \in T
  BY <1>4 DEF CellOf
<1> QED
  BY <1>4, <1>5

\* A matrix has two cells for every stratum.
LEMMA MatrixSize ==
  ASSUME config \in Configs, matrixStrata(config)
  PROVE  /\ IsFiniteSet(config) /\ Cardinality(config) = 2 * Strata
         /\ IsFiniteSet(Keys(config)) /\ Cardinality(Keys(config)) = Strata
<1> DEFINE T == Keys(config) \X Treatments
           f == [c \in config |-> <<c.stratum, c.treatment>>]
           g == [c \in config |-> c.stratum]
<1>1. IsFiniteSet(config)
  BY ScheduleAssumption
<1>2. IsFiniteSet(Keys(config)) /\ Cardinality(Keys(config)) = Strata
  <2>1. g \in Surjection(config, Keys(config))
    BY DEF Surjection, Keys
  <2> QED
    BY <1>1, <2>1, FS_Surjection DEF matrixStrata
<1>3. IsFiniteSet(Treatments) /\ Cardinality(Treatments) = 2
  <2>1. IsFiniteSet({"direct"}) /\ Cardinality({"direct"}) = 1
    BY FS_Singleton
  <2>2. Treatments = {"direct"} \cup {"codegen"} /\ "codegen" \notin {"direct"}
    BY DEF Treatments
  <2> QED
    BY <2>1, <2>2, FS_AddElement
<1>4. IsFiniteSet(T) /\ Cardinality(T) = 2 * Strata
  BY <1>2, <1>3, FS_Product, ScheduleAssumption
<1>5. f \in [config -> T]
  BY DEF matrixStrata, Keys
<1>6. \A c, d \in config : f[c] = f[d] => c = d
  <2>1. SUFFICES ASSUME NEW c \in config, NEW d \in config, f[c] = f[d] PROVE c = d
    OBVIOUS
  <2>2. /\ c.stratum \in Keys(config) /\ c.treatment \in Treatments
        /\ d.stratum = c.stratum /\ d.treatment = c.treatment
    BY <2>1 DEF matrixStrata, Keys
  <2> QED
    BY <2>2, CellOfMatrix
<1>7. \A x \in T : \E c \in config : f[c] = x
  <2>1. SUFFICES ASSUME NEW x \in T PROVE \E c \in config : f[c] = x
    OBVIOUS
  <2> DEFINE key == x[1]
             t == x[2]
  <2>2. key \in Keys(config) /\ t \in Treatments /\ x = <<key, t>>
    OBVIOUS
  <2> HIDE DEF key, t
  <2>3. /\ CellOf(config, key, t) \in config
        /\ CellOf(config, key, t).stratum = key /\ CellOf(config, key, t).treatment = t
    BY <2>2, CellOfMatrix
  <2> QED
    BY <2>2, <2>3
<1>8. f \in Injection(config, T) /\ f \in Surjection(config, T)
  <2> HIDE DEF f, T
  <2> QED
    BY <1>5, <1>6, <1>7 DEF Injection, IsInjective, Surjection
<1>9. Cardinality(config) = Cardinality(T)
  <2> HIDE DEF f, T
  <2> QED
    BY <1>4, <1>8, FS_Injection
<1> QED
  BY <1>1, <1>2, <1>4, <1>9

\* No schedule is valid for a matrix in which two cells share an identifier: a
\* block has a run for every cell, and every identifier occurs in it once.
LEMMA ValidIdentifiers ==
  ASSUME ScheduleTypeOK, validateScheduleSemantic
  PROVE  \A c, d \in config : c.id = d.id => c = d
<1> DEFINE ids == [c \in config |-> c.id]
           n == 2 * Strata
           first == [i \in 1 .. n |-> runs[i].cell]
<1>1. IsFiniteSet(config) /\ Cardinality(config) = n
  BY MatrixSize DEF ScheduleTypeOK, validateScheduleSemantic
<1>2. ids \in Surjection(config, CellIds)
  BY DEF Surjection, CellIds
<1>3. /\ IsFiniteSet(CellIds) /\ Cardinality(CellIds) <= n
      /\ Cardinality(CellIds) = n <=> ids \in Injection(config, CellIds)
  <2> HIDE DEF ids, n
  <2> QED
    BY <1>1, <1>2, FS_Surjection
<1>4. n \in Nat /\ 1 \in 1 .. Blocks
  BY ScheduleAssumption
<1>5. ASSUME NEW i \in 1 .. n
      PROVE  i \in DOMAIN runs /\ Block(i) = 1 /\ runs[i].cell \in CellIds
  <2>1. i \in Nat \ {0} /\ i <= 1 * 2 * Strata
    BY <1>4
  <2>2. Block(i) = 1
    BY <2>1, BlockLength
  <2>3. i \in DOMAIN runs
    BY <1>4, <2>1, <2>2, Positions DEF validateScheduleSemantic
  <2> QED
    BY <2>2, <2>3, RepeatIsBlock
<1>6. first \in Injection(1 .. n, CellIds)
  <2>1. first \in [1 .. n -> CellIds]
    BY <1>5
  <2>2. \A i, j \in 1 .. n : first[i] = first[j] => i = j
    BY <1>4, <1>5, OnePerBlock
  <2> HIDE DEF first, n
  <2> QED
    BY <2>1, <2>2 DEF Injection, IsInjective
<1>7. n <= Cardinality(CellIds) /\ Cardinality(CellIds) \in Nat
  <2>1. Cardinality(1 .. n) = n
    BY <1>4, FS_Interval
  <2> HIDE DEF first, n
  <2> QED
    BY <1>3, <1>6, <2>1, FS_Injection, FS_CardinalityType
<1>8. ids \in Injection(config, CellIds)
  BY <1>3, <1>4, <1>7
<1>9. \A c, d \in config : ids[c] = ids[d] => c = d
  <2> HIDE DEF ids
  <2> QED
    BY <1>8 DEF Injection, IsInjective
<1> QED
  BY <1>9

-----------------------------------------------------------------------------
(* Treatments *)

\* The identifiers of the cells with the direct treatment.
DirectIds == {c.id : c \in {d \in config : d.treatment = "direct"}}

\* The treatment of an identifier is that of its only cell.
LEMMA TreatmentOfId ==
  ASSUME \A c, d \in config : c.id = d.id => c = d, matrixStrata(config), NEW c \in config
  PROVE  /\ StratumOf(c.id) = c.stratum /\ TreatmentOf(c.id) = c.treatment
         /\ c.treatment \in Treatments
         /\ c.id \in DirectIds <=> c.treatment = "direct"
<1>1. (CHOOSE d \in config : d.id = c.id) = c
  OBVIOUS
<1> QED
  BY <1>1 DEF StratumOf, TreatmentOf, DirectIds, matrixStrata

\* One run of a pair is direct.
LEMMA OneDirect ==
  ASSUME ScheduleTypeOK, validateScheduleSemantic, NEW h \in Nat \ {0}, 2 * h \in DOMAIN runs
  PROVE  /\ 2 * h - 1 \in DOMAIN runs
         /\ runs[2 * h - 1].cell \in DirectIds <=> runs[2 * h].cell \notin DirectIds
<1>1. DOMAIN runs = 1 .. Len(runs) /\ Len(runs) \in Nat
  BY DEF ScheduleTypeOK
<1>2. 2 * h - 1 \in DOMAIN runs
  BY <1>1
<1> DEFINE b == Block(2 * h)
<1>3. b \in 1 .. Blocks /\ b \in Nat \ {0}
  BY RepeatIsBlock, ScheduleAssumption
<1>4. PICK k \in 1 .. Strata, s \in {1, 2} : 2 * h = Before(b, k) + s
  BY PairOfRun
<1> HIDE DEF b
<1>5. s = 2
  <2>1. \E m \in Int : Before(b, k) = 2 * m
    <3>1. (b - 1) * Strata + (k - 1) \in Int
      BY <1>3, ScheduleAssumption
    <3>2. Before(b, k) = 2 * ((b - 1) * Strata + (k - 1))
      BY <1>3, ScheduleAssumption DEF Before
    <3> QED
      BY <3>1, <3>2
  <2> QED
    BY <1>4, <2>1
<1>6. 2 * h = Before(b, k) + 2 /\ 2 * h - 1 = Before(b, k) + 1
  <2>1. Before(b, k) \in Nat
    BY <1>3, RunOfPair
  <2> QED
    BY <1>4, <1>5, <2>1
<1>7. /\ runs[2 * h - 1].cell \in CellIds /\ runs[2 * h].cell \in CellIds
      /\ TreatmentOf(runs[2 * h - 1].cell) # TreatmentOf(runs[2 * h].cell)
  BY <1>3, <1>6, ValidRuns
<1>8. PICK c \in config : c.id = runs[2 * h - 1].cell
  BY <1>7 DEF CellIds
<1>9. PICK d \in config : d.id = runs[2 * h].cell
  BY <1>7 DEF CellIds
<1>10. c.treatment # d.treatment /\ c.treatment \in Treatments /\ d.treatment \in Treatments
  BY <1>7, <1>8, <1>9, ValidIdentifiers, TreatmentOfId DEF validateScheduleSemantic
<1>11. c.treatment = "direct" <=> d.treatment # "direct"
  BY <1>10 DEF Treatments
<1> QED
  BY <1>2, <1>8, <1>9, <1>11, ValidIdentifiers, TreatmentOfId DEF validateScheduleSemantic

\* After n runs half of them are direct, give or take one when n is odd.
LEMMA DirectCount ==
  ASSUME ScheduleTypeOK, validateScheduleSemantic, NEW n \in 0 .. Len(runs)
  PROVE  n \div 2 <= Observed(n, DirectIds) /\ Observed(n, DirectIds) <= (n + 1) \div 2
<1> DEFINE T == {i \in 1 .. n : runs[i].cell \in DirectIds}
           f == [i \in T |-> (i + 1) \div 2]
           at(h) == IF runs[2 * h].cell \in DirectIds THEN 2 * h ELSE 2 * h - 1
           g == [h \in 1 .. n \div 2 |-> at(h)]
<1>1. DOMAIN runs = 1 .. Len(runs) /\ Len(runs) \in Nat /\ n \in Nat
  BY DEF ScheduleTypeOK
<1>2. n \div 2 \in Nat /\ (n + 1) \div 2 \in Nat /\ 2 * (n \div 2) <= n
  BY <1>1
<1>3. f \in Injection(T, 1 .. (n + 1) \div 2)
  <2>1. f \in [T -> 1 .. (n + 1) \div 2]
    BY <1>1
  <2>2. ASSUME NEW i \in T, NEW j \in T, f[i] = f[j], i < j PROVE FALSE
    <3> DEFINE h == (i + 1) \div 2
    <3>1. h = (j + 1) \div 2 /\ i \in Nat \ {0} /\ j \in Nat \ {0} /\ j <= n
      BY <1>1, <2>2
    <3>2. i = 2 * h - 1 /\ j = 2 * h /\ h \in Nat \ {0}
      BY <2>2, <3>1
    <3>3. 2 * h \in DOMAIN runs
      BY <1>1, <3>1, <3>2
    <3> HIDE DEF h
    <3> QED
      BY <3>2, <3>3, OneDirect
  <2>3. \A i, j \in T : f[i] = f[j] => i = j
    <3>1. SUFFICES ASSUME NEW i \in T, NEW j \in T, f[i] = f[j] PROVE i = j
      OBVIOUS
    <3>2. i \in Int /\ j \in Int
      OBVIOUS
    <3> HIDE DEF f, T
    <3> QED
      BY <2>2, <3>1, <3>2
  <2> HIDE DEF f, T
  <2> QED
    BY <2>1, <2>3 DEF Injection, IsInjective
<1>4. g \in Injection(1 .. n \div 2, T)
  <2>1. ASSUME NEW h \in 1 .. n \div 2
        PROVE  at(h) \in T /\ at(h) \in {2 * h - 1, 2 * h}
    <3>1. h \in Nat \ {0} /\ 2 * h \in DOMAIN runs /\ 2 * h <= n
      BY <1>1, <1>2
    <3> QED
      BY <1>1, <3>1, OneDirect
  <2>2. g \in [1 .. n \div 2 -> T]
    BY <2>1
  <2>3. \A h, k \in 1 .. n \div 2 : g[h] = g[k] => h = k
    <3>1. SUFFICES ASSUME NEW h \in 1 .. n \div 2, NEW k \in 1 .. n \div 2, at(h) = at(k)
                   PROVE  h = k
      OBVIOUS
    <3>2. at(h) \in {2 * h - 1, 2 * h} /\ at(k) \in {2 * k - 1, 2 * k}
      BY <2>1
    <3> HIDE DEF at
    <3> QED
      BY <3>1, <3>2
  <2> HIDE DEF g, T
  <2> QED
    BY <2>2, <2>3 DEF Injection, IsInjective
<1>5. Observed(n, DirectIds) <= (n + 1) \div 2
  <2> HIDE DEF f
  <2> QED
    BY <1>1, <1>2, <1>3, ObservedAtMost
<1>6. n \div 2 <= Observed(n, DirectIds)
  <2> HIDE DEF g
  <2> QED
    BY <1>1, <1>2, <1>4, ObservedAtLeast
<1> QED
  BY <1>5, <1>6

-----------------------------------------------------------------------------
(* Balance *)

\* Cells are observed equally often, give or take one, and as often as there are
\* blocks in the end.
LEMMA CellsBalanced ==
  ASSUME ScheduleTypeOK, validateScheduleSemantic
  PROVE  /\ \A n \in 1 .. Len(runs) : \A c, d \in CellIds :
               Observed(n, {c}) - Observed(n, {d}) \in {-1, 0, 1}
         /\ \A c \in CellIds : Observed(Len(runs), {c}) = Blocks
<1>1. /\ Len(runs) \in Nat /\ Len(runs) = Blocks * 2 * Strata
      /\ Blocks \in Nat /\ Strata \in Nat \ {0}
  BY ScheduleAssumption DEF ScheduleTypeOK, validateScheduleSemantic
<1>2. ASSUME NEW n \in 1 .. Len(runs), NEW c \in CellIds, NEW d \in CellIds
      PROVE  Observed(n, {c}) - Observed(n, {d}) \in {-1, 0, 1}
  <2> DEFINE m == 2 * Strata
             q == n \div m
  <2>1. m \in Nat \ {0} /\ n \in Nat /\ n \in 0 .. Len(runs)
    BY <1>1
  <2>2. q \in Nat /\ n % m \in 0 .. m - 1 /\ n = m * q + (n % m)
    BY <2>1, Division
  <2>3. q * 2 * Strata = m * q /\ (q + 1) * 2 * Strata = m * q + m /\ Len(runs) = m * Blocks
    BY <1>1, <2>2
  <2> HIDE DEF m, q
  <2>4. q <= Blocks
    <3>1. m * q <= m * Blocks
      BY <1>1, <2>1, <2>2, <2>3
    <3> QED
      BY <1>1, <2>1, <2>2, <3>1, ProductOrder
  <2>5. q * 2 * Strata <= n /\ n <= (q + 1) * 2 * Strata
    BY <2>1, <2>2, <2>3
  <2>6. ASSUME NEW e \in CellIds PROVE Observed(n, {e}) \in {q, q + 1}
    <3>1. q \in 0 .. Blocks /\ q + 1 \in Nat
      BY <1>1, <2>2, <2>4
    <3>2. q <= Observed(n, {e}) /\ Observed(n, {e}) <= q + 1
      BY <2>1, <2>5, <3>1, CellAtLeast, CellAtMost
    <3>3. Observed(n, {e}) \in Nat
      BY <2>1, ObservedFinite
    <3> QED
      BY <2>2, <3>2, <3>3
  <2>7. Observed(n, {c}) \in {q, q + 1} /\ Observed(n, {d}) \in {q, q + 1}
    BY <2>6
  <2> QED
    BY <2>2, <2>7
<1>3. ASSUME NEW c \in CellIds PROVE Observed(Len(runs), {c}) = Blocks
  <2>1. Len(runs) \in 0 .. Len(runs) /\ Blocks \in 0 .. Blocks
    BY <1>1
  <2>2. Blocks * 2 * Strata <= Len(runs) /\ Len(runs) <= Blocks * 2 * Strata
    BY <1>1
  <2>3. Blocks <= Observed(Len(runs), {c}) /\ Observed(Len(runs), {c}) <= Blocks
    BY <1>1, <2>1, <2>2, CellAtLeast, CellAtMost
  <2>4. Observed(Len(runs), {c}) \in Nat
    BY <1>1, ObservedFinite
  <2> QED
    BY <1>1, <2>3, <2>4
<1> QED
  BY <1>2, <1>3

\* The repeats are in order.
LEMMA RepeatsAscend ==
  ASSUME ScheduleTypeOK, validateScheduleSemantic,
         NEW i \in DOMAIN runs, NEW j \in DOMAIN runs, i < j
  PROVE  runs[i].repeat <= runs[j].repeat
<1>1. /\ i \in Nat \ {0} /\ j \in Nat \ {0} /\ Block(j) \in Nat
      /\ runs[i].repeat = Block(i) /\ runs[j].repeat = Block(j)
  BY RepeatIsBlock, ScheduleAssumption
<1>2. j <= Block(j) * 2 * Strata
  BY <1>1, BlockLength
<1>3. i <= Block(j) * 2 * Strata
  <2>1. Block(j) * 2 * Strata \in Nat
    BY <1>1, ScheduleAssumption
  <2> QED
    BY <1>1, <1>2, <2>1
<1> QED
  BY <1>1, <1>3, BlockLength

\* Whatever the validator accepts is balanced.
LEMMA ValidIsBalanced == ScheduleTypeOK => BalancedThroughout
<1>1. SUFFICES ASSUME ScheduleTypeOK, validateScheduleSemantic
               PROVE  /\ \A n \in 1 .. Len(runs) :
                           /\ Observed(n, DirectIds) * 2 - n \in {-1, 0, 1}
                           /\ \A c, d \in CellIds :
                                Observed(n, {c}) - Observed(n, {d}) \in {-1, 0, 1}
                      /\ \A c \in CellIds : Observed(Len(runs), {c}) = Blocks
                      /\ \A i, j \in DOMAIN runs : i < j => runs[i].repeat <= runs[j].repeat
  BY DEF BalancedThroughout, DirectIds
<1>2. ASSUME NEW n \in 1 .. Len(runs) PROVE Observed(n, DirectIds) * 2 - n \in {-1, 0, 1}
  <2>1. n \in Nat /\ n \in 0 .. Len(runs)
    BY <1>1 DEF ScheduleTypeOK
  <2>2. n \div 2 <= Observed(n, DirectIds) /\ Observed(n, DirectIds) <= (n + 1) \div 2
    BY <1>1, <2>1, DirectCount
  <2>3. Observed(n, DirectIds) \in Nat
    BY <2>1, ObservedFinite
  <2> QED
    BY <2>1, <2>2, <2>3
<1> QED
  BY <1>1, <1>2, CellsBalanced, RepeatsAscend

-----------------------------------------------------------------------------
(* Orders of the strata *)

\* A sequence of all strata that ascends has each of them once.
LEMMA SortedIsOrder ==
  ASSUME config \in Configs, matrixStrata(config), NEW o \in Sorted
  PROVE  o \in Orders
<1>1. o \in [1 .. Strata -> Keys(config)] /\ \A i, j \in 1 .. Strata : i < j => o[i] < o[j]
  BY DEF Sorted
<1>2. \A i \in 1 .. Strata : o[i] \in Int
  BY <1>1, ScheduleAssumption DEF Keys
<1>3. \A i, j \in 1 .. Strata : o[i] = o[j] => i = j
  <2>1. SUFFICES ASSUME NEW i \in 1 .. Strata, NEW j \in 1 .. Strata, o[i] = o[j], i < j PROVE FALSE
    OBVIOUS
  <2>2. o[i] < o[j] /\ o[i] \in Int /\ o[j] \in Int
    BY <1>1, <1>2, <2>1
  <2> QED
    BY <2>1, <2>2
<1>4. o \in Injection(1 .. Strata, Keys(config))
  BY <1>1, <1>3 DEF Injection, IsInjective
<1>5. Cardinality(1 .. Strata) = Strata
  BY FS_Interval, ScheduleAssumption
<1>6. o \in Surjection(1 .. Strata, Keys(config))
  BY <1>4, <1>5, MatrixSize, FS_Injection
<1> QED
  BY <1>4, <1>6 DEF Orders, Bijection

\* An order names each stratum once.
LEMMA OrderFacts ==
  ASSUME NEW o
  PROVE  o \in Orders <=> /\ o \in [1 .. Strata -> Keys(config)]
                          /\ \A i, j \in 1 .. Strata : o[i] = o[j] => i = j
                          /\ \A key \in Keys(config) : \E i \in 1 .. Strata : o[i] = key
BY DEF Orders, Bijection, Injection, IsInjective, Surjection

\* Its members are strata.
LEMMA OrderMember ==
  ASSUME NEW o \in Orders, NEW k \in 1 .. Strata
  PROVE  o[k] \in Keys(config)
<1>1. o \in [1 .. Strata -> Keys(config)]
  BY OrderFacts
<1> QED
  BY <1>1

\* So does an order in which two have changed places.
LEMMA SwappedOrder ==
  ASSUME NEW o \in Orders, NEW i \in 1 .. Strata, NEW j \in 1 .. Strata
  PROVE  [o EXCEPT ![i] = o[j], ![j] = o[i]] \in Orders
<1> DEFINE p == [o EXCEPT ![i] = o[j], ![j] = o[i]]
<1>1. /\ o \in [1 .. Strata -> Keys(config)]
      /\ \A k, l \in 1 .. Strata : o[k] = o[l] => k = l
      /\ \A key \in Keys(config) : \E k \in 1 .. Strata : o[k] = key
  BY OrderFacts
<1>2. \A k \in 1 .. Strata : p[k] = IF k = j THEN o[i] ELSE IF k = i THEN o[j] ELSE o[k]
  BY <1>1
<1>3. p \in [1 .. Strata -> Keys(config)]
  BY <1>1
<1> HIDE DEF p
<1>4. \A k, l \in 1 .. Strata : p[k] = p[l] => k = l
  BY <1>1, <1>2
<1>5. ASSUME NEW key \in Keys(config) PROVE \E k \in 1 .. Strata : p[k] = key
  <2>1. PICK k \in 1 .. Strata : o[k] = key
    BY <1>1
  <2>2. CASE k = i
    BY <1>2, <2>1, <2>2
  <2>3. CASE k = j
    BY <1>2, <2>1, <2>3
  <2>4. CASE k # i /\ k # j
    BY <1>2, <2>1, <2>4
  <2> QED
    BY <2>2, <2>3, <2>4
<1>6. p \in Orders
  BY <1>3, <1>4, <1>5, OrderFacts
<1> QED
  BY <1>6 DEF p

\* uintn returns a number below its argument.
LEMMA Drawn ==
  ASSUME NEW n \in Nat \ {0}, NEW j \in uintn(n)
  PROVE  j \in 0 .. n - 1
<1>1. PICK v \in Accepted(n) : j = v % n
  BY DEF uintn
<1>2. v \in Nat
  BY <1>1 DEF Accepted, Words
<1> QED
  BY <1>1, <1>2

-----------------------------------------------------------------------------
(* What is generated is valid *)

\* The cells of a generated pair.
LEMMA PairRuns ==
  ASSUME config \in Configs, matrixStrata(config), \A c, d \in config : c.id = d.id => c = d,
         NEW b, NEW k, NEW key \in Keys(config), PairOf(b, k, key)
  PROVE  LET run(s) == runs[Before(b, k) + s]
         IN  /\ \A s \in {1, 2} :
                  /\ run(s).ordinal = Before(b, k) + s /\ run(s).repeat = b
                  /\ run(s).id = <<Before(b, k) + s, run(s).cell>>
                  /\ run(s).cell \in CellIds /\ StratumOf(run(s).cell) = key
             /\ TreatmentOf(run(1).cell) # TreatmentOf(run(2).cell)
             /\ \A t \in Treatments : \E s \in {1, 2} : run(s).cell = CellOf(config, key, t).id
<1> DEFINE run(s) == runs[Before(b, k) + s]
           cell(t) == CellOf(config, key, t).id
           at(s) == Before(b, k) + s
<1>1. PICK t \in Treatments, u \in Treatments :
        /\ t # u
        /\ run(1) = Run(at(1), <<at(1), cell(t)>>, cell(t), b)
        /\ run(2) = Run(at(2), <<at(2), cell(u)>>, cell(u), b)
  BY DEF PairOf
<1>2. ASSUME NEW v \in Treatments
      PROVE  cell(v) \in CellIds /\ StratumOf(cell(v)) = key /\ TreatmentOf(cell(v)) = v
  <2>1. /\ CellOf(config, key, v) \in config
        /\ CellOf(config, key, v).stratum = key /\ CellOf(config, key, v).treatment = v
    BY CellOfMatrix
  <2> QED
    BY <2>1, TreatmentOfId DEF CellIds
<1>3. /\ run(1).ordinal = at(1) /\ run(1).id = <<at(1), cell(t)>>
      /\ run(1).cell = cell(t) /\ run(1).repeat = b
      /\ run(2).ordinal = at(2) /\ run(2).id = <<at(2), cell(u)>>
      /\ run(2).cell = cell(u) /\ run(2).repeat = b
  BY <1>1 DEF Run
<1>4. \A v \in Treatments : v = t \/ v = u
  BY <1>1 DEF Treatments
<1>5. \A v \in Treatments : \E s \in {1, 2} : run(s).cell = cell(v)
  BY <1>3, <1>4
<1> HIDE DEF run, cell, at
<1>6. \A s \in {1, 2} :
        /\ run(s).ordinal = at(s) /\ run(s).repeat = b /\ run(s).id = <<at(s), run(s).cell>>
        /\ run(s).cell \in CellIds /\ StratumOf(run(s).cell) = key
  BY <1>2, <1>3
<1>7. TreatmentOf(run(1).cell) # TreatmentOf(run(2).cell)
  BY <1>1, <1>2, <1>3
<1> QED
  BY <1>5, <1>6, <1>7 DEF run, cell, at

\* After the last block the schedule is valid, unless identifiers are shared or
\* the header is not the one the config demands.
LEMMA GeneratedIsValid ==
  ASSUME ScheduleTypeOK, matrixStrata(config), At(Blocks + 1, 1),
         header.algorithm, header.seed, header.revision,
         \A c, d \in config : c.id = d.id => c = d
  PROVE  validateScheduleSemantic
<1>1. /\ config \in Configs /\ Blocks \in Nat \ {0} /\ Strata \in Nat \ {0}
  BY ScheduleAssumption DEF ScheduleTypeOK
<1>2. Len(runs) = Blocks * Strata * 2
  BY <1>1 DEF At, Before
<1>3. \A b \in 1 .. Blocks : \E o \in Orders : \A k \in 1 .. Strata : PairOf(b, k, o[k])
  BY <1>1 DEF At, BlocksBefore
<1>4. ASSUME NEW b \in 1 .. Blocks, NEW k \in 1 .. Strata, NEW s \in {1, 2}
      PROVE  /\ Before(b, k) + s \in DOMAIN runs
             /\ Block(Before(b, k) + s) = b
  <2>1. b \in Nat \ {0}
    BY <1>1
  <2>2. Before(b, k) + s \in Nat \ {0} /\ Block(Before(b, k) + s) = b
    BY <2>1, RunOfPair
  <2> QED
    BY <1>2, <2>2, Positions
<1>5. ASSUME NEW i \in DOMAIN runs
      PROVE  /\ i \in Nat \ {0} /\ Block(i) \in 1 .. Blocks
             /\ \E k \in 1 .. Strata, s \in {1, 2} : i = Before(Block(i), k) + s
  BY <1>2, Positions, PairOfRun
<1>6. ASSUME NEW i \in DOMAIN runs
      PROVE  /\ runs[i].ordinal = i /\ runs[i].id = <<i, runs[i].cell>>
             /\ runs[i].cell \in CellIds /\ runs[i].repeat = Block(i)
  <2>1. PICK k \in 1 .. Strata, s \in {1, 2} : i = Before(Block(i), k) + s
    BY <1>5
  <2>2. PICK o \in Orders : \A l \in 1 .. Strata : PairOf(Block(i), l, o[l])
    BY <1>3, <1>5
  <2>3. o[k] \in Keys(config) /\ PairOf(Block(i), k, o[k])
    BY <2>2, OrderMember
  <2> QED
    BY <1>1, <2>1, <2>3, PairRuns
<1>7. validOccurrences
  <2>1. SUFFICES ASSUME NEW id \in CellIds, NEW b \in 1 .. Blocks
                 PROVE  Cardinality({i \in DOMAIN runs : runs[i].cell = id /\ runs[i].repeat = b}) = 1
    BY DEF validOccurrences
  <2> DEFINE T == {i \in DOMAIN runs : runs[i].cell = id /\ runs[i].repeat = b}
  <2>2. PICK c \in config : c.id = id
    BY DEF CellIds
  <2>3. /\ c.stratum \in Keys(config) /\ c.treatment \in Treatments
        /\ CellOf(config, c.stratum, c.treatment) = c /\ StratumOf(id) = c.stratum
    <3>1. c.stratum \in Keys(config) /\ c.treatment \in Treatments
      BY <1>1, <2>2 DEF Keys, matrixStrata
    <3> QED
      BY <1>1, <2>2, <3>1, CellOfMatrix, TreatmentOfId
  <2>4. PICK o \in Orders : \A l \in 1 .. Strata : PairOf(b, l, o[l])
    BY <1>3
  <2>5. PICK k \in 1 .. Strata : o[k] = c.stratum
    BY <2>3, <2>4, OrderFacts
  <2>6. PICK s \in {1, 2} : runs[Before(b, k) + s].cell = id
    BY <1>1, <2>2, <2>3, <2>4, <2>5, PairRuns
  <2> DEFINE i == Before(b, k) + s
  <2>7. i \in T
    BY <1>4, <1>6, <2>6
  <2>8. ASSUME NEW j \in T PROVE j = i
    <3>1. Block(j) = b
      BY <1>6
    <3>2. PICK l \in 1 .. Strata, r \in {1, 2} : j = Before(b, l) + r
      BY <1>5, <3>1
    <3>3. o[l] \in Keys(config) /\ PairOf(b, l, o[l])
      BY <2>4, OrderMember
    <3>4. StratumOf(id) = o[l]
      BY <1>1, <3>2, <3>3, PairRuns
    <3>5. l = k
      BY <2>3, <2>4, <2>5, <3>4, OrderFacts
    <3>6. runs[Before(b, k) + r].cell = id
      BY <3>2, <3>5
    <3>7. TreatmentOf(runs[Before(b, k) + 1].cell) # TreatmentOf(runs[Before(b, k) + 2].cell)
      BY <1>1, <3>3, <3>5, PairRuns
    <3>8. r = s
      BY <2>6, <3>6, <3>7
    <3> QED
      BY <3>2, <3>5, <3>8
  <2>9. T = {i}
    BY <2>7, <2>8
  <2> QED
    BY <2>9, FS_Singleton
<1>8. ASSUME NEW b \in 1 .. Blocks PROVE validBlock(b)
  <2>1. PICK o \in Orders : \A k \in 1 .. Strata : PairOf(b, k, o[k])
    BY <1>3
  <2>2. b \in Nat \ {0}
    BY <1>1
  <2>3. ASSUME NEW k \in 1 .. Strata
        PROVE  validPair(b, k) /\ StratumOf(AtPair(b, k)[1].cell) = o[k]
    <3>1. o[k] \in Keys(config) /\ PairOf(b, k, o[k])
      BY <2>1, OrderMember
    <3>2. AtPair(b, k)[1] = runs[Before(b, k) + 1] /\ AtPair(b, k)[2] = runs[Before(b, k) + 2]
      BY <2>2, AtPairRuns
    <3>3. /\ \A s \in {1, 2} :
               LET run == runs[Before(b, k) + s]
               IN  run.repeat = b /\ run.cell \in CellIds /\ StratumOf(run.cell) = o[k]
          /\ TreatmentOf(runs[Before(b, k) + 1].cell) # TreatmentOf(runs[Before(b, k) + 2].cell)
      BY <1>1, <3>1, PairRuns
    <3> QED
      BY <3>2, <3>3 DEF validPair
  <2>4. \A k, l \in 1 .. Strata : k # l => o[k] # o[l]
    BY <2>1, OrderFacts
  <2> QED
    BY <2>3, <2>4 DEF validBlock
<1>9. ASSUME NEW i \in DOMAIN runs, NEW j \in 1 .. i - 1 PROVE runs[j].id # runs[i].id
  <2>1. j \in DOMAIN runs /\ j # i
    <3>1. DOMAIN runs = 1 .. Len(runs) /\ Len(runs) \in Nat
      BY DEF ScheduleTypeOK
    <3> QED
      BY <3>1
  <2>2. runs[i].id = <<i, runs[i].cell>> /\ runs[j].id = <<j, runs[j].cell>>
    BY <1>6, <2>1
  <2> QED
    BY <2>1, <2>2
<1> QED
  BY <1>2, <1>6, <1>7, <1>8, <1>9 DEF validateScheduleSemantic

-----------------------------------------------------------------------------
(* The generator *)

\* A run in a schedule file.
Entry == [ordinal : Nat, id : Nat \X CellIds, cell : CellIds, repeat : Nat]

\* Steps that leave the matrix and the runs alone keep what is said about them.
LEMMA SameRuns ==
  ASSUME UNCHANGED <<config, runs>>
  PROVE  /\ CellIds' = CellIds /\ Orders' = Orders
         /\ matrixStrata(config)' <=> matrixStrata(config)
         /\ \A b, k : At(b, k)' <=> At(b, k)
         /\ \A b, k, key : PairOf(b, k, key)' <=> PairOf(b, k, key)
<1>1. Orders' = Orders /\ CellIds' = CellIds /\ (matrixStrata(config)' <=> matrixStrata(config))
  BY DEF Orders, Keys, CellIds, matrixStrata
<1>2. ASSUME NEW b, NEW k, NEW key PROVE PairOf(b, k, key)' <=> PairOf(b, k, key)
  BY DEF PairOf, CellOf
<1>3. ASSUME NEW b, NEW k PROVE At(b, k)' <=> At(b, k)
  BY <1>1, <1>2 DEF At, BlocksBefore, Before
<1> QED
  BY <1>1, <1>2, <1>3

\* Where the pairs of a block begin.
LEMMA PairPlaces ==
  ASSUME NEW b \in Nat \ {0}, NEW k \in 1 .. Strata
  PROVE  /\ Before(b, k) \in Nat /\ Before(b, k + 1) = Before(b, k) + 2
         /\ Before(b, Strata + 1) = Before(b + 1, 1)
         /\ Before(b + 1, 1) = b * 2 * Strata
         /\ \A l \in 1 .. Strata : l < k => Before(b, l) + 2 <= Before(b, k)
         /\ \A a \in 1 .. b - 1, l \in 1 .. Strata : Before(a, l) + 2 <= Before(b, k)
<1>1. b \in Int /\ b - 1 \in Nat /\ Strata \in Nat \ {0} /\ (b - 1) * 2 * Strata \in Nat
  BY ScheduleAssumption
<1>2. Before(b, k) \in Nat /\ Before(b, k + 1) = Before(b, k) + 2
  BY <1>1 DEF Before
<1>3. Before(b + 1, 1) = b * 2 * Strata /\ Before(b, Strata + 1) = Before(b + 1, 1)
  BY <1>1 DEF Before
<1>4. \A l \in 1 .. Strata : l < k => Before(b, l) + 2 <= Before(b, k)
  BY <1>1 DEF Before
<1>5. ASSUME NEW a \in 1 .. b - 1, NEW l \in 1 .. Strata
      PROVE  Before(a, l) + 2 <= Before(b, k)
  <2> DEFINE n == 2 * Strata
  <2>1. n \in Nat \ {0} /\ a - 1 \in Int /\ a - 1 < b - 1
    BY <1>1
  <2>2. n * (a - 1) + n <= n * (b - 1)
    BY <1>1, <2>1, ProductOrder
  <2>3. /\ Before(a, l) = n * (a - 1) + 2 * (l - 1) /\ Before(b, k) = n * (b - 1) + 2 * (k - 1)
        /\ n * (a - 1) \in Int /\ n * (b - 1) \in Int
    BY <1>1, <2>1 DEF Before
  <2>4. 2 * (l - 1) + 2 <= n /\ 2 * (l - 1) \in Nat /\ 2 * (k - 1) \in Nat
    BY <1>1
  <2> HIDE DEF n
  <2> QED
    BY <2>1, <2>2, <2>3, <2>4
<1> QED
  BY <1>2, <1>3, <1>4, <1>5

\* A pair that is appended is the next pair of the block.
LEMMA PairAppended ==
  ASSUME ScheduleTypeOK, matrixStrata(config), order \in Orders, index \in 1 .. Strata,
         NEW b \in 1 .. Blocks, NEW k, k = index, NEW key, key = order[k],
         Len(runs) = Before(b, k), Pair
  PROVE  /\ runs' \in Seq(Entry) /\ Len(runs') = Len(runs) + 2
         /\ \A i \in 1 .. Len(runs) : runs'[i] = runs[i]
         /\ PairOf(b, k, key)'
<1> DEFINE at == Len(runs)
           cell(t) == CellOf(config, key, t).id
           entry(i, t) == Run(i, <<i, cell(t)>>, cell(t), b)
<1>1. /\ b \in Nat \ {0} /\ at \in Nat /\ runs \in Seq(Entry) /\ config \in Configs
      /\ UNCHANGED config
  BY ScheduleAssumption DEF ScheduleTypeOK, Entry, Pair
<1>2. at \div (2 * Strata) + 1 = b
  <2>1. Block(Before(b, k) + 1) = b
    BY <1>1, RunOfPair
  <2>2. (at + 1) - 1 = at
    BY <1>1
  <2> QED
    BY <2>1, <2>2 DEF Block
<1>3. key \in Keys(config)
  BY OrderMember
<1>4. \A t \in Treatments : cell(t) \in CellIds
  BY <1>1, <1>3, CellOfMatrix DEF CellIds
<1>5. PICK t \in Treatments, u \in Treatments :
        t # u /\ runs' = runs \o <<entry(at + 1, t), entry(at + 2, u)>>
  <2>1. PICK bit \in uintn(2) :
           LET first == IF bit = 1 THEN "codegen" ELSE "direct"
               other == IF bit = 1 THEN "direct" ELSE "codegen"
           IN  runs' = runs \o <<entry(at + 1, first), entry(at + 2, other)>>
    BY <1>2 DEF Pair
  <2>2. "direct" \in Treatments /\ "codegen" \in Treatments /\ "direct" # "codegen"
    BY DEF Treatments
  <2>3. CASE bit = 1
    BY <2>1, <2>2, <2>3
  <2>4. CASE bit # 1
    BY <2>1, <2>2, <2>4
  <2> QED
    BY <2>3, <2>4
<1>6. entry(at + 1, t) \in Entry /\ entry(at + 2, u) \in Entry
  BY <1>1, <1>4 DEF Run, Entry
<1> HIDE DEF entry
<1>7. /\ runs' \in Seq(Entry) /\ Len(runs') = at + 2
      /\ \A i \in 1 .. at : runs'[i] = runs[i]
      /\ runs'[at + 1] = entry(at + 1, t) /\ runs'[at + 2] = entry(at + 2, u)
  BY <1>1, <1>5, <1>6
<1>8. PairOf(b, k, key)'
  <2> DEFINE run(i, v) == LET c == CellOf(config', key, v).id IN Run(i, <<i, c>>, c, b)
  <2>1. \A i, v : run(i, v) = entry(i, v)
    BY <1>1 DEF entry
  <2>2. at = Before(b, k)
    OBVIOUS
  <2> HIDE DEF run
  <2>3. /\ runs'[Before(b, k) + 1] = run(Before(b, k) + 1, t)
        /\ runs'[Before(b, k) + 2] = run(Before(b, k) + 2, u)
    BY <1>7, <2>1, <2>2
  <2>4. \E v, w \in Treatments :
          /\ v # w
          /\ runs'[Before(b, k) + 1] = run(Before(b, k) + 1, v)
          /\ runs'[Before(b, k) + 2] = run(Before(b, k) + 2, w)
    BY <1>5, <2>3
  <2> QED
    BY <2>4 DEF PairOf, run, Before, CellOf, Run
<1> QED
  BY <1>7, <1>8

\* Appending runs keeps the pairs that are there.
LEMMA PairKept ==
  ASSUME UNCHANGED config, \A i \in 1 .. Len(runs) : runs'[i] = runs[i], Len(runs) \in Nat,
         NEW b, NEW k, NEW key, PairOf(b, k, key),
         Before(b, k) \in Nat, Before(b, k) + 2 <= Len(runs)
  PROVE  PairOf(b, k, key)'
<1>1. /\ runs'[Before(b, k) + 1] = runs[Before(b, k) + 1]
      /\ runs'[Before(b, k) + 2] = runs[Before(b, k) + 2]
  OBVIOUS
<1> DEFINE run(i, t) == LET c == CellOf(config', key, t).id IN Run(i, <<i, c>>, c, b)
<1>2. config' = config
  OBVIOUS
<1>3. PICK t \in Treatments, u \in Treatments :
        /\ t # u
        /\ runs[Before(b, k) + 1] = run(Before(b, k) + 1, t)
        /\ runs[Before(b, k) + 2] = run(Before(b, k) + 2, u)
  BY <1>2 DEF PairOf
<1> HIDE DEF run
<1>4. \E v, w \in Treatments :
        /\ v # w
        /\ runs'[Before(b, k) + 1] = run(Before(b, k) + 1, v)
        /\ runs'[Before(b, k) + 2] = run(Before(b, k) + 2, w)
  BY <1>1, <1>3
<1> QED
  BY <1>4 DEF PairOf, run, Before, CellOf, Run

\* The pair of a stratum brings the generator to the next one, to the next
\* block or to the validation.
LEMMA PairStep ==
  ASSUME ScheduleTypeOK, Generation, Pair
  PROVE  Generation' /\ (runs \in Seq(Entry))'
<1>1. /\ pc = "pairs" /\ matrixStrata(config) /\ order \in Orders /\ index \in 1 .. Strata
      /\ UNCHANGED <<config, order>> /\ index' = index + 1
      /\ pc' = IF index < Strata THEN "pairs"
               ELSE IF Len(runs') < Blocks * Strata * 2 THEN "start" ELSE "validate"
  BY DEF Generation, Pair
<1>2. PICK b \in 1 .. Blocks :
        At(b, index) /\ \A k \in 1 .. index - 1 : PairOf(b, k, order[k])
  BY <1>1 DEF Generation
<1>3. PICK k : k = index
  OBVIOUS
<1>4. PICK o : o = order
  OBVIOUS
<1>5. /\ b \in Nat \ {0} /\ Blocks \in Nat \ {0} /\ Strata \in Nat \ {0} /\ k \in 1 .. Strata
      /\ Len(runs) = Before(b, k) /\ BlocksBefore(b) /\ Len(runs) \in Nat
  BY <1>1, <1>2, <1>3, ScheduleAssumption DEF At, ScheduleTypeOK
<1>6. /\ (runs \in Seq(Entry))' /\ Len(runs') = Len(runs) + 2
      /\ \A i \in 1 .. Len(runs) : runs'[i] = runs[i]
      /\ PairOf(b, k, o[k])'
  <2>1. Entry' = Entry
    BY <1>1 DEF Entry, CellIds
  <2> QED
    BY <1>1, <1>3, <1>4, <1>5, <2>1, PairAppended
<1>7. /\ Before(b, k) \in Nat /\ Before(b, k + 1) = Before(b, k) + 2
      /\ Before(b, Strata + 1) = Before(b + 1, 1) /\ Before(b + 1, 1) = b * 2 * Strata
      /\ \A l \in 1 .. Strata : l < k => Before(b, l) + 2 <= Before(b, k)
      /\ \A a \in 1 .. b - 1, l \in 1 .. Strata : Before(a, l) + 2 <= Before(b, k)
  BY <1>5, PairPlaces
<1>8. Orders' = Orders /\ matrixStrata(config)'
  BY <1>1 DEF Orders, Keys, matrixStrata
<1>9. ASSUME NEW l \in 1 .. k PROVE PairOf(b, l, o[l])'
  <2>1. CASE l = k
    BY <1>6, <2>1
  <2>2. CASE l # k
    <3>1. l \in 1 .. Strata /\ l < k /\ PairOf(b, l, o[l])
      BY <1>2, <1>3, <1>4, <1>5, <2>2
    <3>2. Before(b, l) \in Nat /\ Before(b, l) + 2 <= Len(runs)
      BY <1>5, <1>7, <3>1, PairPlaces
    <3> QED
      BY <1>1, <1>5, <1>6, <3>1, <3>2, PairKept
  <2> QED
    BY <2>1, <2>2
<1>10. BlocksBefore(b)'
  <2>1. SUFFICES ASSUME NEW a \in 1 .. b - 1
                 PROVE  \E p \in Orders : \A l \in 1 .. Strata : PairOf(a, l, p[l])'
    BY <1>8 DEF BlocksBefore
  <2>2. PICK p \in Orders : \A l \in 1 .. Strata : PairOf(a, l, p[l])
    BY <1>5 DEF BlocksBefore
  <2>3. ASSUME NEW l \in 1 .. Strata PROVE PairOf(a, l, p[l])'
    <3>1. a \in Nat \ {0}
      BY <1>5
    <3>2. Before(a, l) \in Nat /\ Before(a, l) + 2 <= Len(runs)
      BY <1>5, <1>7, <3>1, PairPlaces
    <3> QED
      BY <1>1, <1>5, <1>6, <2>2, <3>2, PairKept
  <2> QED
    BY <2>2, <2>3
<1>11. CASE index < Strata
  <2>1. pc' = "pairs" /\ index' \in 1 .. Strata /\ index' = k + 1 /\ order' = o /\ k = index' - 1
    BY <1>1, <1>3, <1>4, <1>5, <1>11
  <2>2. At(b, k + 1)'
    BY <1>5, <1>6, <1>7, <1>10 DEF At, Before
  <2>3. At(b, index)' /\ \A l \in 1 .. index' - 1 : PairOf(b, l, o[l])'
    BY <1>9, <2>1, <2>2 DEF At, Before
  <2>4. (\E a \in 1 .. Blocks : At(a, index) /\ \A l \in 1 .. index - 1 : PairOf(a, l, order[l]))'
    BY <2>1, <2>3
  <2> QED
    BY <1>1, <1>6, <1>8, <2>1, <2>4 DEF Generation
<1>12. CASE index = Strata
  <2>1. k = Strata /\ pc' = IF Len(runs') < Blocks * Strata * 2 THEN "start" ELSE "validate"
    BY <1>1, <1>3, <1>5, <1>12
  <2>2. Len(runs') = Before(b + 1, 1) /\ Len(runs') = b * 2 * Strata
    BY <1>5, <1>6, <1>7, <2>1
  <2>3. BlocksBefore(b + 1)'
    <3>1. ASSUME NEW a \in 1 .. (b + 1) - 1
          PROVE  \E p \in Orders : \A l \in 1 .. Strata : PairOf(a, l, p[l])'
      <4>1. CASE a = b
        BY <1>1, <1>4, <1>9, <2>1, <4>1
      <4>2. CASE a # b
        <5>1. a \in 1 .. b - 1
          BY <1>5, <4>2
        <5> QED
          BY <1>8, <1>10, <5>1 DEF BlocksBefore
      <4> QED
        BY <4>1, <4>2
    <3> QED
      BY <1>8, <3>1 DEF BlocksBefore
  <2>4. At(b + 1, 1)'
    BY <2>2, <2>3 DEF At, Before
  <2>5. CASE b < Blocks
    <3>1. b + 1 \in 1 .. Blocks
      BY <1>5, <2>5
    <3>2. Len(runs') < Blocks * Strata * 2
      <4> DEFINE n == 2 * Strata
      <4>1. n \in Nat \ {0} /\ b * 2 * Strata = n * b /\ Blocks * Strata * 2 = n * Blocks
        BY <1>5
      <4>2. n * b + n <= n * Blocks /\ n * b \in Int /\ n * Blocks \in Int
        BY <1>5, <2>5, <4>1, ProductOrder
      <4> HIDE DEF n
      <4> QED
        BY <2>2, <4>1, <4>2
    <3>3. pc' = "start"
      BY <2>1, <3>2
    <3>4. (\E a \in 1 .. Blocks : At(a, 1))'
      BY <2>4, <3>1
    <3> QED
      BY <1>6, <3>3, <3>4 DEF Generation
  <2>6. CASE b = Blocks
    <3>1. Len(runs') = Blocks * Strata * 2 /\ Blocks * Strata * 2 \in Int
      BY <1>5, <2>2, <2>6
    <3>2. pc' = "validate" /\ At(Blocks + 1, 1)'
      BY <2>1, <2>4, <2>6, <3>1
    <3> QED
      BY <1>6, <1>8, <3>2 DEF Generation
  <2> QED
    BY <1>5, <2>5, <2>6
<1> QED
  BY <1>1, <1>5, <1>11, <1>12

\* An edited file is still a sequence of runs of cells of the matrix.
LEMMA EditedRuns ==
  ASSUME ScheduleTypeOK, EditRuns
  PROVE  runs' \in Seq(Entry)
<1>1. runs \in Seq(Entry) /\ DOMAIN runs = 1 .. Len(runs) /\ Len(runs) \in Nat
  BY DEF ScheduleTypeOK, Entry
<1>2. PICK i \in DOMAIN runs, j \in DOMAIN runs :
         \/ runs' = [runs EXCEPT ![i] = runs[j], ![j] = runs[i]]
         \/ runs' = [runs EXCEPT ![i] = [runs[j] EXCEPT !.ordinal = i],
                                 ![j] = [runs[i] EXCEPT !.ordinal = j]]
         \/ runs' = [runs EXCEPT ![i] = [runs[j] EXCEPT !.ordinal = i, !.id = runs[i].id]]
         \/ runs' = [runs EXCEPT ![i].repeat = runs[j].repeat]
         \/ runs' = SubSeq(runs, 1, Len(runs) - 1)
  BY DEF EditRuns
<1>3. /\ runs[i] \in Entry /\ runs[j] \in Entry /\ i \in Nat /\ j \in Nat
  BY <1>1, <1>2
<1>4. /\ [runs[j] EXCEPT !.ordinal = i] \in Entry /\ [runs[i] EXCEPT !.ordinal = j] \in Entry
      /\ [runs[j] EXCEPT !.ordinal = i, !.id = runs[i].id] \in Entry
      /\ [runs[i] EXCEPT !.repeat = runs[j].repeat] \in Entry
  BY <1>3 DEF Entry
<1>5. \A e, f \in Entry :
        /\ [runs EXCEPT ![i] = e] \in Seq(Entry)
        /\ [runs EXCEPT ![i] = e, ![j] = f] \in Seq(Entry)
  BY <1>1
<1>6. SubSeq(runs, 1, Len(runs) - 1) \in Seq(Entry)
  BY <1>1, <1>2
<1> QED
  BY <1>2, <1>3, <1>4, <1>5, <1>6

\* Every step keeps the types.
LEMMA ScheduleTypeStep ==
  ASSUME ScheduleInv, [ScheduleNext]_scheduleVars
  PROVE  ScheduleTypeOK'
<1>1. /\ ScheduleTypeOK /\ Generation /\ Strata \in Nat \ {0} /\ MaxEdits \in Nat
      /\ UNCHANGED config /\ Entry' = Entry
  BY ScheduleAssumption
  DEF ScheduleInv, ScheduleNext, scheduleVars, Refuse, StartBlock, shuffle, StartPairs, Pair,
      Publish, Edit, Finished, Entry, CellIds
<1>2. SUFFICES /\ (runs \in Seq(Entry))' /\ (header \in Headers)'
               /\ (pc \in {"start", "refused", "shuffle", "pairs", "validate", "published", "invalid"})'
               /\ (index \in 0 .. Strata + 1)' /\ (edits \in 0 .. MaxEdits)'
  BY <1>1 DEF ScheduleTypeOK, Entry
<1>3. CASE Pair
  <2>1. (runs \in Seq(Entry))' /\ index \in 1 .. Strata
    BY <1>1, <1>3, PairStep DEF Generation, Pair
  <2>2. pc' \in {"start", "pairs", "validate"} /\ index' = index + 1 /\ edits' = edits
        /\ header' = header
    BY <1>3 DEF Pair
  <2> QED
    BY <1>1, <2>1, <2>2 DEF ScheduleTypeOK
<1>4. CASE Edit
  <2>1. pc' = pc /\ index' = index /\ edits' = edits + 1 /\ edits < MaxEdits
    BY <1>4 DEF Edit
  <2>2. CASE EditRuns
    <3>1. runs' \in Seq(Entry) /\ header' = header /\ header \in Headers
      BY <1>1, <2>2, EditedRuns DEF ScheduleTypeOK, EditRuns
    <3> QED
      BY <1>1, <2>1, <3>1 DEF ScheduleTypeOK
  <2>3. CASE EditHeader
    <3>1. runs' = runs /\ runs \in Seq(Entry) /\ header' \in Headers
      BY <1>1, <2>3 DEF ScheduleTypeOK, EditHeader, Entry
    <3> QED
      BY <1>1, <2>1, <3>1 DEF ScheduleTypeOK
  <2> QED
    BY <1>4, <2>2, <2>3 DEF Edit
<1>5. CASE Refuse \/ StartPairs \/ Publish \/ Finished \/ UNCHANGED scheduleVars
  BY <1>1, <1>5 DEF Refuse, StartPairs, Publish, Finished, scheduleVars, ScheduleTypeOK, Entry
<1>6. CASE StartBlock \/ shuffle
  <2>1. /\ pc' = "shuffle" /\ UNCHANGED <<runs, edits, header>>
        /\ index' = Strata \/ (index > 1 /\ index' = index - 1)
    BY <1>6 DEF StartBlock, shuffle
  <2>2. runs \in Seq(Entry) /\ index \in 0 .. Strata + 1 /\ edits \in 0 .. MaxEdits
        /\ header \in Headers
    BY <1>1 DEF ScheduleTypeOK, Entry
  <2>3. index' \in 0 .. Strata + 1
    BY <1>1, <2>1, <2>2
  <2> QED
    BY <1>1, <2>1, <2>2, <2>3
<1> QED
  BY <1>3, <1>4, <1>5, <1>6 DEF ScheduleNext

\* Every step keeps what is known of the generation.
LEMMA GenerationStep ==
  ASSUME ScheduleInv, [ScheduleNext]_scheduleVars
  PROVE  Generation'
<1>1. /\ ScheduleTypeOK /\ Generation /\ Strata \in Nat \ {0} /\ config \in Configs
  BY ScheduleAssumption DEF ScheduleInv, ScheduleTypeOK
<1>2. CASE Pair
  BY <1>1, <1>2, PairStep
<1>3. CASE Refuse \/ Publish
  <2>1. pc' \in {"refused", "published", "invalid"}
    BY <1>3 DEF Refuse, Publish
  <2> QED
    BY <2>1 DEF Generation
<1>4. CASE Edit
  <2>1. pc' = "published"
    BY <1>4 DEF Edit
  <2> QED
    BY <2>1 DEF Generation
<1>5. CASE Finished \/ UNCHANGED scheduleVars
  <2>1. UNCHANGED <<config, pc, order, index, runs>>
    BY <1>5 DEF Finished, scheduleVars
  <2>2. /\ Orders' = Orders /\ (matrixStrata(config)' <=> matrixStrata(config))
        /\ \A b, k : At(b, k)' <=> At(b, k)
        /\ \A b, k, key : PairOf(b, k, key)' <=> PairOf(b, k, key)
    BY <2>1, SameRuns
  <2> QED
    BY <1>1, <2>1, <2>2 DEF Generation
<1>6. CASE StartBlock
  <2>1. /\ UNCHANGED <<config, runs>> /\ pc = "start" /\ matrixStrata(config)
        /\ pc' = "shuffle" /\ order' \in Sorted /\ index' = Strata
    BY <1>6 DEF StartBlock
  <2>2. Sorted \subseteq Orders
    BY <1>1, <2>1, SortedIsOrder
  <2>3. /\ Orders' = Orders /\ (matrixStrata(config)' <=> matrixStrata(config))
        /\ \A b, k : At(b, k)' <=> At(b, k)
    BY <2>1, SameRuns
  <2>4. PICK b \in 1 .. Blocks : At(b, 1)
    BY <1>1, <2>1 DEF Generation
  <2>5. At(b, 1)'
    BY <2>3, <2>4
  <2> QED
    BY <1>1, <2>1, <2>2, <2>3, <2>5 DEF Generation
<1>7. CASE shuffle
  <2>1. /\ UNCHANGED <<config, runs, pc>> /\ pc = "shuffle" /\ index > 1 /\ index' = index - 1
        /\ matrixStrata(config) /\ order \in Orders /\ index \in 1 .. Strata
    BY <1>1, <1>7 DEF shuffle, Generation
  <2>2. PICK j \in uintn(index) :
          order' = [order EXCEPT ![index] = order[j + 1], ![j + 1] = order[index]]
    BY <1>7 DEF shuffle
  <2>3. j \in 0 .. index - 1
    BY <2>1, <2>2, Drawn
  <2>4. order' \in Orders
    <3>1. j + 1 \in 1 .. Strata
      BY <1>1, <2>1, <2>3
    <3> QED
      BY <2>1, <2>2, <3>1, SwappedOrder
  <2>5. /\ Orders' = Orders /\ (matrixStrata(config)' <=> matrixStrata(config))
        /\ \A b, k : At(b, k)' <=> At(b, k)
    BY <2>1, SameRuns
  <2>6. PICK b \in 1 .. Blocks : At(b, 1)
    BY <1>1, <2>1 DEF Generation
  <2>7. At(b, 1)'
    BY <2>5, <2>6
  <2>8. index' \in 1 .. Strata
    BY <1>1, <2>1
  <2> QED
    BY <2>1, <2>4, <2>5, <2>7, <2>8 DEF Generation
<1>8. CASE StartPairs
  <2>1. /\ UNCHANGED <<config, runs, order, index>> /\ pc = "shuffle" /\ index = 1 /\ pc' = "pairs"
        /\ matrixStrata(config) /\ order \in Orders /\ index \in 1 .. Strata
    BY <1>1, <1>8 DEF StartPairs, Generation
  <2>2. /\ Orders' = Orders /\ (matrixStrata(config)' <=> matrixStrata(config))
        /\ \A b, k : At(b, k)' <=> At(b, k)
    BY <2>1, SameRuns
  <2>3. PICK b \in 1 .. Blocks : At(b, 1)
    BY <1>1, <2>1 DEF Generation
  <2>4. At(b, 1)' /\ index' = 1
    BY <2>1, <2>2, <2>3
  <2>5. (At(b, index) /\ \A k \in 1 .. index - 1 : PairOf(b, k, order[k]))'
    <3>1. At(b, index)'
      BY <2>4 DEF At, Before
    <3> QED
      BY <2>4, <3>1
  <2> QED
    BY <2>1, <2>2, <2>5 DEF Generation
<1> QED
  BY <1>2, <1>3, <1>4, <1>5, <1>6, <1>7, <1>8 DEF ScheduleNext

\* The generator's own validation fails only on shared identifiers and on a seed
\* or a revision that is not the config's.
LEMMA AcceptedStep ==
  ASSUME ScheduleInv, [ScheduleNext]_scheduleVars
  PROVE  GeneratedAccepted'
<1>1. ScheduleTypeOK /\ Generation /\ GeneratedAccepted /\ HeaderKept /\ UNCHANGED config
  BY DEF ScheduleInv, ScheduleNext, scheduleVars, Refuse, StartBlock, shuffle, StartPairs, Pair,
      Publish, Edit, Finished
<1>2. CASE Publish
  <2>1. matrixStrata(config) /\ At(Blocks + 1, 1) /\ header.algorithm /\ UNCHANGED header
    BY <1>1, <1>2 DEF Publish, Generation, HeaderKept
  <2>2. pc' = IF validateScheduleSemantic THEN "published" ELSE "invalid"
    BY <1>2 DEF Publish
  <2>3. CASE validateScheduleSemantic
    <3>1. ~Unfit
      BY <1>1, <2>3, ValidIdentifiers DEF Unfit, validateScheduleSemantic
    <3> QED
      BY <1>1, <2>1, <2>2, <2>3, <3>1 DEF GeneratedAccepted, Unfit
  <2>4. CASE ~validateScheduleSemantic
    <3>1. Unfit
      BY <1>1, <2>1, <2>4, GeneratedIsValid DEF Unfit
    <3> QED
      BY <1>1, <2>1, <2>2, <2>4, <3>1 DEF GeneratedAccepted, Unfit
  <2> QED
    BY <2>3, <2>4
<1>3. CASE Edit
  <2>1. pc' = "published" /\ edits' = edits + 1 /\ edits \in Nat
    BY <1>1, <1>3, ScheduleAssumption DEF Edit, ScheduleTypeOK
  <2> QED
    BY <2>1 DEF GeneratedAccepted
<1>4. CASE ~Publish /\ ~Edit
  <2>1. /\ UNCHANGED <<header, edits>>
        /\ pc' = "invalid" => pc = "invalid"
        /\ pc' = "published" => pc = "published"
    BY <1>4 DEF ScheduleNext, scheduleVars, Refuse, StartBlock, shuffle, StartPairs, Pair, Finished
  <2> QED
    BY <1>1, <2>1 DEF GeneratedAccepted, Unfit
<1> QED
  BY <1>2, <1>3, <1>4

\* The generator names its algorithm, whatever is edited later.
LEMMA HeaderStep ==
  ASSUME ScheduleInv, [ScheduleNext]_scheduleVars
  PROVE  HeaderKept'
BY DEF ScheduleInv, HeaderKept, ScheduleNext, scheduleVars, Refuse, StartBlock, shuffle, StartPairs,
       Pair, Publish, Edit, Finished

-----------------------------------------------------------------------------
(* Theorems about the schedule *)

\* At every step generateSchedule has produced whole blocks and whole pairs: each
\* finished block has a pair for every stratum, in an order that names each once,
\* and the block at hand has the pairs of the strata before the current one.
THEOREM ScheduleInvariance == ScheduleSpec => []ScheduleInv
<1>1. ScheduleInit => ScheduleInv
  <2>1. SUFFICES ASSUME ScheduleInit PROVE ScheduleInv
    OBVIOUS
  <2>2. /\ config \in Configs /\ pc = "start" /\ index = 0 /\ runs = <<>> /\ edits = 0
        /\ Strata \in Nat \ {0} /\ Blocks \in Nat \ {0} /\ MaxEdits \in Nat
        /\ header \in Headers /\ header.algorithm
    BY <2>1, ScheduleAssumption DEF ScheduleInit
  <2>3. ScheduleTypeOK
    BY <2>2 DEF ScheduleTypeOK
  <2>4. At(1, 1)
    BY <2>2 DEF At, Before, BlocksBefore
  <2>5. Generation
    BY <2>2, <2>4 DEF Generation
  <2> QED
    BY <2>2, <2>3, <2>5 DEF ScheduleInv, GeneratedAccepted, HeaderKept
<1>2. ScheduleInv /\ [ScheduleNext]_scheduleVars => ScheduleInv'
  BY ScheduleTypeStep, GenerationStep, HeaderStep, AcceptedStep DEF ScheduleInv
<1> QED
  BY <1>1, <1>2, PTL DEF ScheduleSpec

\* The rejection of low words makes every draw of uintn fair, for every word width
\* and number of strata: each position of the shuffle and both orders of a pair
\* are reached from equally many accepted words.
THEOREM DrawsUnbiased == ScheduleSpec => []Unbiased
<1>1. ScheduleInv => Unbiased
  <2>1. SUFFICES ASSUME ScheduleInv, pc \in {"shuffle", "pairs"}
                 PROVE  LET n == IF pc = "shuffle" THEN index ELSE 2
                        IN  \A r \in 0 .. n - 1 :
                              Cardinality({v \in Accepted(n) : v % n = r}) * n = Cardinality(Accepted(n))
    BY DEF Unbiased
  <2> DEFINE n == IF pc = "shuffle" THEN index ELSE 2
  <2>2. index \in 1 .. Strata
    BY <2>1 DEF ScheduleInv, Generation
  <2>3. n \in Nat \ {0} /\ n <= 2 ^ W
    BY <2>2, ScheduleAssumption
  <2> HIDE DEF n
  <2>4. \A r \in 0 .. n - 1 :
          Cardinality({v \in Accepted(n) : v % n = r}) * n = Cardinality(Accepted(n))
    BY <2>3, Fair
  <2> QED
    BY <2>4 DEF n
<1> QED
  BY <1>1, ScheduleInvariance, PTL

\* The generator never rejects its own schedule unless the matrix repeats a cell
\* identifier or the seed or the revision is not the config's, and every file that validateScheduleSemantic accepts, edited or
\* not, keeps treatments and cells balanced after any number of runs.
THEOREM SchedulesSound == ScheduleSpec => []ScheduleSound
<1>1. ScheduleInv => ScheduleSound
  BY ValidIsBalanced DEF ScheduleInv, ScheduleSound
<1> QED
  BY <1>1, ScheduleInvariance, PTL

-----------------------------------------------------------------------------
(* Transcripts *)

\* An event of the transcript is typed, numbered and stamped by buildCommandEvent.
LEMMA EventBuilt ==
  ASSUME MetricsTypeOK, NEW c \in Calls, NEW start \in Nat
  PROVE  /\ buildCommandEvent(c, start) \in Event
         /\ buildCommandEvent(c, start).index = Len(events)
         /\ buildCommandEvent(c, start).startedAt = start
<1>1. Category(c) \in {"generate", "migration", "build", "test", "service", "read", "edit", "other"}
  BY DEF Category, classifyBash
<1>2. Len(events) \in Nat
  BY DEF MetricsTypeOK
<1>3. c.exit \in {0, 1, None}
  BY MetricsAssumption
<1>4. (IF ~c.done THEN None ELSE IF c.tool = "bash" THEN c.exit ELSE 0) \in {0, 1, None}
  BY <1>3
<1>5. ("check" \in c.words) \in BOOLEAN
  OBVIOUS
<1> QED
  BY <1>1, <1>2, <1>4, <1>5 DEF buildCommandEvent, Event

\* The stamp of an event is a time.
LEMMA StampIsTime ==
  ASSUME MetricsTypeOK, NEW i \in DOMAIN events
  PROVE  events[i] \in Event /\ events[i].startedAt \in Nat
<1>1. events[i] \in Event
  BY DEF MetricsTypeOK
<1> QED
  BY <1>1 DEF Event

\* A tool call appends an event that started while the agent ran.
LEMMA CallAppended ==
  ASSUME MetricsTypeOK, NEW c \in Calls, ToolUse(c)
  PROVE  /\ events' \in Seq(Event) /\ Len(events') = Len(events) + 1
         /\ DOMAIN events' = 1 .. Len(events) + 1
         /\ \A i \in 1 .. Len(events) : events'[i] = events[i]
         /\ events'[Len(events) + 1].index = Len(events)
         /\ setup <= events'[Len(events) + 1].startedAt
         /\ events'[Len(events) + 1].startedAt <= clock
<1>1. PICK start \in setup .. clock : events' = Append(events, buildCommandEvent(c, start))
  BY DEF ToolUse
<1>2. start \in Nat /\ setup <= start /\ start <= clock
  BY <1>1 DEF MetricsTypeOK
<1>3. /\ buildCommandEvent(c, start) \in Event
      /\ buildCommandEvent(c, start).index = Len(events)
      /\ buildCommandEvent(c, start).startedAt = start
  BY <1>2, EventBuilt
<1>4. events \in Seq(Event)
  BY DEF MetricsTypeOK
<1> HIDE DEF ToolUse
<1>5. /\ events' \in Seq(Event) /\ Len(events') = Len(events) + 1
      /\ DOMAIN events' = 1 .. Len(events) + 1
      /\ \A i \in 1 .. Len(events) : events'[i] = events[i]
      /\ events'[Len(events) + 1] = buildCommandEvent(c, start)
  BY <1>1, <1>3, <1>4
<1> QED
  BY <1>2, <1>3, <1>5

\* The ways in which runCandidate returns.
Ends == Submit \/ TimeOut \/ Fail \/ SetupFails \/ Interrupt

\* Each keeps the transcript, with its last line cut or not, or loses it whole.
LEMMA EndsStep ==
  ASSUME MetricsTypeOK, Ends
  PROVE  /\ phase \in {"setup", "agent"} /\ phase' = "cleanup"
         /\ exit' \in {0, 70, 71, 124, 130} /\ unreadable' \in BOOLEAN
         /\ UNCHANGED <<clock, setup, status, finishedAt, lines, printed, metrics>>
         /\ \/ UNCHANGED <<usage, events, touched>> /\ (unreadable => unreadable')
            \/ /\ usage' = NoUsage /\ events' = <<>> /\ touched' = {} /\ unreadable' = FALSE
               /\ exit' # 0 /\ (exit' = 124 => clock >= Timeout + Grace)
<1> USE DEF Returned, Saved, scanner
<1>1. CASE Submit
  BY <1>1 DEF Submit, MetricsTypeOK
<1>2. CASE TimeOut
  BY <1>2 DEF TimeOut, MetricsTypeOK
<1>3. CASE Fail
  BY <1>3 DEF Fail, MetricsTypeOK
<1>4. CASE SetupFails
  BY <1>4 DEF SetupFails, MetricsTypeOK
<1>5. CASE Interrupt
  <2>1. /\ phase \in {"setup", "agent"} /\ phase' = "cleanup"
        /\ exit' = (IF clock >= Timeout + Grace THEN 124 ELSE 130)
        /\ UNCHANGED <<clock, setup, status, finishedAt, lines, printed, metrics>>
    BY <1>5 DEF Interrupt
  <2>2. /\ exit' \in {124, 130} /\ (exit' = 124 => clock >= Timeout + Grace)
    BY <2>1
  <2>3. CASE Saved(TRUE)
    <3>1. unreadable' \in {unreadable, TRUE} /\ UNCHANGED <<usage, events, touched>>
      BY <2>3
    <3>2. (unreadable => unreadable') /\ unreadable' \in BOOLEAN
      BY <3>1 DEF MetricsTypeOK
    <3> QED
      BY <2>1, <2>2, <3>1, <3>2
  <2>4. CASE unreadable' = FALSE /\ usage' = NoUsage /\ events' = <<>> /\ touched' = {}
    <3>1. exit' # 0 /\ exit' \in {0, 70, 71, 124, 130}
      BY <2>2
    <3>2. unreadable' \in BOOLEAN
      BY <2>4
    <3> QED
      BY <2>1, <2>2, <2>4, <3>1, <3>2, Zenon
  <2> QED
    BY <1>5, <2>3, <2>4 DEF Interrupt
<1> QED
  BY <1>1, <1>2, <1>3, <1>4, <1>5 DEF Ends

\* The transcript without a line.
LEMMA EmptyTranscript ==
  /\ NoUsage \in [turns : Nat, input : Nat, output : Nat, tokenLines : Nat] /\ NoUsage.turns = 0
  /\ <<>> \in Seq(Event) /\ Len(<<>>) = 0 /\ DOMAIN <<>> = {}
BY DEF NoUsage

\* Types are kept by every step.
LEMMA MetricsTypeStep ==
  ASSUME MetricsTypeOK, MetricsNext
  PROVE  MetricsTypeOK'
<1> USE MetricsAssumption
<1>1. CASE Tick
  BY <1>1 DEF Tick, MetricsTypeOK, scanner
<1>2. CASE StartAgent
  BY <1>2 DEF StartAgent, MetricsTypeOK, scanner
<1>3. CASE PrintLine
  <2>1. /\ lines' \in 0 .. MaxLines /\ printed' \in Nat /\ unreadable' \in BOOLEAN
        /\ UNCHANGED <<phase, clock, setup, exit, status, finishedAt>>
    <3>1. /\ lines < MaxLines /\ lines' = lines + 1 /\ printed' \in {printed, printed + 1}
          /\ unreadable' \in {unreadable, TRUE}
          /\ UNCHANGED <<phase, clock, setup, exit, status, finishedAt>>
      BY <1>3 DEF PrintLine
    <3>2. lines \in 0 .. MaxLines /\ MaxLines \in Nat /\ printed \in Nat /\ unreadable \in BOOLEAN
      BY DEF MetricsTypeOK
    <3>3. unreadable' \in BOOLEAN
      BY <3>1, <3>2, Zenon
    <3>4. lines' \in 0 .. MaxLines /\ printed' \in Nat
      BY <3>1, <3>2
    <3> QED
      BY <3>1, <3>3, <3>4
  <2>2. ASSUME NEW reported \in SUBSET {"input", "output"}, StepFinish(reported)
        PROVE  MetricsTypeOK'
    <3>1. usage' \in [turns : Nat, input : Nat, output : Nat, tokenLines : Nat]
      <4>1. /\ usage.turns \in Nat /\ usage.input \in Nat /\ usage.output \in Nat
            /\ usage.tokenLines \in Nat
        BY DEF MetricsTypeOK
      <4>2. \A side \in {"input", "output"} : (IF side \in reported THEN 1 ELSE 0) \in {0, 1}
        OBVIOUS
      <4> QED
        BY <2>2, <4>1, <4>2 DEF StepFinish
    <3> QED
      BY <2>1, <2>2, <3>1 DEF StepFinish, MetricsTypeOK
  <2>3. ASSUME NEW c \in Calls, ToolUse(c)
        PROVE  MetricsTypeOK'
    <3>1. events' \in Seq(Event)
      BY <2>3, CallAppended
    <3>2. touched' \subseteq {d.path : d \in Calls} /\ UNCHANGED usage
      BY <2>3 DEF ToolUse, eventTouchedFiles, MetricsTypeOK
    <3> QED
      BY <2>1, <3>1, <3>2 DEF MetricsTypeOK
  <2>4. CASE UNCHANGED scanner
    BY <2>1, <2>4 DEF MetricsTypeOK, scanner
  <2> QED
    BY <1>3, <2>2, <2>3, <2>4 DEF PrintLine, scanner
<1>4. CASE Ends
  <2>1. /\ phase' = "cleanup" /\ exit' \in {0, 70, 71, 124, 130} /\ unreadable' \in BOOLEAN
        /\ UNCHANGED <<clock, setup, status, finishedAt, lines, printed, metrics>>
    BY <1>4, EndsStep
  <2>2. \/ UNCHANGED <<usage, events, touched>>
        \/ usage' = NoUsage /\ events' = <<>> /\ touched' = {}
    BY <1>4, EndsStep
  <2>3. /\ usage' \in [turns : Nat, input : Nat, output : Nat, tokenLines : Nat]
        /\ events' \in Seq(Event) /\ touched' \subseteq {c.path : c \in Calls}
    <3>1. CASE UNCHANGED <<usage, events, touched>>
      BY <3>1 DEF MetricsTypeOK
    <3>2. CASE usage' = NoUsage /\ events' = <<>> /\ touched' = {}
      BY <3>2, EmptyTranscript
    <3> QED
      BY <2>2, <3>1, <3>2
  <2> QED
    BY <2>1, <2>3 DEF MetricsTypeOK
<1>5. CASE Stamp
  <2>1. PICK d \in 0 .. MaxCleanup, failed \in BOOLEAN, unsafe \in BOOLEAN :
          /\ exit' = (IF failed THEN 71 ELSE exit)
          /\ finishedAt' = (IF exit' = 124 THEN Timeout ELSE clock + d)
          /\ status' = (IF unsafe \/ exit' \notin {0, 124} THEN "failure"
                        ELSE IF exit' = 0 THEN "submitted" ELSE "timed-out")
    BY <1>5 DEF Stamp
  <2>2. /\ exit' \in {0, 70, 71, 124, 130} /\ finishedAt' \in Nat
        /\ status' \in {"none", "submitted", "timed-out", "failure"}
    BY <2>1 DEF MetricsTypeOK
  <2> QED
    BY <1>5, <2>2 DEF Stamp, MetricsTypeOK, scanner
<1>6. CASE Assemble
  BY <1>6 DEF Assemble, MetricsTypeOK, scanner
<1> QED
  BY <1>1, <1>2, <1>3, <1>4, <1>5, <1>6 DEF MetricsNext, Ends

\* So are the numbers and the stamps of the commands.
LEMMA TimelineStep ==
  ASSUME MetricsTypeOK, Timeline, MetricsNext
  PROVE  Timeline'
<1> USE MetricsAssumption
<1>1. CASE Tick
  <2>1. /\ UNCHANGED <<phase, setup, events>> /\ clock' = clock + 1
        /\ \/ phase = "setup" /\ clock < MaxSetup
           \/ phase = "agent" /\ clock < setup + Timeout + Lag /\ clock < Timeout + Grace + Lag
    BY <1>1 DEF Tick, scanner
  <2>2. /\ clock \in Nat /\ setup \in Nat
        /\ \A i \in DOMAIN events : events[i].startedAt \in Nat
    BY StampIsTime DEF MetricsTypeOK
  <2> QED
    BY <2>1, <2>2 DEF Timeline
<1>2. CASE StartAgent
  <2>1. /\ events' = <<>> /\ DOMAIN events' = {} /\ clock' = clock /\ setup' = clock
        /\ phase' = "agent" /\ clock \in Nat /\ clock <= MaxSetup
    BY <1>2, EmptyTranscript DEF StartAgent, Timeline, MetricsTypeOK, scanner
  <2> QED
    BY <2>1 DEF Timeline
<1>3. CASE PrintLine
  <2>0. UNCHANGED <<phase, clock, setup>> /\ phase = "agent"
    BY <1>3 DEF PrintLine
  <2>1. CASE UNCHANGED events
    BY <2>0, <2>1 DEF Timeline
  <2>2. ASSUME NEW c \in Calls, ToolUse(c)
        PROVE  Timeline'
    <3>1. /\ Len(events) \in Nat /\ DOMAIN events = 1 .. Len(events)
          /\ DOMAIN events' = 1 .. Len(events) + 1
          /\ \A i \in 1 .. Len(events) : events'[i] = events[i]
          /\ events'[Len(events) + 1].index = Len(events)
          /\ setup <= events'[Len(events) + 1].startedAt
          /\ events'[Len(events) + 1].startedAt <= clock
      <4>1. Len(events) \in Nat /\ DOMAIN events = 1 .. Len(events)
        BY DEF MetricsTypeOK
      <4> QED
        BY <2>2, <4>1, CallAppended
    <3>2. ASSUME NEW i \in DOMAIN events'
          PROVE  /\ events'[i].index = i - 1
                 /\ setup <= events'[i].startedAt /\ events'[i].startedAt <= clock
      <4>1. CASE i = Len(events) + 1
        BY <3>1, <4>1
      <4>2. CASE i # Len(events) + 1
        BY <3>1, <4>2 DEF Timeline
      <4> QED
        BY <4>1, <4>2
    <3> QED
      BY <2>0, <3>2 DEF Timeline
  <2> QED
    BY <1>3, <2>1, <2>2 DEF PrintLine, StepFinish, scanner
<1>4. CASE Ends
  <2>1. /\ UNCHANGED <<clock, setup>> /\ phase' = "cleanup"
        /\ events' = events \/ events' = <<>>
    BY <1>4, EndsStep
  <2> QED
    BY <2>1, EmptyTranscript DEF Timeline, MetricsTypeOK
<1>5. CASE Stamp \/ Assemble
  <2>1. /\ UNCHANGED <<clock, setup, events>> /\ phase \notin {"setup", "agent"}
        /\ phase' \notin {"setup", "agent"}
    BY <1>5 DEF Stamp, Assemble, scanner
  <2> QED
    BY <2>1 DEF Timeline
<1> QED
  BY <1>1, <1>2, <1>3, <1>4, <1>5 DEF MetricsNext, Ends

\* And the count of what was printed.
LEMMA AccountingStep ==
  ASSUME MetricsTypeOK, Accounting, MetricsNext
  PROVE  Accounting'
<1>0. usage.turns \in Nat /\ Len(events) \in Nat /\ printed \in Nat
  BY DEF MetricsTypeOK
<1>1. CASE Tick \/ StartAgent
  <2>1. /\ UNCHANGED <<unreadable, printed, usage, events>> /\ phase \in {"setup", "agent"}
    BY <1>1 DEF Tick, StartAgent, scanner
  <2> QED
    BY <2>1 DEF Accounting
<1>2. CASE PrintLine
  <2>0. phase = "agent" /\ phase' = "agent"
    BY <1>2 DEF PrintLine
  <2>1. ASSUME NEW reported \in SUBSET {"input", "output"}, StepFinish(reported),
               printed' = printed + 1, UNCHANGED unreadable
        PROVE  Accounting'
    <3>1. usage'.turns = usage.turns + 1 /\ UNCHANGED events
      BY <2>1 DEF StepFinish
    <3> QED
      BY <1>0, <2>0, <2>1, <3>1 DEF Accounting
  <2>2. ASSUME NEW c \in Calls, ToolUse(c), printed' = printed + 1, UNCHANGED unreadable
        PROVE  Accounting'
    <3>1. Len(events') = Len(events) + 1 /\ UNCHANGED usage
      BY <2>2, CallAppended DEF ToolUse
    <3> QED
      BY <1>0, <2>0, <2>2, <3>1 DEF Accounting
  <2>3. CASE UNCHANGED <<printed, scanner, unreadable>>
    BY <2>0, <2>3 DEF Accounting, scanner
  <2>4. CASE unreadable' = TRUE
    BY <2>4 DEF Accounting
  <2> QED
    BY <1>2, <2>1, <2>2, <2>3, <2>4 DEF PrintLine
<1>3. CASE Ends
  <2>1. /\ phase \in {"setup", "agent"} /\ phase' = "cleanup" /\ UNCHANGED <<clock, printed>>
        /\ \/ UNCHANGED <<usage, events, touched>> /\ (unreadable => unreadable')
           \/ /\ usage' = NoUsage /\ events' = <<>> /\ touched' = {}
              /\ exit' # 0 /\ (exit' = 124 => clock >= Timeout + Grace)
    BY <1>3, EndsStep
  <2> QED
    BY <1>0, <2>1, EmptyTranscript DEF Accounting
<1>4. CASE Stamp
  <2>1. /\ phase' = "ended" /\ UNCHANGED <<clock, unreadable, printed, usage, events, touched>>
        /\ exit' = exit \/ exit' = 71
    BY <1>4 DEF Stamp, scanner
  <2> QED
    BY <2>1 DEF Accounting
<1>5. CASE Assemble
  <2>1. /\ phase' \in {"assembled", "failed"}
        /\ UNCHANGED <<clock, exit, unreadable, printed, usage, events, touched>>
    BY <1>5 DEF Assemble, scanner
  <2> QED
    BY <2>1 DEF Accounting
<1> QED
  BY <1>1, <1>2, <1>3, <1>4, <1>5 DEF MetricsNext, Ends

\* And what the end of the run says about it.
LEMMA EndingsStep ==
  ASSUME MetricsTypeOK, Endings, MetricsNext
  PROVE  Endings'
<1> USE MetricsAssumption
<1>1. CASE Tick \/ StartAgent \/ PrintLine \/ Ends
  <2>1. phase \in {"setup", "agent"} /\ phase' \in {"setup", "agent", "cleanup"} /\ UNCHANGED metrics
    BY <1>1, EndsStep DEF Tick, StartAgent, PrintLine
  <2>2. metrics = None
    BY <2>1 DEF Endings
  <2> QED
    BY <2>1, <2>2 DEF Endings
<1>2. CASE Stamp
  <2>1. PICK d \in 0 .. MaxCleanup, failed \in BOOLEAN, unsafe \in BOOLEAN :
          /\ exit' = (IF failed THEN 71 ELSE exit)
          /\ finishedAt' = (IF exit' = 124 THEN Timeout ELSE clock + d)
          /\ status' = (IF unsafe \/ exit' \notin {0, 124} THEN "failure"
                        ELSE IF exit' = 0 THEN "submitted" ELSE "timed-out")
    BY <1>2 DEF Stamp
  <2>2. phase = "cleanup" /\ phase' = "ended" /\ UNCHANGED <<clock, metrics>> /\ metrics = None
    BY <1>2 DEF Stamp, Endings
  <2>3. /\ IF exit' = 124 THEN finishedAt' = Timeout ELSE finishedAt' >= clock
        /\ status' = "submitted" => exit' = 0
        /\ status' = "timed-out" => exit' = 124
    BY <2>1 DEF MetricsTypeOK
  <2> QED
    BY <2>2, <2>3 DEF Endings
<1>3. CASE Assemble
  <2>1. UNCHANGED <<clock, setup, exit, status, finishedAt, unreadable, usage, events, touched>>
    BY <1>3 DEF Assemble, scanner
  <2>2. Derived' = Derived
    BY <2>1 DEF Derived, Repairs, Failed, Verification, extractCompilerEvent,
                FirstStart, SuccessfulBuilds, SuccessfulChecks
  <2>3. phase = "ended" /\ metrics = None
    BY <1>3 DEF Assemble, Endings
  <2>4. CASE unreadable \/ finishedAt > Timeout
    BY <1>3, <2>1, <2>3, <2>4 DEF Assemble, Endings
  <2>5. CASE ~(unreadable \/ finishedAt > Timeout)
    BY <1>3, <2>1, <2>2, <2>3, <2>5 DEF Assemble, Endings
  <2> QED
    BY <2>4, <2>5
<1> QED
  BY <1>1, <1>2, <1>3 DEF MetricsNext, Ends

\* Through a whole run the transcript numbers its commands in order and stamps them
\* within the agent's time, what can be read of it counts all that was printed, and
\* the result holds exactly what was derived from it.
THEOREM MetricsInvariance == MetricsSpec => []MetricsInv
<1>1. MetricsInit => MetricsInv
  <2> SUFFICES ASSUME MetricsInit PROVE MetricsInv
    OBVIOUS
  <2>1. MetricsTypeOK
    <3>1. events \in Seq(Event) /\ 0 \in 0 .. MaxLines
      BY MetricsAssumption DEF MetricsInit
    <3> QED
      BY <3>1, EmptyTranscript DEF MetricsInit, MetricsTypeOK
  <2>2. Timeline
    BY MetricsAssumption, EmptyTranscript DEF MetricsInit, Timeline
  <2>3. Accounting
    BY EmptyTranscript DEF MetricsInit, Accounting
  <2>4. Endings
    BY DEF MetricsInit, Endings
  <2> QED
    BY <2>1, <2>2, <2>3, <2>4 DEF MetricsInv
<1>2. MetricsInv /\ [MetricsNext]_metricsVars => MetricsInv'
  <2>1. CASE MetricsNext
    BY <2>1, MetricsTypeStep, TimelineStep, AccountingStep, EndingsStep DEF MetricsInv
  <2>2. CASE UNCHANGED metricsVars
    <3>1. Derived' = Derived
      BY <2>2 DEF metricsVars, scanner, Derived, Repairs, Failed, Verification,
                extractCompilerEvent, FirstStart, SuccessfulBuilds, SuccessfulChecks
    <3>2. MetricsTypeOK' <=> MetricsTypeOK
      BY <2>2 DEF metricsVars, scanner, MetricsTypeOK
    <3>3. (Timeline' <=> Timeline) /\ (Accounting' <=> Accounting)
      BY <2>2 DEF metricsVars, scanner, Timeline, Accounting
    <3>4. Endings' <=> Endings
      BY <2>2, <3>1 DEF metricsVars, Endings
    <3> QED
      BY <3>2, <3>3, <3>4 DEF MetricsInv
  <2> QED
    BY <2>1, <2>2
<1> QED
  BY <1>1, <1>2, PTL DEF MetricsSpec

\* A milestone is the stamp of a command, so it lies between the setup and the end.
LEMMA MilestoneStamped ==
  ASSUME MetricsTypeOK, Timeline, NEW S \in SUBSET DOMAIN events, FirstStart(S) # None
  PROVE  /\ FirstStart(S) \in Nat
         /\ setup <= FirstStart(S) /\ FirstStart(S) <= clock
<1>1. S # {} /\ FirstStart(S) = events[Min(S)].startedAt
  BY DEF FirstStart
<1>2. S \subseteq Nat
  BY DEF MetricsTypeOK
<1>3. Min(S) \in S
  BY <1>1, <1>2, LeastNumber DEF Min
<1>4. events[Min(S)].startedAt \in Nat
  BY <1>3, StampIsTime
<1> QED
  BY <1>1, <1>3, <1>4 DEF Timeline

\* Only a set without commands has no first one.
LEMMA NoMilestone ==
  ASSUME MetricsTypeOK, NEW S \in SUBSET DOMAIN events, FirstStart(S) = None
  PROVE  S = {}
<1>1. SUFFICES ASSUME S # {} PROVE FALSE
  OBVIOUS
<1>2. S \subseteq Nat /\ FirstStart(S) = events[Min(S)].startedAt
  BY <1>1 DEF FirstStart, MetricsTypeOK
<1>3. Min(S) \in S
  BY <1>1, <1>2, LeastNumber DEF Min
<1>4. events[Min(S)].startedAt \in Nat
  BY <1>3, StampIsTime
<1> QED
  BY <1>2, <1>4, MetricsAssumption

\* The commands of a transcript are finitely many.
LEMMA CommandsFinite ==
  ASSUME MetricsTypeOK, NEW S \in SUBSET DOMAIN events
  PROVE  IsFiniteSet(S) /\ Cardinality(S) \in Nat
<1>1. DOMAIN events = 1 .. Len(events) /\ Len(events) \in Nat
  BY DEF MetricsTypeOK
<1>2. IsFiniteSet(1 .. Len(events))
  BY <1>1, FS_Interval
<1>3. IsFiniteSet(S)
  BY <1>1, <1>2, FS_Subset
<1> QED
  BY <1>3, FS_CardinalityType

\* The milestones of a result lie within its run.
LEMMA MilestonesInside == MetricsInv => MilestonesWithinRun
<1>1. SUFFICES ASSUME MetricsInv, metrics # None, NEW m \in Milestones
               PROVE  /\ setup <= m
                      /\ IF exit = 124 THEN /\ m <= metrics.wallClock + setup + Lag
                                           /\ m <= metrics.wallClock + Grace + Lag
                         ELSE m <= metrics.wallClock
  BY DEF MilestonesWithinRun
<1>2. /\ phase = "assembled" /\ metrics = Derived /\ metrics.wallClock = finishedAt
      /\ metrics.firstBuild = FirstStart(SuccessfulBuilds)
      /\ metrics.firstCheck = FirstStart(SuccessfulChecks)
  BY <1>1 DEF MetricsInv, Endings, Derived
<1>3. SuccessfulBuilds \subseteq DOMAIN events /\ SuccessfulChecks \subseteq DOMAIN events
  BY DEF SuccessfulBuilds, SuccessfulChecks
<1>4. m \in Nat /\ setup <= m /\ m <= clock /\ events # <<>>
  <2>1. PICK S \in {SuccessfulBuilds, SuccessfulChecks} : m = FirstStart(S) /\ m # None
    BY <1>1, <1>2 DEF Milestones
  <2>2. S # {}
    BY <2>1 DEF FirstStart
  <2>3. events # <<>>
    BY <1>3, <2>2, EmptyTranscript
  <2> QED
    BY <1>1, <1>3, <2>1, <2>3, MilestoneStamped DEF MetricsInv
<1>5. /\ IF exit = 124 THEN finishedAt = Timeout ELSE finishedAt >= clock
      /\ clock <= setup + Timeout + Lag /\ clock <= Timeout + Grace + Lag
  BY <1>1, <1>2, <1>4 DEF MetricsInv, Endings, Timeline
<1>6. /\ clock \in Nat /\ setup \in Nat /\ finishedAt \in Nat
      /\ Timeout \in Nat /\ Grace \in Nat /\ Lag \in Nat
  BY <1>1, MetricsAssumption DEF MetricsInv, MetricsTypeOK
<1> QED
  BY <1>2, <1>4, <1>5, <1>6

\* Compiler events and commands without a milestone are among the repairs.
LEMMA RepairsAccounted == MetricsInv => RepairsExplained
<1>1. SUFFICES ASSUME MetricsInv, metrics # None
               PROVE  /\ \A e \in metrics.compilerEvents :
                            /\ e.commandIndex < metrics.toolCalls
                            /\ Verification(events[e.commandIndex + 1])
                            /\ Failed(events[e.commandIndex + 1])
                      /\ Cardinality(metrics.compilerEvents) <= metrics.repairs
                      /\ metrics.firstBuild = None =>
                            Cardinality({i \in DOMAIN events : events[i].category = "build"})
                               <= metrics.repairs
  BY DEF RepairsExplained
<1> DEFINE D == {j \in Repairs : events[j].diagnostic # "none"}
           f == [i \in D |-> extractCompilerEvent(events[i])]
           Builds == {i \in DOMAIN events : events[i].category = "build"}
<1>2. /\ metrics.toolCalls = Len(events) /\ metrics.repairs = Cardinality(Repairs)
      /\ metrics.compilerEvents = {extractCompilerEvent(events[i]) : i \in D}
      /\ metrics.firstBuild = FirstStart(SuccessfulBuilds)
  BY <1>1 DEF MetricsInv, Endings, Derived
<1>3. /\ MetricsTypeOK /\ Timeline /\ Len(events) \in Nat /\ DOMAIN events = 1 .. Len(events)
  BY <1>1 DEF MetricsInv, MetricsTypeOK
<1>4. /\ D \subseteq Repairs /\ Repairs \subseteq DOMAIN events
      /\ \A i \in Repairs : Verification(events[i]) /\ Failed(events[i])
  BY DEF Repairs
<1>5. ASSUME NEW e \in metrics.compilerEvents
      PROVE  /\ e.commandIndex < metrics.toolCalls
             /\ Verification(events[e.commandIndex + 1]) /\ Failed(events[e.commandIndex + 1])
  <2>1. PICK i \in D : e = extractCompilerEvent(events[i])
    BY <1>2
  <2>2. i \in 1 .. Len(events) /\ e.commandIndex = i - 1
    BY <1>3, <1>4, <2>1 DEF extractCompilerEvent, Timeline
  <2>3. e.commandIndex + 1 = i
    BY <2>2
  <2> QED
    BY <1>2, <1>3, <1>4, <2>2, <2>3
<1>6. Cardinality(metrics.compilerEvents) <= metrics.repairs
  <2>1. f \in Surjection(D, metrics.compilerEvents)
    BY <1>2 DEF Surjection
  <2>2. /\ IsFiniteSet(D) /\ IsFiniteSet(Repairs)
        /\ Cardinality(D) \in Nat /\ Cardinality(Repairs) \in Nat
    BY <1>3, <1>4, CommandsFinite
  <2>3. Cardinality(metrics.compilerEvents) <= Cardinality(D) /\ IsFiniteSet(metrics.compilerEvents)
    BY <2>1, <2>2, FS_Surjection
  <2>4. Cardinality(D) <= Cardinality(Repairs)
    BY <1>4, <2>2, FS_Subset
  <2>5. Cardinality(metrics.compilerEvents) \in Nat
    BY <2>3, FS_CardinalityType
  <2> QED
    BY <1>2, <2>2, <2>3, <2>4, <2>5
<1>7. ASSUME metrics.firstBuild = None
      PROVE  Cardinality(Builds) <= metrics.repairs
  <2>1. SuccessfulBuilds = {}
    BY <1>2, <1>3, <1>7, NoMilestone DEF SuccessfulBuilds
  <2>2. Builds \subseteq Repairs
    BY <2>1 DEF SuccessfulBuilds, Repairs, Failed, Verification
  <2>3. IsFiniteSet(Repairs)
    BY <1>3, <1>4, CommandsFinite
  <2> QED
    BY <1>2, <2>2, <2>3, FS_Subset
<1> QED
  BY <1>5, <1>6, <1>7

\* For any transcript the counters of the result agree: the first build and the
\* first check lie within the run, every compiler event belongs to a counted
\* repair, and without a first build every build is a repair.
THEOREM MetricsConsistent == MetricsSpec => []CountersConsistent
<1>1. MetricsInv => CountersConsistent
  BY MilestonesInside, RepairsAccounted DEF CountersConsistent
<1> QED
  BY <1>1, MetricsInvariance, PTL

\* Whatever is printed, cut, too long or lost, run-result.json never counts a part
\* of what the coordinator printed; only an interrupted run, which was not
\* submitted, may have a result that counts nothing.
THEOREM TranscriptAllOrNothing == MetricsSpec => []AllOrNothing
<1>1. MetricsInv => AllOrNothing
  <2>1. SUFFICES ASSUME MetricsInv, metrics # None PROVE AllOrNothing
    BY DEF AllOrNothing
  <2>2. /\ phase = "assembled" /\ ~unreadable
        /\ status = "submitted" => exit = 0
        /\ status = "timed-out" => exit = 124
    BY <2>1 DEF MetricsInv, Endings
  <2>3. /\ metrics.turns = usage.turns /\ metrics.toolCalls = Len(events)
        /\ metrics.filesTouched = Cardinality(touched) /\ metrics.repairs = Cardinality(Repairs)
    BY <2>1 DEF MetricsInv, Endings, Derived
  <2>4. CASE usage.turns + Len(events) = printed
    BY <2>3, <2>4 DEF AllOrNothing
  <2>5. CASE /\ usage.turns = 0 /\ events = <<>> /\ touched = {}
             /\ exit # 0 /\ (exit = 124 => clock >= Timeout + Grace)
    <3>1. Repairs = {}
      BY <2>5, EmptyTranscript DEF Repairs
    <3>2. Cardinality({}) = 0
      BY FS_EmptySet
    <3>3. /\ metrics.turns = 0 /\ metrics.toolCalls = 0
          /\ metrics.filesTouched = 0 /\ metrics.repairs = 0
      BY <2>3, <2>5, <3>1, <3>2, EmptyTranscript
    <3> QED
      BY <2>2, <2>5, <3>3 DEF AllOrNothing
  <2> QED
    BY <2>1, <2>2, <2>4, <2>5 DEF MetricsInv, Accounting
<1> QED
  BY <1>1, MetricsInvariance, PTL

-----------------------------------------------------------------------------
(* Result sets *)

USE SetAssumption

-----------------------------------------------------------------------------
(* Type correctness *)

\* A result that the driver writes is one.
LEMMA NewResultType ==
  ASSUME NEW id \in RunIDs, NEW failure \in BOOLEAN, NEW back \in RunIDs \cup {Null}
  PROVE  NewResult(id, failure, back) \in Results
  BY DEF NewResult, Results

\* Every variable keeps its type, whatever driver and reviewer do.
LEMMA TypeStep ==
  ASSUME TypeOK, [Next]_vars
  PROVE  TypeOK'
<1> USE DEF TypeOK
<1>1. ASSUME NEW d \in Dirs, NEW id \in RunIDs, Drive(d, id)
      PROVE  TypeOK'
  <2>1. present' \subseteq Dirs
    BY <1>1 DEF Drive
  <2>2. result' \in [Dirs -> Results \cup {Null}]
    BY <1>1, NewResultType DEF Drive
  <2> QED
    BY <2>1, <2>2
<1>2. ASSUME NEW d \in Dirs, NEW id \in RunIDs, Exclude(d, id)
      PROVE  TypeOK'
  <2>1. result[d] \in Results
    BY <1>2 DEF Exclude, WithResult
  <2>2. [result[d] EXCEPT !.eligible = TRUE, !.excluded = TRUE, !.replacement = id] \in Results
    BY <2>1 DEF Results
  <2> QED
    BY <1>2, <2>2 DEF Exclude
<1>3. ASSUME NEW d \in Dirs, NEW id \in RunIDs, LinkBack(d, id)
      PROVE  TypeOK'
  <2>1. result[d] \in Results
    BY <1>3 DEF LinkBack, WithResult
  <2>2. [result[d] EXCEPT !.replaces = id] \in Results
    BY <2>1 DEF Results
  <2> QED
    BY <1>3, <2>2 DEF LinkBack
<1>4. ASSUME NEW o \in Dirs, NEW d \in Dirs, NEW id \in RunIDs, Replace(o, d, id)
      PROVE  TypeOK'
  <2>1. result[o] \in Results /\ o # d
    BY <1>4 DEF Replace, WithResult
  <2>2. [result[o] EXCEPT !.eligible = TRUE, !.excluded = TRUE, !.replacement = id] \in Results
    BY <2>1 DEF Results
  <2>3. NewResult(id, FALSE, result[o].id) \in Results
    BY <2>1, NewResultType DEF Results
  <2>4. result' \in [Dirs -> Results \cup {Null}]
    BY <1>4, <2>1, <2>2, <2>3 DEF Replace
  <2> QED
    BY <1>4, <2>4 DEF Replace
<1>5. CASE UNCHANGED vars
  BY <1>5 DEF vars
<1> QED
  BY <1>1, <1>2, <1>3, <1>4, <1>5 DEF Next, Read

\* The files of a results directory keep their shape.
THEOREM TypeCorrect == Spec => []TypeOK
<1>1. Init => TypeOK
  BY DEF Init, TypeOK
<1> QED
  BY <1>1, TypeStep, PTL DEF Spec

-----------------------------------------------------------------------------
(* Links of an accepted set *)

\* The runs of the set are finitely many.
LEMMA FiniteRuns ==
  ASSUME TypeOK
  PROVE  /\ IsFiniteSet(WithResult) /\ Cardinality(Dirs) \in Nat
         /\ Cardinality(WithResult) \in Nat /\ Cardinality(WithResult) <= Cardinality(Dirs)
  BY FS_Subset, FS_CardinalityType DEF TypeOK, WithResult

\* The replacement that a run names is in the set, in its cell, and points back.
LEMMA Replacement ==
  ASSUME validateResults, NEW d \in WithResult, result[d].replacement # Null
  PROVE  /\ Holding(result[d].replacement) # {}
         /\ \A e \in Holding(result[d].replacement) :
              /\ e \in WithResult /\ result[e].cell = result[d].cell
              /\ result[e].replaces = result[d].id
<1>1. linked(result[d].replacement, result[d], FALSE)
  BY DEF validateResults, links
<1>2. Cardinality(Holding(result[d].replacement)) = 1
  BY <1>1 DEF linked, resolves
<1>3. Holding(result[d].replacement) # {}
  BY <1>2, FS_EmptySet
<1> QED
  BY <1>1, <1>3 DEF linked, Holding

\* An excluded run names a replacement.
LEMMA ExcludedNames ==
  ASSUME validateResults, NEW d \in WithResult, result[d].excluded
  PROVE  result[d].replacement # Null
  BY DEF validateResults, validateRunDocument

\* A run is the replacement of one run at most.
LEMMA OneReplaced ==
  ASSUME validateResults, NEW d \in WithResult, NEW e \in WithResult,
         result[d].replacement # Null, result[e].replacement # Null,
         NEW t \in Holding(result[d].replacement), t \in Holding(result[e].replacement)
  PROVE  d = e
<1>1. result[t].replaces = result[d].id /\ result[t].replaces = result[e].id
  BY Replacement
<1>2. Holding(result[d].id) = {d} /\ Holding(result[e].id) = {e}
  BY DEF validateResults
<1> QED
  BY <1>1, <1>2

-----------------------------------------------------------------------------
(* Chains *)

\* A chain of excluded runs that has not come back to its first run.
Open(path, n) ==
    /\ path \in [0 .. n -> WithResult] /\ Chain(path, n)
    /\ \A i \in 0 .. n : result[path[i]].excluded
    /\ \A i \in 1 .. n : path[i] # path[0]

\* No run is twice in an open chain: the first one that is would be the first
\* run, or the replacement of two runs.
LEMMA NoRepetition ==
  ASSUME validateResults, NEW n \in Nat, NEW path, Open(path, n),
         NEW i \in 0 .. n, NEW j \in 0 .. n, i < j
  PROVE  path[i] # path[j]
<1> DEFINE T == {k \in 0 .. n : \E m \in 0 .. n : k < m /\ path[k] = path[m]}
<1> SUFFICES ASSUME T # {} PROVE FALSE
  OBVIOUS
<1>1. PICK k \in T : \A m \in T : k <= m
  <2>1. T \subseteq Nat
    OBVIOUS
  <2> QED
    BY <2>1, LeastNumber
<1>2. PICK m \in 0 .. n : k < m /\ path[k] = path[m]
  OBVIOUS
<1>3. k # 0
  BY <1>2 DEF Open
<1>4. /\ k \in 1 .. n /\ m \in 1 .. n /\ k - 1 \in 0 .. n /\ m - 1 \in 0 .. n /\ k - 1 < m - 1
  BY <1>2, <1>3
<1>5. /\ path[k] \in Holding(result[path[k - 1]].replacement)
      /\ path[k] \in Holding(result[path[m - 1]].replacement)
  BY <1>2, <1>4 DEF Open, Chain
<1>6. /\ path[k - 1] \in WithResult /\ path[m - 1] \in WithResult
      /\ result[path[k - 1]].excluded /\ result[path[m - 1]].excluded
  BY <1>4 DEF Open
<1>7. path[k - 1] = path[m - 1]
  BY <1>5, <1>6, ExcludedNames, OneReplaced
<1>8. k - 1 \in T
  BY <1>4, <1>7
<1> QED
  BY <1>1, <1>4, <1>8

\* Open chains are no longer than the set has runs.
LEMMA OpenIsShort ==
  ASSUME TypeOK, validateResults, NEW path, Open(path, Cardinality(Dirs))
  PROVE  FALSE
<1> DEFINE n == Cardinality(Dirs)
<1>1. /\ IsFiniteSet(WithResult) /\ n \in Nat
      /\ Cardinality(WithResult) \in Nat /\ Cardinality(WithResult) <= n
  BY FiniteRuns
<1>2. IsFiniteSet(0 .. n) /\ Cardinality(0 .. n) = n + 1
  BY <1>1, FS_Interval
<1>3. path \in [0 .. n -> WithResult]
  BY DEF Open
<1>4. PICK i, j \in 0 .. n : i # j /\ path[i] = path[j]
  <2>1. Cardinality(WithResult) < Cardinality(0 .. n)
    BY <1>1, <1>2
  <2> QED
    BY <1>1, <1>2, <1>3, <2>1, FS_PigeonHole
<1>5. i < j \/ j < i
  BY <1>1, <1>4
<1> QED
  BY <1>1, <1>4, <1>5, NoRepetition

\* An open chain goes on to the replacement of its last run.
LEMMA Extends ==
  ASSUME validateResults, NEW n \in Nat, NEW path, Open(path, n)
  PROVE  \E longer \in [0 .. n + 1 -> WithResult] :
            /\ \A i \in 0 .. n : longer[i] = path[i]
            /\ Chain(longer, n + 1)
<1>1. path[n] \in WithResult /\ result[path[n]].excluded /\ path \in [0 .. n -> WithResult]
  BY DEF Open
<1>2. PICK e : e \in Holding(result[path[n]].replacement)
  BY <1>1, ExcludedNames, Replacement
<1>3. e \in WithResult /\ result[e].cell = result[path[n]].cell
  BY <1>1, <1>2, ExcludedNames, Replacement
<1>4. result[path[n]].cell = result[path[0]].cell
  BY DEF Open, Chain
<1> DEFINE longer == [i \in 0 .. n + 1 |-> IF i = n + 1 THEN e ELSE path[i]]
<1>5. longer \in [0 .. n + 1 -> WithResult]
  BY <1>1, <1>3
<1>6. longer[n + 1] = e /\ \A i \in 0 .. n : longer[i] = path[i]
  OBVIOUS
<1>7. Chain(longer, n + 1)
  <2> SUFFICES ASSUME NEW i \in 1 .. n + 1
               PROVE  /\ longer[i] \in Holding(result[longer[i - 1]].replacement)
                      /\ result[longer[i]].cell = result[longer[0]].cell
    BY DEF Chain
  <2>1. CASE i = n + 1
    BY <1>2, <1>3, <1>4, <1>6, <2>1
  <2>2. CASE i # n + 1
    <3>1. i \in 1 .. n /\ i \in 0 .. n /\ i - 1 \in 0 .. n /\ 0 \in 0 .. n
      BY <2>2
    <3>2. /\ path[i] \in Holding(result[path[i - 1]].replacement)
          /\ result[path[i]].cell = result[path[0]].cell
      BY <3>1 DEF Open, Chain
    <3> QED
      BY <1>6, <3>1, <3>2
  <2> QED
    BY <2>1, <2>2
<1> QED
  BY <1>5, <1>6, <1>7

\* If no chain from d ends, there are open chains of every length.
LEMMA ChainEnds ==
  ASSUME TypeOK, validateResults, NEW d \in WithResult, result[d].excluded
  PROVE  \E n \in 1 .. Cardinality(Dirs) : \E path \in [0 .. n -> WithResult] :
            /\ path[0] = d /\ Chain(path, n)
            /\ ~result[path[n]].excluded \/ path[n] = d
<1> DEFINE N == Cardinality(Dirs)
           T == {n \in 0 .. N : ~ \E path : path[0] = d /\ Open(path, n)}
<1>0. N \in Nat
  BY FiniteRuns
<1> SUFFICES ASSUME \A n \in 1 .. N : \A path \in [0 .. n -> WithResult] :
                      path[0] = d /\ Chain(path, n) =>
                         result[path[n]].excluded /\ path[n] # d
             PROVE  FALSE
  OBVIOUS
<1>1. T = {}
  <2> SUFFICES ASSUME T # {} PROVE FALSE
    OBVIOUS
  <2>1. PICK n \in T : \A m \in T : n <= m
    <3>1. T \subseteq Nat
      BY <1>0
    <3> HIDE DEF T
    <3> QED
      BY <3>1, LeastNumber
  <2>2. n # 0
    <3> DEFINE single == [i \in 0 .. 0 |-> d]
    <3>1. single[0] = d /\ single \in [0 .. 0 -> WithResult] /\ \A i \in 0 .. 0 : single[i] = d
      OBVIOUS
    <3>2. Open(single, 0)
      BY <3>1 DEF Open, Chain
    <3> QED
      BY <2>1, <3>1, <3>2
  <2>3. n - 1 \in 0 .. N /\ n \in 1 .. N /\ n - 1 \in Nat /\ (n - 1) + 1 = n
    BY <1>0, <2>2
  <2>4. PICK path : path[0] = d /\ Open(path, n - 1)
    BY <2>1, <2>3
  <2>5. PICK longer \in [0 .. n -> WithResult] :
           /\ \A i \in 0 .. n - 1 : longer[i] = path[i]
           /\ Chain(longer, n)
    BY <2>3, <2>4, Extends
  <2>6. longer[0] = d
    BY <2>3, <2>4, <2>5
  <2>7. result[longer[n]].excluded /\ longer[n] # d
    BY <2>3, <2>5, <2>6
  <2>8. Open(longer, n)
    <3>1. \A i \in 0 .. n : i = n \/ i \in 0 .. n - 1
      BY <2>3
    <3>2. \A i \in 0 .. n : result[longer[i]].excluded
      BY <2>4, <2>5, <2>7, <3>1 DEF Open
    <3>3. \A i \in 1 .. n : i = n \/ i \in 1 .. n - 1
      BY <2>3
    <3>4. \A i \in 1 .. n : longer[i] # longer[0]
      BY <2>3, <2>4, <2>5, <2>6, <2>7, <3>3 DEF Open
    <3> QED
      BY <2>5, <3>2, <3>4 DEF Open
  <2> QED
    BY <2>6, <2>8
<1>2. PICK path : path[0] = d /\ Open(path, N)
  BY <1>0, <1>1
<1> QED
  BY <1>2, OpenIsShort

-----------------------------------------------------------------------------
(* Theorems *)

\* However many runs replaced one another, an excluded run of an accepted set
\* has a replacement of its own, and the chain of replacements ends in its
\* cell with a run that counts or closes to a ring.
THEOREM ReplacementChains == Spec => []ChainsEndCounted
<1>1. ASSUME TypeOK, validateResults, NEW d \in WithResult, result[d].excluded,
             NEW e \in WithResult \ {d}
      PROVE  result[e].replacement # result[d].replacement
  BY <1>1, ExcludedNames, Replacement, OneReplaced
<1>2. TypeOK => ChainsEndCounted
  BY <1>1, ChainEnds DEF ChainsEndCounted
<1> QED
  BY <1>2, TypeCorrect, PTL

\* The analysis loads an accepted set unless a run directory has no result.
THEOREM AcceptedSetLoads == Spec => []AcceptedLoads
<1>1. TypeOK => AcceptedLoads
  BY DEF AcceptedLoads, validateResults, Refused, WithResult
<1> QED
  BY <1>1, TypeCorrect, PTL

=============================================================================
