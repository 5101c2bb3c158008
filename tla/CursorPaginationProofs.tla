----------------------- MODULE CursorPaginationProofs -----------------------
(***************************************************************************)
(* The walk through the pages, for every set of tasks, every limit and     *)
(* every interleaving of inserts and deletes: what ORDER BY ... LIMIT n    *)
(* returns, and why the cursor of its last row loses and repeats nothing.  *)
(***************************************************************************)
EXTENDS CursorPagination, FiniteSetTheorems, WellFoundedInduction, TLAPS

USE PaginationAssumption

\* The rows of S that are sorted before i.
Below(S, i) == {j \in S : Before(j, i)}

-----------------------------------------------------------------------------
(* ORDER BY created_at, id *)

\* A set of numbers that is not empty has a least one.
LEMMA LeastNumber ==
  ASSUME NEW T, T \subseteq Nat, T # {}
  PROVE  \E x \in T : \A y \in T : x <= y
<1>1. PICK x \in T : \A y \in T : ~(<<y, x>> \in OpToRel(<, Nat))
  BY WFMin, NatLessThanWellFounded
<1>2. \A y \in T : ~(y < x)
  BY <1>1 DEF OpToRel
<1> QED
  BY <1>2

\* (created_at, id) orders the rows strictly and totally.
LEMMA TotalOrder ==
  ASSUME at \in [Ids -> Nat]
  PROVE  /\ \A i \in Ids : ~Before(i, i)
         /\ \A i, j, k \in Ids : Before(i, j) /\ Before(j, k) => Before(i, k)
         /\ \A i, j \in Ids : i = j \/ Before(i, j) \/ Before(j, i)
<1>1. \A i \in Ids : at[i] \in Nat /\ i \in Nat
  OBVIOUS
<1> QED
  BY <1>1 DEF Before

\* Any set of rows is finite.
LEMMA FiniteRows ==
  ASSUME NEW S, S \subseteq Ids
  PROVE  IsFiniteSet(S) /\ Cardinality(S) \in Nat
  BY FS_Subset, FS_CardinalityType

\* The place of a row in the order is a number, and a later row has a larger one.
LEMMA RankOrder ==
  ASSUME at \in [Ids -> Nat], NEW S, S \subseteq Ids, NEW i \in S
  PROVE  /\ Cardinality(Below(S, i)) \in Nat
         /\ \A j \in S : Before(i, j) => Cardinality(Below(S, i)) < Cardinality(Below(S, j))
<1>1. \A j \in S : /\ IsFiniteSet(Below(S, j)) /\ Cardinality(Below(S, j)) \in Nat
  BY FiniteRows DEF Below
<1>2. ASSUME NEW j \in S, Before(i, j)
      PROVE  Cardinality(Below(S, i)) < Cardinality(Below(S, j))
  <2>1. Below(S, i) \subseteq Below(S, j)
    BY <1>2, TotalOrder DEF Below
  <2>2. i \in Below(S, j) /\ i \notin Below(S, i)
    BY <1>2, TotalOrder DEF Below
  <2>3. /\ Cardinality(Below(S, i)) <= Cardinality(Below(S, j))
        /\ Cardinality(Below(S, i)) = Cardinality(Below(S, j)) => Below(S, i) = Below(S, j)
    BY <1>1, <2>1, FS_Subset
  <2> QED
    BY <1>1, <2>2, <2>3
<1> QED
  BY <1>1, <1>2

\* Rows that are not none have a first one.
LEMMA LeastRow ==
  ASSUME at \in [Ids -> Nat], NEW S, S \subseteq Ids, S # {}
  PROVE  \E m \in S : \A j \in S : m = j \/ Before(m, j)
<1> DEFINE R == {Cardinality(Below(S, i)) : i \in S}
<1>1. R \subseteq Nat /\ R # {}
  BY RankOrder
<1> HIDE DEF R
<1>2. PICK x \in R : \A y \in R : x <= y
  BY <1>1, LeastNumber
<1>3. PICK m \in S : x = Cardinality(Below(S, m))
  BY <1>2 DEF R
<1>4. ASSUME NEW j \in S, Before(j, m)
      PROVE  FALSE
  <2>1. Cardinality(Below(S, j)) \in R /\ x \in Nat /\ Cardinality(Below(S, j)) \in Nat
    BY <1>1, <1>2 DEF R
  <2>2. Cardinality(Below(S, j)) < x
    BY <1>3, <1>4, RankOrder
  <2> QED
    BY <1>2, <2>1, <2>2
<1> QED
  BY <1>4, TotalOrder

\* ... and a last one, the row whose cursor is handed out.
LEMMA LastRow ==
  ASSUME at \in [Ids -> Nat], NEW S, S \subseteq Ids, S # {}
  PROVE  LastOf(S) \in S /\ \A j \in S : LastOf(S) = j \/ Before(j, LastOf(S))
<1> DEFINE Above(i) == {j \in S : Before(i, j)}
           R == {Cardinality(Above(i)) : i \in S}
<1>0. \A i \in S : IsFiniteSet(Above(i)) /\ Cardinality(Above(i)) \in Nat
  BY FiniteRows
<1>1. R \subseteq Nat /\ R # {}
  BY <1>0
<1> HIDE DEF R
<1>2. PICK x \in R : \A y \in R : x <= y
  BY <1>1, LeastNumber
<1>3. PICK m \in S : x = Cardinality(Above(m))
  BY <1>2 DEF R
<1>4. ASSUME NEW j \in S, Before(m, j)
      PROVE  FALSE
  <2>1. Above(j) \subseteq Above(m)
    BY <1>4, TotalOrder
  <2>2. j \in Above(m) /\ j \notin Above(j)
    BY <1>4, TotalOrder
  <2>3. /\ Cardinality(Above(j)) <= Cardinality(Above(m))
        /\ Cardinality(Above(j)) = Cardinality(Above(m)) => Above(j) = Above(m)
    BY <1>0, <2>1, FS_Subset
  <2>4. Cardinality(Above(j)) < x
    BY <1>0, <1>3, <2>2, <2>3
  <2>5. Cardinality(Above(j)) \in R
    BY DEF R
  <2> QED
    BY <1>0, <1>1, <1>2, <2>4, <2>5
<1>5. \A j \in S : m = j \/ Before(j, m)
  BY <1>4, TotalOrder
<1> QED
  BY <1>5 DEF LastOf

-----------------------------------------------------------------------------
(* LIMIT n *)

\* The first n rows and the others: no row is left out that is sorted before one
\* that is returned.
LEMMA FirstBeforeRest ==
  ASSUME at \in [Ids -> Nat], NEW S, S \subseteq Ids, NEW n \in Nat
  PROVE  /\ First(S, n) \subseteq S
         /\ \A i \in First(S, n), j \in S \ First(S, n) : Before(i, j)
<1>1. First(S, n) = {i \in S : Cardinality(Below(S, i)) < n}
  BY DEF First, Below
<1>2. ASSUME NEW i \in First(S, n), NEW j \in S, Before(j, i)
      PROVE  j \in First(S, n)
  <2>1. i \in S /\ Cardinality(Below(S, i)) < n
    BY <1>1
  <2>2. Cardinality(Below(S, j)) < Cardinality(Below(S, i))
    BY <1>2, <2>1, RankOrder
  <2>3. Cardinality(Below(S, i)) \in Nat /\ Cardinality(Below(S, j)) \in Nat
    BY <2>1, RankOrder
  <2>4. Cardinality(Below(S, j)) < n
    BY <2>1, <2>2, <2>3
  <2> QED
    BY <1>1, <2>4
<1> QED
  BY <1>1, <1>2, TotalOrder

\* The first n of the first n + 1 rows are the first n rows: the extra row that
\* Service.List reads does not change the page.
LEMMA FirstOfFirst ==
  ASSUME at \in [Ids -> Nat], NEW S, S \subseteq Ids, NEW n \in Nat
  PROVE  First(First(S, n + 1), n) = First(S, n)
<1> DEFINE Q == First(S, n + 1)
<1>1. /\ First(S, n) = {i \in S : Cardinality(Below(S, i)) < n}
      /\ Q = {i \in S : Cardinality(Below(S, i)) < n + 1}
      /\ First(Q, n) = {i \in Q : Cardinality(Below(Q, i)) < n}
  BY DEF First, Below
<1>2. Q \subseteq S /\ \A i \in Q, j \in S \ Q : Before(i, j)
  <2>1. n + 1 \in Nat
    OBVIOUS
  <2> QED
    BY <2>1, FirstBeforeRest
<1> HIDE DEF Q
<1>3. ASSUME NEW i \in Q
      PROVE  Below(Q, i) = Below(S, i)
  BY <1>2, TotalOrder DEF Below
<1>4. \A i \in S : Cardinality(Below(S, i)) \in Nat
  BY RankOrder
<1>5. First(S, n) \subseteq Q
  <2>1. \A i \in S : Cardinality(Below(S, i)) < n => Cardinality(Below(S, i)) < n + 1
    BY <1>4
  <2> QED
    BY <1>1, <2>1
<1>6. First(Q, n) = {i \in Q : Cardinality(Below(S, i)) < n}
  BY <1>1, <1>3
<1>7. First(Q, n) = First(S, n)
  BY <1>1, <1>2, <1>5, <1>6
<1> QED
  BY <1>7 DEF Q

\* A page that another one follows is not empty, whatever its limit.
LEMMA MoreMeansNonempty ==
  ASSUME at \in [Ids -> Nat], NEW S, S \subseteq Ids, NEW n \in Nat \ {0},
         Cardinality(First(S, n + 1)) > n
  PROVE  First(S, n) # {}
<1>1. S # {}
  <2>1. SUFFICES ASSUME S = {} PROVE FALSE
    OBVIOUS
  <2>2. First(S, n + 1) = {}
    BY <2>1 DEF First
  <2> QED
    BY <2>2, FS_EmptySet
<1>2. PICK m \in S : \A j \in S : m = j \/ Before(m, j)
  BY <1>1, LeastRow
<1>3. Below(S, m) = {}
  BY <1>2, TotalOrder DEF Below
<1>4. Cardinality(Below(S, m)) = 0
  BY <1>3, FS_EmptySet
<1> QED
  BY <1>4 DEF First, Below

\* When the extra row is not there, the page holds every row that is left.
LEMMA NoMoreMeansAll ==
  ASSUME at \in [Ids -> Nat], NEW S, S \subseteq Ids, NEW n \in Nat,
         ~(Cardinality(First(S, n + 1)) > n)
  PROVE  First(S, n) = S
<1> DEFINE P == First(S, n)
           Q == First(S, n + 1)
<1>1. /\ P = {i \in S : Cardinality(Below(S, i)) < n}
      /\ Q = {i \in S : Cardinality(Below(S, i)) < n + 1}
  BY DEF First, Below
<1>2. P \subseteq S /\ \A i \in P, j \in S \ P : Before(i, j)
  BY FirstBeforeRest
<1>3. Q \subseteq S /\ IsFiniteSet(Q) /\ Cardinality(Q) \in Nat /\ Cardinality(Q) <= n
  <2>1. Q \subseteq S
    BY <1>1
  <2>2. IsFiniteSet(Q) /\ Cardinality(Q) \in Nat
    BY <2>1, FiniteRows
  <2> QED
    BY <2>1, <2>2
<1> HIDE DEF P, Q
<1>4. \A i \in S : Cardinality(Below(S, i)) \in Nat
  BY RankOrder
<1>5. P \subseteq Q
  <2>1. \A i \in S : Cardinality(Below(S, i)) < n => Cardinality(Below(S, i)) < n + 1
    BY <1>4
  <2> QED
    BY <1>1, <2>1
<1>6. SUFFICES ASSUME S \ P # {} PROVE FALSE
  BY <1>2 DEF P
<1>7. PICK i \in S \ P : \A j \in S \ P : i = j \/ Before(i, j)
  BY <1>6, LeastRow
<1>8. Below(S, i) = P
  BY <1>2, <1>7, TotalOrder DEF Below
<1>9. Cardinality(P) \in Nat /\ IsFiniteSet(P) /\ Cardinality(P) <= n
  <2>1. IsFiniteSet(P) /\ Cardinality(P) <= Cardinality(Q)
    BY <1>3, <1>5, FS_Subset
  <2>2. Cardinality(P) \in Nat
    BY <2>1, FS_CardinalityType
  <2> QED
    BY <1>3, <2>1, <2>2
<1>10. i \in Q
  <2>1. Cardinality(P) < n + 1
    BY <1>9
  <2> QED
    BY <1>1, <1>7, <1>8, <2>1
<1>11. Cardinality(P) = n
  BY <1>1, <1>4, <1>7, <1>8, <1>9
<1>12. Cardinality(P \cup {i}) = n + 1
  BY <1>7, <1>9, <1>11, FS_AddElement
<1>13. P \cup {i} \subseteq Q
  BY <1>5, <1>10
<1>14. Cardinality(P \cup {i}) <= Cardinality(Q)
  BY <1>3, <1>13, FS_Subset
<1> QED
  BY <1>3, <1>12, <1>14

-----------------------------------------------------------------------------
(* The walk *)

\* No walk has begun.
LEMMA WalkInvInit == Init => WalkInv
<1> SUFFICES ASSUME Init PROVE WalkInv
  OBVIOUS
<1>1. TypeOK
  BY DEF Init, TypeOK, NoPosition
<1>2. Stamped /\ Behind /\ PagesAscend /\ NoRowSkipped
  BY DEF Init, NoPosition, Stamped, Behind, PagesAscend, NoRowSkipped
<1> QED
  BY <1>1, <1>2 DEF WalkInv

\* Requests of others leave the walk alone, as long as they move no stamp of a row
\* that was returned or counts as steady.
LEMMA WalkUndisturbed ==
  ASSUME WalkInv, UNCHANGED client, steady' \subseteq steady,
         \A i \in seen \cup page \cup steady : at'[i] = at[i]
  PROVE  Behind' /\ PagesAscend' /\ NoRowSkipped'
<1>0. /\ walk' = walk /\ position' = position /\ seen' = seen /\ page' = page
      /\ Behind /\ PagesAscend /\ NoRowSkipped
  BY DEF WalkInv, client
<1>1. Behind'
  BY <1>0 DEF Behind, AfterPosition
<1>2. PagesAscend'
  BY <1>0 DEF PagesAscend, Before
<1>3. NoRowSkipped'
  BY <1>0 DEF NoRowSkipped, AfterPosition
<1> QED
  BY <1>1, <1>2, <1>3

\* Time, inserts and deletes leave the walk where it is.
LEMMA OthersStep ==
  ASSUME WalkInv, Others
  PROVE  WalkInv'
<1>0. TypeOK /\ Stamped
  BY DEF WalkInv
<1>1. CASE Tick
  <2>1. TypeOK' /\ Stamped'
    BY <1>0, <1>1 DEF Tick, TypeOK, Stamped, There, client
  <2>2. Behind' /\ PagesAscend' /\ NoRowSkipped'
    BY <1>1, WalkUndisturbed DEF Tick
  <2> QED
    BY <2>1, <2>2 DEF WalkInv
<1>2. ASSUME NEW i \in Ids, BeginCreate(i)
      PROVE  WalkInv'
  <2>1. i \notin seen \cup page \cup steady
    BY <1>0, <1>2 DEF BeginCreate, Stamped, There
  <2>2. TypeOK'
    BY <1>0, <1>2 DEF BeginCreate, TypeOK, client
  <2>3. Stamped'
    BY <1>0, <1>2, <2>1 DEF BeginCreate, Stamped, There, TypeOK, client
  <2>4. \A k \in seen \cup page \cup steady : at'[k] = at[k]
    BY <1>0, <1>2, <2>1 DEF BeginCreate, TypeOK
  <2>5. Behind' /\ PagesAscend' /\ NoRowSkipped'
    BY <1>2, <2>4, WalkUndisturbed DEF BeginCreate
  <2> QED
    BY <2>2, <2>3, <2>5 DEF WalkInv
<1>3. ASSUME NEW i \in Ids, EndCreate(i)
      PROVE  WalkInv'
  <2>1. PICK s \in {"there", "gone"} : row' = [row EXCEPT ![i] = s]
    BY <1>3 DEF EndCreate
  <2>2. TypeOK'
    BY <1>0, <1>3, <2>1 DEF EndCreate, TypeOK, client
  <2>3. Stamped'
    BY <1>0, <1>3, <2>1 DEF EndCreate, Stamped, There, TypeOK, client
  <2>4. Behind' /\ PagesAscend' /\ NoRowSkipped'
    BY <1>3, WalkUndisturbed DEF EndCreate
  <2> QED
    BY <2>2, <2>3, <2>4 DEF WalkInv
<1>4. ASSUME NEW i \in Ids, Delete(i)
      PROVE  WalkInv'
  <2>1. TypeOK'
    BY <1>0, <1>4 DEF Delete, TypeOK, client
  <2>2. Stamped'
    BY <1>0, <1>4 DEF Delete, Stamped, There, TypeOK, client
  <2>3. Behind' /\ PagesAscend' /\ NoRowSkipped'
    BY <1>4, WalkUndisturbed DEF Delete
  <2> QED
    BY <2>1, <2>2, <2>3 DEF WalkInv
<1> QED
  BY <1>1, <1>2, <1>3, <1>4 DEF Others

\* A page: S are the rows the WHERE clause lets through.
LEMMA ListStep ==
  ASSUME WalkInv, NEW limit \in 1 .. MaxLimit, List(limit)
  PROVE  WalkInv'
<1> DEFINE S == {i \in There : AfterPosition(i, position)}
           items == First(S, limit + 1)
           more == Cardinality(items) > limit
<1>0. /\ TypeOK /\ Stamped /\ Behind /\ PagesAscend /\ NoRowSkipped
      /\ limit \in Nat \ {0} /\ limit + 1 \in Nat
  BY DEF WalkInv
<1>1. /\ walk = "on" /\ seen' = seen \cup page /\ page' = First(items, limit)
      /\ position' = IF more THEN encodeCursor(LastOf(page')) ELSE position
      /\ walk' = IF more THEN "on" ELSE "done"
      /\ row' = row /\ at' = at /\ now' = now /\ steady' = steady
  BY DEF List
<1>2. at \in [Ids -> Nat] /\ S \subseteq There /\ S \subseteq Ids
  BY <1>0 DEF TypeOK, There
<1>3. \A i \in S : AfterPosition(i, position)
  OBVIOUS
<1>4. \A i \in There : AfterPosition(i, position) => i \in S
  OBVIOUS
<1> HIDE DEF S
<1>5. page' = First(S, limit)
  BY <1>0, <1>1, <1>2, FirstOfFirst
<1>6. page' \subseteq S /\ \A i \in page', j \in S \ page' : Before(i, j)
  BY <1>0, <1>2, <1>5, FirstBeforeRest
<1>7. more => page' # {}
  BY <1>0, <1>2, <1>5, MoreMeansNonempty
<1>8. ~more => page' = S
  BY <1>0, <1>2, <1>5, NoMoreMeansAll
<1> HIDE DEF items, more
<1> DEFINE last == LastOf(page')
<1>9. more => /\ last \in page' /\ \A j \in page' : last = j \/ Before(j, last)
  BY <1>2, <1>6, <1>7, LastRow
<1> HIDE DEF last
<1>10. more => /\ last \in Ids /\ at[last] \in Nat
               /\ position' = [has |-> TRUE, at |-> at[last], id |-> last]
  <2>1. SUFFICES ASSUME more PROVE /\ last \in Ids /\ at[last] \in Nat
                                   /\ position' = [has |-> TRUE, at |-> at[last], id |-> last]
    OBVIOUS
  <2>2. last \in Ids /\ at[last] \in Nat
    BY <1>2, <1>6, <1>9, <2>1
  <2>3. Format(at[last], 1) = at[last]
    BY <2>2 DEF Format
  <2>4. position' = encodeCursor(last)
    BY <1>1, <2>1 DEF last
  <2> QED
    BY <2>2, <2>3, <2>4 DEF encodeCursor
<1>11. \A i \in Ids : i \in Nat /\ at[i] \in Nat
  BY <1>2
<1>12. seen \subseteq Ids /\ page \subseteq Ids /\ position.at \in Nat /\ position.id \in Nat
  BY <1>0 DEF TypeOK
<1>13. ASSUME NEW i \in S, NEW j \in seen \cup page
       PROVE  Before(j, i)
  <2>1. position.has /\ ~AfterPosition(j, position)
    BY <1>0, <1>1 DEF Behind
  <2>2. AfterPosition(i, position)
    BY <1>3
  <2>3. /\ at[i] \in Nat /\ at[j] \in Nat /\ i \in Nat /\ j \in Nat
    BY <1>2, <1>11, <1>12
  <2> QED
    BY <1>12, <2>1, <2>2, <2>3 DEF AfterPosition, Before
<1>14. TypeOK'
  <2>1. position' \in [has : BOOLEAN, at : Nat, id : Nat]
    <3>1. CASE more
      <4>1. position' = [has |-> TRUE, at |-> at[last], id |-> last]
        BY <1>10, <3>1
      <4>2. at[last] \in Nat /\ last \in Nat
        BY <1>10, <1>11, <3>1
      <4> QED
        BY <4>1, <4>2
    <3>2. CASE ~more
      BY <1>0, <1>1, <3>2 DEF TypeOK
    <3> QED
      BY <3>1, <3>2
  <2>2. page' \subseteq Ids /\ seen' \subseteq Ids
    BY <1>1, <1>2, <1>6, <1>12
  <2> QED
    BY <1>0, <1>1, <2>1, <2>2 DEF TypeOK
<1>15. Stamped'
  <2>1. \A i \in page' : row[i] = "there"
    BY <1>2, <1>6 DEF There
  <2> QED
    BY <1>0, <1>1, <2>1 DEF Stamped, There
<1>16. PagesAscend'
  BY <1>1, <1>6, <1>13 DEF PagesAscend, Before
<1>17. Behind'
  <2>1. CASE ~more
    BY <1>1, <2>1 DEF Behind
  <2>2. CASE more
    <3>1. \A i \in seen' \cup page' : i \in Ids /\ (i = last \/ Before(i, last))
      BY <1>1, <1>2, <1>6, <1>9, <1>12, <1>13, <2>2
    <3>2. \A i \in seen' \cup page' : ~AfterPosition(i, position')
      <4>1. position'.has /\ position'.at = at[last] /\ position'.id = last
        BY <1>10, <2>2
      <4>2. SUFFICES ASSUME NEW i \in seen' \cup page', AfterPosition(i, position')
                     PROVE  FALSE
        OBVIOUS
      <4>3. at[i] > at[last] \/ (at[i] = at[last] /\ i > last)
        BY <4>1, <4>2 DEF AfterPosition
      <4>4. at[i] \in Nat /\ at[last] \in Nat /\ i \in Nat /\ last \in Nat
        BY <1>10, <1>11, <2>2, <3>1
      <4>5. i = last \/ at[i] < at[last] \/ (at[i] = at[last] /\ i < last)
        BY <3>1 DEF Before
      <4> QED
        BY <4>3, <4>4, <4>5
    <3>3. \A i \in seen' \cup page' : ~AfterPosition(i, position)'
      BY <1>1, <3>2 DEF AfterPosition
    <3> QED
      BY <1>1, <1>10, <2>2, <3>3 DEF Behind
  <2> QED
    BY <2>1, <2>2
<1>18. NoRowSkipped'
  <2>1. \A i \in steady : i \in seen' \/ i \in S
    <3>1. \A i \in steady : i \in There /\ (i \in seen \cup page \/ AfterPosition(i, position))
      BY <1>0, <1>1 DEF NoRowSkipped, Stamped
    <3> QED
      BY <1>1, <1>4, <3>1
  <2>2. CASE ~more
    BY <1>1, <1>8, <2>1, <2>2 DEF NoRowSkipped
  <2>3. CASE more
    <3>1. \A i \in S : i \in page' \/ Before(last, i)
      BY <1>6, <1>9, <2>3
    <3>2. \A i \in S : i \in page' \/ AfterPosition(i, position)'
      BY <1>1, <1>2, <1>10, <1>11, <2>3, <3>1 DEF AfterPosition, Before
    <3> QED
      BY <1>1, <2>1, <2>3, <3>2 DEF NoRowSkipped
  <2> QED
    BY <2>2, <2>3
<1> QED
  BY <1>14, <1>15, <1>16, <1>17, <1>18 DEF WalkInv

\* Every step keeps the invariant of the walk.
LEMMA WalkInvStep ==
  ASSUME WalkInv, [Next]_vars
  PROVE  WalkInv'
<1>1. CASE StartWalk
  <2>0. TypeOK /\ Stamped /\ Behind
    BY DEF WalkInv
  <2>1. TypeOK' /\ Stamped'
    BY <1>1, <2>0 DEF StartWalk, TypeOK, Stamped, There
  <2>2. ~position.has /\ seen = {} /\ page = {}
    BY <1>1, <2>0 DEF StartWalk, Behind
  <2>3. Behind' /\ PagesAscend' /\ NoRowSkipped'
    BY <1>1, <2>2 DEF StartWalk, Behind, PagesAscend, NoRowSkipped, AfterPosition
  <2> QED
    BY <2>1, <2>3 DEF WalkInv
<1>2. CASE Walk
  BY <1>2, ListStep DEF Walk
<1>3. CASE Others
  BY <1>3, OthersStep
<1>4. CASE Finished \/ UNCHANGED vars
  <2>1. UNCHANGED vars
    BY <1>4 DEF Finished
  <2>2. TypeOK' /\ Stamped'
    BY <2>1 DEF vars, WalkInv, TypeOK, Stamped, There
  <2>3. Behind' /\ PagesAscend' /\ NoRowSkipped'
    BY <2>1, WalkUndisturbed DEF vars, client
  <2> QED
    BY <2>2, <2>3 DEF WalkInv
<1> QED
  BY <1>1, <1>2, <1>3, <1>4 DEF Next

\* Every state of a walk satisfies the inductive invariant, whatever the other
\* requests insert and delete between two pages and whatever limits the client asks.
THEOREM WalkInvariance == Spec => []WalkInv
<1>1. Init => WalkInv
  BY WalkInvInit
<1>2. WalkInv /\ [Next]_vars => WalkInv'
  BY WalkInvStep
<1> QED
  BY <1>1, <1>2, PTL DEF Spec

\* List returns no task twice and never goes back in the order: the condition
\* (created_at, id) > cursor of listTasksSQL against the cursor of the last row.
THEOREM PagesOrdered == Spec => []PagesAscend
<1>1. WalkInv => PagesAscend
  BY DEF WalkInv
<1> QED
  BY <1>1, WalkInvariance, PTL

\* A task that stays in the table during the whole walk is returned: List hands out
\* the cursor of the last row it returns, never that of the extra row, and gives no
\* nextCursor only when nothing is left.
THEOREM NothingSkipped == Spec => []NoRowSkipped
<1>1. WalkInv => NoRowSkipped
  BY DEF WalkInv
<1> QED
  BY <1>1, WalkInvariance, PTL

=============================================================================
