--------------------------- MODULE RunStoreProofs ---------------------------
(***************************************************************************)
(* What the statements on the run history return, preserve and bound, for  *)
(* any rows: the facts the proofs about Execution and Storage share.       *)
(***************************************************************************)
EXTENDS RunStore, FiniteSetTheorems, TLAPS

(* INSERT leaves the other rows alone. *)
LEMMA CreateRowType ==
    ASSUME NEW D \in [Runs -> Row], NEW r \in Runs, NEW t \in Times
    PROVE  /\ CreateRow(D, r, t) \in [Runs -> Row]
           /\ CreateRow(D, r, t)[r].status = "running"
           /\ \A q \in Runs \ {r} : CreateRow(D, r, t)[q] = D[q]
           /\ Present(CreateRow(D, r, t)) = Present(D) \cup {r}
  <1>1. [status |-> "running", created |-> t, restarted |-> FALSE] \in Row
    BY DEF Row
  <1> QED
    BY <1>1 DEF CreateRow, Present

(* UPDATE changes the status and the summary of one row. *)
LEMMA UpdateRowType ==
    ASSUME NEW D \in [Runs -> Row], NEW r \in Runs, NEW s \in Terminal, NEW b \in BOOLEAN
    PROVE  /\ UpdateRow(D, r, s, b) \in [Runs -> Row]
           /\ UpdateRow(D, r, s, b)[r].status = s
           /\ UpdateRow(D, r, s, b)[r].restarted = b
           /\ \A q \in Runs \ {r} : UpdateRow(D, r, s, b)[q] = D[q]
  <1>1. [status |-> s, created |-> D[r].created, restarted |-> b] \in Row
    BY DEF Row
  <1> QED
    BY <1>1 DEF UpdateRow

(* DELETE marks exactly the rows selected. *)
LEMMA DeleteType ==
    ASSUME NEW D \in [Runs -> Row], NEW S
    PROVE  /\ Delete(D, S) \in [Runs -> Row]
           /\ \A r \in Runs : Delete(D, S)[r].status = IF r \in S THEN "pruned" ELSE D[r].status
           /\ \A r \in Runs : Delete(D, S)[r].restarted = D[r].restarted
           /\ \A r \in Runs : Delete(D, S)[r].created = D[r].created
           /\ \A r \in Runs \ S : Delete(D, S)[r] = D[r]
  <1>1. \A r \in Runs : [D[r] EXCEPT !.status = "pruned"]
          = [status |-> "pruned", created |-> D[r].created, restarted |-> D[r].restarted]
    BY DEF Row
  <1>2. \A r \in Runs : [status |-> "pruned", created |-> D[r].created,
                         restarted |-> D[r].restarted] \in Row
    BY DEF Row
  <1>3. Delete(D, S) = [r \in Runs |-> IF r \in S THEN [D[r] EXCEPT !.status = "pruned"]
                                       ELSE D[r]]
    BY DEF Delete
  <1>4. Delete(D, S) \in [Runs -> Row]
    BY <1>1, <1>2, <1>3
  <1>5. \A r \in Runs : r \in S => Delete(D, S)[r] =
          [status |-> "pruned", created |-> D[r].created, restarted |-> D[r].restarted]
    BY <1>1, <1>3
  <1>6. \A r \in Runs \ S : Delete(D, S)[r] = D[r]
    BY <1>3
  <1> QED
    BY <1>4, <1>5, <1>6

(* Retention changes nothing but the status of settled rows. *)
LEMMA RetainType ==
    ASSUME NEW D \in [Runs -> Row], NEW cutoff, NEW keep
    PROVE  /\ Retain(D, cutoff, keep) \in [Runs -> Row]
           /\ \A r \in Runs :
                /\ Retain(D, cutoff, keep)[r].restarted = D[r].restarted
                /\ Retain(D, cutoff, keep)[r].created = D[r].created
                /\ \/ Retain(D, cutoff, keep)[r].status = D[r].status
                   \/ D[r].status \in Terminal /\ Retain(D, cutoff, keep)[r].status = "pruned"
  <1> DEFINE A == DeleteRunsOlderThan(D, cutoff)
             O == DeleteRunsOverflow(A, keep)
  <1>1. /\ A \in [Runs -> Row]
        /\ \A r \in Runs : /\ A[r].restarted = D[r].restarted
                           /\ A[r].created = D[r].created
                           /\ \/ A[r].status = D[r].status
                              \/ D[r].status \in Terminal /\ A[r].status = "pruned"
    BY DeleteType DEF DeleteRunsOlderThan, Finished
  <1>2. /\ O \in [Runs -> Row]
        /\ \A r \in Runs : /\ O[r].restarted = A[r].restarted
                           /\ O[r].created = A[r].created
                           /\ \/ O[r].status = A[r].status
                              \/ A[r].status \in Terminal /\ O[r].status = "pruned"
    <2> HIDE DEF A
    <2> DEFINE S == {r \in Finished(A) :
                       Cardinality({q \in Finished(A) : Newer(A, q, r)}) >= keep}
    <2>1. O = Delete(A, S)
      BY DEF DeleteRunsOverflow
    <2>2. \A r \in S : A[r].status \in Terminal
      BY DEF Finished
    <2> HIDE DEF S, O
    <2> QED
      BY <1>1, <2>1, <2>2, DeleteType
  <1>3. Retain(D, cutoff, keep) = IF keep > 0 THEN O ELSE A
    BY DEF Retain
  <1> HIDE DEF A, O
  <1> QED
    BY <1>1, <1>2, <1>3

(* Creation times are numbers. *)
LEMMA CreatedType ==
    ASSUME NEW D \in [Runs -> Row], NEW r \in Runs
    PROVE  D[r].created \in Nat
  <1> DEFINE t == D[r].created
  <1>1. t \in Times \cup {0}
    BY DEF Row
  <1> HIDE DEF t
  <1>2. t \in Nat
    BY <1>1, TimesAssumption
  <1> QED
    BY <1>2 DEF t

(* A cutoff of 0 selects nothing. *)
LEMMA NothingOlderThanZero ==
    ASSUME NEW D \in [Runs -> Row]
    PROVE  DeleteRunsOlderThan(D, 0) = D
  <1>1. {r \in Finished(D) : D[r].created < 0} = {}
    BY CreatedType DEF Finished
  <1> QED
    BY <1>1 DEF DeleteRunsOlderThan, Delete

-----------------------------------------------------------------------------
(* Well-foundedness of the naturals, in the form used here. *)
LEMMA LeastNumber ==
    ASSUME NEW T \in SUBSET Nat, T # {}
    PROVE  \E n \in T : \A m \in T : n <= m
  <1> DEFINE LT == {ss \in Nat \X Nat : ss[1] < ss[2]}
  <1>1. IsWellFoundedOn(LT, Nat)
    BY NatLessThanWellFounded DEF OpToRel
  <1>2. \E x \in T : \A y \in T : ~(<<y, x>> \in LT)
    BY <1>1, WFMin
  <1>3. \A x, y \in T : ~(<<y, x>> \in LT) => x <= y
    OBVIOUS
  <1> HIDE DEF LT
  <1> QED
    BY <1>2, <1>3

(* ORDER BY created_at_unix_nano DESC, id DESC is a strict total order. *)
LEMMA NewerOrder ==
    ASSUME NEW D \in [Runs -> Row]
    PROVE  /\ \A r \in Runs : ~Newer(D, r, r)
           /\ \A p, q, r \in Runs : Newer(D, p, q) /\ Newer(D, q, r) => Newer(D, p, r)
           /\ \A q, r \in Runs : q = r \/ Newer(D, q, r) \/ Newer(D, r, q)
  <1>1. \A r \in Runs : D[r].created \in Nat /\ r \in Nat
    BY CreatedType, RunsAssumption
  <1> QED
    BY <1>1 DEF Newer

(* The rows before a row in a listing are finitely many, and fewer for an
   earlier row. *)
LEMMA RankFacts ==
    ASSUME NEW D \in [Runs -> Row], NEW F \in SUBSET Runs, IsFiniteSet(F), NEW r \in F
    PROVE  LET Above(q) == {p \in F : Newer(D, p, q)}
           IN  /\ IsFiniteSet(Above(r)) /\ Cardinality(Above(r)) \in Nat
               /\ \A q \in Above(r) : Cardinality(Above(q)) < Cardinality(Above(r))
  <1> DEFINE Above(q) == {p \in F : Newer(D, p, q)}
  <1>1. \A q \in F : IsFiniteSet(Above(q)) /\ Cardinality(Above(q)) \in Nat
    <2> TAKE q \in F
    <2>1. Above(q) \in SUBSET F
      OBVIOUS
    <2>2. IsFiniteSet(Above(q))
      BY <2>1, FS_Subset
    <2> QED
      BY <2>2, FS_CardinalityType
  <1>2. ASSUME NEW q \in Above(r)
        PROVE  Cardinality(Above(q)) < Cardinality(Above(r))
    <2>1. Above(q) \in SUBSET Above(r) /\ q \in Above(r) /\ q \notin Above(q)
      BY NewerOrder
    <2>2. q \in F
      OBVIOUS
    <2> DEFINE S == Above(r)
               T == Above(q)
    <2>3. IsFiniteSet(S) /\ Cardinality(S) \in Nat /\ Cardinality(T) \in Nat
      BY <1>1, <2>2
    <2>4. T \in SUBSET S /\ T # S
      BY <2>1
    <2> HIDE DEF S, T
    <2>5. Cardinality(T) <= Cardinality(S) /\ (Cardinality(S) = Cardinality(T) => S = T)
      BY <2>3, <2>4, FS_Subset
    <2>6. Cardinality(T) < Cardinality(S)
      BY <2>3, <2>4, <2>5
    <2> QED
      BY <2>6 DEF S, T
  <1> QED
    BY <1>1, <1>2

(* The rows of F before r, and the first k rows of F. *)
Before(D, F, r) == {q \in F : Newer(D, q, r)}
Top(D, F, k) == {q \in F : ~(Cardinality(Before(D, F, q)) >= k)}

(* LIMIT k of an ordered listing: at most k rows are kept, and a row that is
   not has exactly k of them before it. *)
LEMMA TopRows ==
    ASSUME NEW D \in [Runs -> Row], NEW F \in SUBSET Runs, IsFiniteSet(F),
           NEW k \in Nat \ {0}
    PROVE  /\ Cardinality(Top(D, F, k)) <= k
           /\ \A r \in F \ Top(D, F, k) : Cardinality(Before(D, Top(D, F, k), r)) = k
  <1> DEFINE Above(q) == {p \in F : Newer(D, p, q)}
             Kept == {q \in F : ~(Cardinality(Above(q)) >= k)}
             rank == [q \in F |-> Cardinality(Above(q))]
  <1>1. \A q \in F : /\ IsFiniteSet(Above(q)) /\ rank[q] = Cardinality(Above(q))
                     /\ rank[q] \in Nat
                     /\ \A p \in Above(q) : p \in F /\ rank[p] < rank[q]
    BY RankFacts
  <1>2. Kept = {q \in F : rank[q] < k}
    BY <1>1
  <1>3. IsFiniteSet(Kept) /\ Cardinality(Kept) \in Nat
    <2>1. Kept \in SUBSET F
      OBVIOUS
    <2> HIDE DEF Kept
    <2> QED
      BY <2>1, FS_Subset, FS_CardinalityType
  <1>4. \A p, q \in F : p = q \/ p \in Above(q) \/ q \in Above(p)
    BY NewerOrder
  <1>5. \A r \in F \ Kept : {q \in Kept : Newer(D, q, r)} = Kept
    <2> SUFFICES ASSUME NEW r \in F \ Kept, NEW q \in Kept
                 PROVE  q \in Above(r)
      OBVIOUS
    <2>1. rank[q] < k /\ rank[r] >= k /\ rank[r] \in Nat /\ rank[q] \in Nat
      BY <1>1, <1>2
    <2> HIDE DEF Above, rank
    <2> QED
      BY <1>1, <1>4, <2>1 DEF Kept
  <1> HIDE DEF Above, Kept, rank
  <1>6. Cardinality(Kept) <= k
    <2>1. CASE Kept = {}
      BY <2>1, FS_EmptySet
    <2>2. CASE Kept # {}
      <3> DEFINE T == {k - rank[q] : q \in Kept}
      <3>1. T \in SUBSET Nat /\ T # {}
        BY <1>1, <1>2, <2>2
      <3>2. \E n \in T : \A m \in T : n <= m
        BY <3>1, LeastNumber
      <3>3. PICK last \in Kept : \A q \in Kept : k - rank[last] <= k - rank[q]
        BY <3>2
      <3>4. last \in F /\ rank[last] < k /\ rank[last] \in Nat
        BY <1>1, <1>2
      <3>5. \A q \in Kept : q = last \/ q \in Above(last)
        BY <1>1, <1>2, <1>4, <3>3, <3>4
      <3>6. Kept \in SUBSET (Above(last) \cup {last})
        BY <3>5
      <3>7. /\ IsFiniteSet(Above(last) \cup {last})
            /\ Cardinality(Above(last) \cup {last}) <= rank[last] + 1
        <4> DEFINE A == Above(last)
        <4>1. IsFiniteSet(A) /\ Cardinality(A) = rank[last]
          BY <1>1, <3>4
        <4> HIDE DEF A
        <4>2. /\ IsFiniteSet(A \cup {last})
              /\ Cardinality(A \cup {last}) = IF last \in A THEN Cardinality(A)
                                               ELSE Cardinality(A) + 1
          BY <4>1, FS_AddElement
        <4>3. Cardinality(A \cup {last}) <= rank[last] + 1
          BY <3>4, <4>1, <4>2
        <4> QED
          BY <4>2, <4>3 DEF A
      <3>8. Cardinality(Kept) <= Cardinality(Above(last) \cup {last})
        BY <3>6, <3>7, FS_Subset
      <3>9. Cardinality(Above(last) \cup {last}) \in Nat
        BY <3>7, FS_CardinalityType
      <3> QED
        BY <1>3, <3>4, <3>7, <3>8, <3>9
    <2> QED
      BY <2>1, <2>2
  <1>7. F \ Kept # {} => Cardinality(Kept) >= k
    <2> SUFFICES ASSUME F \ Kept # {}
                 PROVE  Cardinality(Kept) >= k
      OBVIOUS
    <2> DEFINE T == {rank[q] : q \in F \ Kept}
    <2>1. T \in SUBSET Nat /\ T # {}
      BY <1>1
    <2>2. \E n \in T : \A m \in T : n <= m
      BY <2>1, LeastNumber
    <2>3. PICK first \in F \ Kept : \A q \in F \ Kept : rank[first] <= rank[q]
      BY <2>2
    <2>4. rank[first] >= k /\ rank[first] \in Nat
      BY <1>1, <1>2
    <2>5. Above(first) \in SUBSET Kept
      <3>1. \A q \in Above(first) : q \in F /\ rank[q] < rank[first] /\ rank[q] \in Nat
        BY <1>1
      <3> QED
        BY <2>3, <2>4, <3>1
    <2>6. Cardinality(Above(first)) <= Cardinality(Kept)
      BY <1>3, <2>5, FS_Subset
    <2> QED
      BY <1>1, <1>3, <2>4, <2>6
  <1>8. \A r \in F \ Kept : Cardinality(Before(D, Kept, r)) = k
    <2>1. \A r \in F \ Kept : Before(D, Kept, r) = Kept
      BY <1>5 DEF Before
    <2> QED
      BY <1>3, <1>6, <1>7, <2>1
  <1>9. Top(D, F, k) = Kept
    BY DEF Top, Before, Kept, Above
  <1> QED
    BY <1>6, <1>8, <1>9

(* What ApplyRetention keeps and what it takes. *)
LEMMA RetainExactly ==
    ASSUME NEW D \in [Runs -> Row], NEW cutoff \in Nat, NEW keep \in Nat,
           IsFiniteSet(Finished(D))
    PROVE  LET N == Retain(D, cutoff, keep)
           IN  /\ \A r \in Finished(N) : N[r].created >= cutoff
               /\ keep > 0 => Cardinality(Finished(N)) <= keep
               /\ \A r \in Finished(D) \ Present(N) :
                     \/ D[r].created < cutoff
                     \/ keep > 0 /\ Cardinality(Before(D, Finished(N), r)) = keep
  <1> DEFINE A == DeleteRunsOlderThan(D, cutoff)
             N == Retain(D, cutoff, keep)
             F == Finished(A)
             Kept == Top(A, F, keep)
  <1>1. \A r \in Runs : D[r].created \in Nat
    BY CreatedType
  <1>2. /\ A \in [Runs -> Row] /\ \A r \in Runs : A[r].created = D[r].created
        /\ F = {r \in Finished(D) : ~(D[r].created < cutoff)}
    <2> DEFINE S == {r \in Finished(D) : D[r].created < cutoff}
    <2>1. A = Delete(D, S)
      BY DEF DeleteRunsOlderThan
    <2>2. S \subseteq Finished(D) /\ Finished(D) \subseteq Runs
      BY DEF Finished
    <2> HIDE DEF A
    <2>3. /\ A \in [Runs -> Row] /\ \A r \in Runs : A[r].created = D[r].created
          /\ \A r \in Runs : A[r].status = IF r \in S THEN "pruned" ELSE D[r].status
      <3> HIDE DEF S
      <3> QED
        BY <2>1, DeleteType
    <2>4. F = Finished(D) \ S
      <3> HIDE DEF S
      <3> QED
        BY <2>2, <2>3 DEF Finished, Terminal
    <2> QED
      BY <2>3, <2>4
  <1> HIDE DEF A
  <1>3. \A r \in Runs : N[r].created = D[r].created
    BY RetainType
  <1>4. \A q, r \in Runs : Newer(A, q, r) <=> Newer(D, q, r)
    BY <1>2 DEF Newer
  <1>5. F \in SUBSET Runs /\ IsFiniteSet(F)
    <2>1. F \subseteq Finished(D)
      BY <1>2
    <2> QED
      BY <2>1, FS_Subset DEF Finished
  <1>6. /\ Finished(N) = IF keep > 0 THEN Kept ELSE F
        /\ \A r \in Runs : r \in Present(N) <=> IF keep > 0 THEN r \in Present(A) /\ r \notin F \ Kept
                                               ELSE r \in Present(A)
    <2>1. CASE keep > 0
      <3> DEFINE O == {r \in Finished(A) :
                         Cardinality({q \in Finished(A) : Newer(A, q, r)}) >= keep}
      <3>1. N = Delete(A, O)
        BY <2>1 DEF Retain, DeleteRunsOverflow, A
      <3>2. O = F \ Kept /\ Kept \subseteq F
        BY DEF Top, Before
      <3> HIDE DEF O, N, Kept
      <3>3. \A r \in Runs : N[r].status = IF r \in O THEN "pruned" ELSE A[r].status
        BY <1>2, <3>1, DeleteType
      <3>4. Finished(N) = F \ O
        BY <3>3 DEF Finished, Terminal
      <3>5. \A r \in Runs : r \in Present(N) <=> r \in Present(A) /\ r \notin O
        BY <3>3 DEF Present
      <3> QED
        BY <2>1, <3>2, <3>4, <3>5
    <2>2. CASE ~(keep > 0)
      BY <2>2 DEF Retain, A
    <2> QED
      BY <2>1, <2>2
  <1>7. F \subseteq Present(A)
    BY DEF Finished, Present, Terminal
  <1>8. keep > 0 => /\ Cardinality(Kept) <= keep
                    /\ \A r \in F \ Kept : Cardinality(Before(A, Kept, r)) = keep
    <2> HAVE keep > 0
    <2>1. keep \in Nat \ {0} /\ A \in [Runs -> Row] /\ F \in SUBSET Runs /\ IsFiniteSet(F)
      BY <1>2, <1>5
    <2> HIDE DEF F
    <2> QED
      BY <2>1, TopRows
  <1>9. Kept \subseteq F
    BY DEF Top
  <1>10. \A r \in F \ Kept : Before(A, Kept, r) = Before(D, Kept, r)
    BY <1>4, <1>5, <1>9 DEF Before
  <1> HIDE DEF F, Kept, N
  <1>11. \A r \in Finished(N) : r \in F
    BY <1>6, <1>9
  <1>12. \A r \in Finished(N) : N[r].created >= cutoff
    BY <1>1, <1>2, <1>3, <1>5, <1>11
  <1>13. ASSUME NEW r \in Finished(D) \ Present(N), ~(D[r].created < cutoff)
         PROVE  keep > 0 /\ Cardinality(Before(D, Finished(N), r)) = keep
    <2>1. r \in F
      BY <1>2, <1>13
    <2>2. keep > 0 /\ r \in F \ Kept
      BY <1>5, <1>6, <1>7, <1>13, <2>1
    <2> QED
      BY <1>6, <1>8, <1>10, <2>2
  <1> QED
    BY <1>6, <1>8, <1>12, <1>13 DEF N
=============================================================================
