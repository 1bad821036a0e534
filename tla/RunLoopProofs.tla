--------------------------- MODULE RunLoopProofs ---------------------------
(***************************************************************************)
(* Proofs about RunLoop, for any number of children and turns.             *)
(*                                                                         *)
(* A history is closed when results follow each of its tool calls.  That   *)
(* it is depends on where its loop is (HistoryInv), and so does what its   *)
(* ledger has been charged (PaidInv).  The budget needs more: no loop is   *)
(* admitted above it, so that what is charged and what is owed pass it by  *)
(* a response for each loop in flight (OwedInv), and the ledger of the Run *)
(* is what its loops were charged (BilledInv).  The sums in these are      *)
(* folds over finite sets, which come first.                               *)
(***************************************************************************)
EXTENDS RunLoop, FiniteSetTheorems, SequenceTheorems, WellFoundedInduction, TLAPS

-----------------------------------------------------------------------------
(***************************************************************************)
(* Induction over the natural numbers and over finite sets, with a set in   *)
(* the place of a predicate, and what follows from it about the folds of    *)
(* the community modules: a fold over a finite set is a recursive function, *)
(* which exists, and a sum of natural numbers is what one expects of it.    *)
(***************************************************************************)
\* A set of numbers that has 0, and with every number the next, has them all.
LEMMA AllNumbers ==
  ASSUME NEW P \in SUBSET Nat, 0 \in P, \A n \in P : n + 1 \in P
  PROVE  P = Nat
<1> DEFINE T == Nat \ P
           R == {ss \in Nat \X Nat : ss[1] < ss[2]}
<1> SUFFICES ASSUME T # {} PROVE FALSE
    OBVIOUS
<1>1. IsWellFoundedOn(R, Nat)
    BY NatLessThanWellFounded DEF OpToRel
<1>2. PICK x \in T : \A y \in T : ~ (<<y, x>> \in R)
  <2>1. T \subseteq Nat
      OBVIOUS
  <2> HIDE DEF T, R
  <2> QED BY <1>1, <2>1, WFMin
<1>3. x \in Nat /\ x # 0
    OBVIOUS
<1>4. x - 1 \in Nat /\ <<x - 1, x>> \in R
    BY <1>3
<1>5. x - 1 \in P
    BY <1>2, <1>4
<1> QED BY <1>3, <1>5

\* Functions that recurse over 0 .. N.
Recursion(g, base, take, N) ==
  \A n \in 0 .. N : g[n] = IF n = 0 THEN base ELSE take[<<n, g[n - 1]>>]

LEMMA RecursionExists ==
  ASSUME NEW N \in Nat, NEW Y, NEW base \in Y, NEW take \in [(1 .. N) \X Y -> Y]
  PROVE  \E g \in [0 .. N -> Y] : Recursion(g, base, take, N)
<1> DEFINE Value(g, n) == IF n = 0 THEN base ELSE take[<<n, g[n - 1]>>]
           Upto(k) == {g \in [0 .. N -> Y] : \A n \in 0 .. N : n <= k => g[n] = Value(g, n)}
           K == {k \in Nat : Upto(k) # {}}
<1>1. 0 \in K
  <2> DEFINE g == [n \in 0 .. N |-> base]
  <2>1. g \in Upto(0)
      OBVIOUS
  <2> QED BY <2>1
<1>2. ASSUME NEW k \in K PROVE k + 1 \in K
  <2>1. PICK g \in [0 .. N -> Y] : \A n \in 0 .. N : n <= k => g[n] = Value(g, n)
      BY <1>2
  <2> DEFINE h == [n \in 0 .. N |-> Value(g, n)]
  <2>2. \A n \in 0 .. N : n # 0 => n \in 1 .. N /\ n - 1 \in 0 .. N
      OBVIOUS
  <2>3. \A n \in 0 .. N : Value(g, n) \in Y
      BY <2>2
  <2> HIDE DEF Value
  <2>4. h \in [0 .. N -> Y]
      BY <2>3
  <2>5. \A n \in 0 .. N : n <= k => h[n] = g[n]
      BY <2>1
  <2>6. ASSUME NEW n \in 0 .. N, n <= k + 1
        PROVE  h[n] = Value(h, n)
    <3>1. n # 0 => h[n - 1] = g[n - 1]
        BY <2>2, <2>5, <2>6
    <3>2. h[n] = Value(g, n)
        OBVIOUS
    <3> HIDE DEF h
    <3> QED BY <3>1, <3>2 DEF Value
  <2>7. h \in Upto(k + 1)
      BY <2>4, <2>6
  <2> HIDE DEF Upto
  <2> QED BY <2>7
<1>3. K = Nat
  <2>1. K \in SUBSET Nat
      OBVIOUS
  <2> HIDE DEF K
  <2> QED BY <1>1, <1>2, <2>1, AllNumbers
<1>4. N \in K
    BY <1>3
<1> QED BY <1>4 DEF Recursion

\* A set of numbers up to N that has 0, and the next of each, has N.
LEMMA UpTo ==
  ASSUME NEW N \in Nat, NEW P \in SUBSET (0 .. N), 0 \in P,
         \A n \in P : n < N => n + 1 \in P
  PROVE  N \in P
<1> DEFINE Q == {n \in Nat : n <= N => n \in P}
<1>1. Q \in SUBSET Nat /\ 0 \in Q
    OBVIOUS
<1>2. \A n \in Q : n + 1 \in Q
    OBVIOUS
<1> HIDE DEF Q
<1>3. Q = Nat
    BY <1>1, <1>2, AllNumbers
<1> QED BY <1>3 DEF Q

\* Of finitely many numbers one is the largest.
LEMMA Largest ==
  ASSUME NEW n \in Nat, NEW S \in SUBSET (1 .. n), S # {}
  PROVE  \E x \in S : \A y \in S : y <= x
<1> DEFINE P == {m \in Nat : \A T \in SUBSET (1 .. m) :
                   T # {} => \E x \in T : \A y \in T : y <= x}
<1>1. 0 \in P
  <2>1. \A T \in SUBSET (1 .. 0) : T = {}
      OBVIOUS
  <2> QED BY <2>1
<1>2. ASSUME NEW m \in P PROVE m + 1 \in P
  <2>1. m \in Nat /\ m + 1 \in Nat
      OBVIOUS
  <2>2. ASSUME NEW T \in SUBSET (1 .. m + 1), T # {}
        PROVE  \E x \in T : \A y \in T : y <= x
    <3>1. CASE m + 1 \in T
        BY <2>1, <2>2, <3>1
    <3>2. CASE m + 1 \notin T
      <4>1. T \in SUBSET (1 .. m)
          BY <2>1, <2>2, <3>2
      <4> QED BY <4>1, <2>2
    <3> QED BY <3>1, <3>2
  <2> HIDE DEF P
  <2>3. m + 1 \in Nat /\ \A T \in SUBSET (1 .. m + 1) :
                           T # {} => \E x \in T : \A y \in T : y <= x
      BY <2>1, <2>2
  <2> QED BY <2>3 DEF P
<1>3. P \in SUBSET Nat
    OBVIOUS
<1> HIDE DEF P
<1>4. P = Nat
    BY <1>1, <1>2, <1>3, AllNumbers
<1>5. n \in P
    BY <1>4
<1> QED BY <1>5 DEF P

\* Of numbers up to n one is the smallest.
LEMMA Smallest ==
  ASSUME NEW n \in Nat, NEW S \in SUBSET (1 .. n), S # {}
  PROVE  \E x \in S : \A y \in S : x <= y
<1> DEFINE T == {n + 1 - x : x \in S}
<1>1. T \in SUBSET (1 .. n) /\ T # {}
  <2>1. \A x \in S : n + 1 - x \in 1 .. n
      OBVIOUS
  <2> QED BY <2>1
<1>2. PICK z \in T : \A y \in T : y <= z
  <2> HIDE DEF T
  <2> QED BY <1>1, Largest
<1>3. PICK x \in S : z = n + 1 - x
    BY <1>2
<1>4. \A y \in S : n + 1 - y <= n + 1 - x
    BY <1>2, <1>3
<1> QED BY <1>3, <1>4

Some(s) == CHOOSE x \in s : TRUE

\* A set of subsets of a finite set that has the empty one, and a set whenever
\* it has what is left of it without the element chosen, has them all.
LEMMA AllSubsets ==
  ASSUME NEW S, IsFiniteSet(S), NEW P \in SUBSET SUBSET S, {} \in P,
         \A s \in SUBSET S : s # {} /\ s \ {Some(s)} \in P => s \in P
  PROVE  P = SUBSET S
<1> DEFINE N == {n \in Nat : \A s \in SUBSET S : Cardinality(s) = n => s \in P}
<1>1. \A s \in SUBSET S : IsFiniteSet(s) /\ Cardinality(s) \in Nat
    BY FS_Subset, FS_CardinalityType
<1>2. 0 \in N
    BY <1>1, FS_EmptySet
<1>3. ASSUME NEW n \in N PROVE n + 1 \in N
  <2> SUFFICES ASSUME NEW s \in SUBSET S, Cardinality(s) = n + 1 PROVE s \in P
      OBVIOUS
  <2>1. s # {}
      BY FS_EmptySet
  <2>2. Some(s) \in s
      BY <2>1 DEF Some
  <2>3. Cardinality(s \ {Some(s)}) = n
      BY <1>1, <2>2, FS_RemoveElement
  <2> QED BY <2>1, <2>3
<1>4. N = Nat
  <2>1. N \in SUBSET Nat
      OBVIOUS
  <2> HIDE DEF N
  <2> QED BY <1>2, <1>3, <2>1, AllNumbers
<1> QED BY <1>1, <1>4

-----------------------------------------------------------------------------
\* g is the function that a fold over S recurses on: step[<<x, y>>] takes in
\* the element x to what y was made of the others.
Folds(g, base, step, S) ==
  g = [s \in SUBSET S |->
         IF s = {} THEN base ELSE step[<<Some(s), g[s \ {Some(s)}]>>]]

\* There is one, whatever is folded ...
LEMMA FoldExists ==
  ASSUME NEW S, IsFiniteSet(S), NEW Y, NEW base \in Y, NEW step \in [S \X Y -> Y]
  PROVE  \E g : Folds(g, base, step, S)
<1> DEFINE Grown(g, s) == IF s = {} THEN base ELSE step[<<Some(s), g[s \ {Some(s)}]>>]
           Upto(n) == {g \in [SUBSET S -> Y] :
                         \A s \in SUBSET S : Cardinality(s) <= n => g[s] = Grown(g, s)}
           N == {n \in Nat : Upto(n) # {}}
<1>1. \A s \in SUBSET S : /\ IsFiniteSet(s) /\ Cardinality(s) \in Nat
                          /\ Cardinality(s) <= Cardinality(S)
    BY FS_Subset, FS_CardinalityType
<1>2. \A s \in SUBSET S : s # {} =>
        /\ Some(s) \in S /\ s \ {Some(s)} \in SUBSET S
        /\ Cardinality(s \ {Some(s)}) = Cardinality(s) - 1
    BY <1>1, FS_RemoveElement DEF Some
<1>3. 0 \in N
  <2> DEFINE g == [s \in SUBSET S |-> base]
  <2>1. ASSUME NEW s \in SUBSET S, Cardinality(s) <= 0
        PROVE  s = {}
      BY <1>1, <2>1, FS_EmptySet
  <2>2. g \in Upto(0)
      BY <2>1
  <2> QED BY <2>2
<1>4. ASSUME NEW n \in N PROVE n + 1 \in N
  <2>1. PICK g \in [SUBSET S -> Y] :
           \A s \in SUBSET S : Cardinality(s) <= n => g[s] = Grown(g, s)
      BY <1>4
  <2> DEFINE h == [s \in SUBSET S |-> Grown(g, s)]
  <2> HIDE DEF Grown
  <2>2. \A s \in SUBSET S : Grown(g, s) \in Y
      BY <1>2 DEF Grown
  <2>3. h \in [SUBSET S -> Y]
      BY <2>2
  <2>4. \A s \in SUBSET S : Cardinality(s) <= n => h[s] = g[s]
      BY <2>1
  <2>5. ASSUME NEW s \in SUBSET S, Cardinality(s) <= n + 1
        PROVE  h[s] = Grown(h, s)
    <3>1. s # {} => Cardinality(s \ {Some(s)}) <= n
        BY <1>1, <1>2, <2>5
    <3>2. s # {} => h[s \ {Some(s)}] = g[s \ {Some(s)}]
        BY <1>2, <2>4, <3>1
    <3>3. h[s] = Grown(g, s)
        OBVIOUS
    <3> HIDE DEF h
    <3> QED BY <3>2, <3>3 DEF Grown
  <2>6. h \in Upto(n + 1)
      BY <2>3, <2>5
  <2> HIDE DEF Upto
  <2> QED BY <2>6
<1>5. N = Nat
  <2>1. N \in SUBSET Nat
      OBVIOUS
  <2> HIDE DEF N
  <2> QED BY <1>3, <1>4, <2>1, AllNumbers
<1>6. PICK g \in [SUBSET S -> Y] : \A s \in SUBSET S : g[s] = Grown(g, s)
  <2>1. Cardinality(S) \in N
      BY <1>1, <1>5
  <2> HIDE DEF Grown
  <2> QED BY <1>1, <2>1
<1> QED BY <1>6 DEF Folds

\* ... and every one has values of the fold's type.
LEMMA FoldType ==
  ASSUME NEW S, IsFiniteSet(S), NEW Y, NEW base \in Y, NEW step \in [S \X Y -> Y],
         NEW g, Folds(g, base, step, S)
  PROVE  g \in [SUBSET S -> Y]
<1> DEFINE P == {s \in SUBSET S : g[s] \in Y}
<1>1. \A s \in SUBSET S :
        g[s] = IF s = {} THEN base ELSE step[<<Some(s), g[s \ {Some(s)}]>>]
    BY DEF Folds
<1>2. {} \in P
    BY <1>1
<1>3. ASSUME NEW s \in SUBSET S, s # {} /\ s \ {Some(s)} \in P
      PROVE  s \in P
  <2>1. Some(s) \in S
      BY <1>3 DEF Some
  <2> QED BY <1>1, <1>3, <2>1
<1>4. P = SUBSET S
  <2>1. P \in SUBSET SUBSET S
      OBVIOUS
  <2> HIDE DEF P
  <2> QED BY <1>2, <1>3, <2>1, AllSubsets
<1> QED BY <1>4 DEF Folds

-----------------------------------------------------------------------------
\* g is the function that SumFunction(f) recurses on.
Sums(g, f, S) ==
  g = [s \in SUBSET S |-> IF s = {} THEN 0 ELSE f[Some(s)] + g[s \ {Some(s)}]]

\* There is one, and the sum of f is its value for the whole domain.
LEMMA SumUnfolds ==
  ASSUME NEW S, IsFiniteSet(S), NEW f \in [S -> Int]
  PROVE  \E g \in [SUBSET S -> Int] : Sums(g, f, S) /\ SumFunction(f) = g[S]
<1> DEFINE step == [p \in S \X Int |-> f[p[1]] + p[2]]
<1>1. step \in [S \X Int -> Int] /\ 0 \in Int /\ {} \in SUBSET S /\ S \in SUBSET S
    OBVIOUS
<1>2. PICK g : Folds(g, 0, step, S)
  <2> HIDE DEF step
  <2> QED BY <1>1, FoldExists
<1>3. g \in [SUBSET S -> Int]
  <2> HIDE DEF step
  <2> QED BY <1>1, <1>2, FoldType
<1>4. Sums(g, f, S)
  <2>1. ASSUME NEW s \in SUBSET S, s # {}
        PROVE  step[<<Some(s), g[s \ {Some(s)}]>>] = f[Some(s)] + g[s \ {Some(s)}]
    <3>1. Some(s) \in S /\ g[s \ {Some(s)}] \in Int
        BY <1>3, <2>1 DEF Some
    <3> QED BY <3>1
  <2> HIDE DEF step
  <2> QED BY <1>2, <2>1 DEF Folds, Sums
<1> DEFINE iter == CHOOSE h : Sums(h, f, S)
<1>5. Sums(iter, f, S)
    BY <1>4
<1>6. SumFunction(f) = iter[S]
  <2>1. DOMAIN f = S
      OBVIOUS
  <2> QED BY <2>1 DEF SumFunction, SumFunctionOnSet, FoldFunctionOnSet, MapThenFoldSet, Sums, Some
<1>7. iter \in [SUBSET S -> Int]
  <2> DEFINE P == {s \in SUBSET S : iter[s] \in Int}
  <2>1. \A s \in SUBSET S : iter[s] = IF s = {} THEN 0 ELSE f[Some(s)] + iter[s \ {Some(s)}]
    <3> HIDE DEF iter
    <3> QED BY <1>5 DEF Sums
  <2> HIDE DEF iter
  <2>2. {} \in P
    <3>1. iter[{}] = 0
        BY <1>1, <2>1
    <3> QED BY <1>1, <3>1
  <2>3. ASSUME NEW s \in SUBSET S, s # {} /\ s \ {Some(s)} \in P PROVE s \in P
    <3>1. Some(s) \in S
        BY <2>3 DEF Some
    <3> QED BY <2>1, <2>3, <3>1
  <2>4. P = SUBSET S
    <3>1. P \in SUBSET SUBSET S
        OBVIOUS
    <3> HIDE DEF P
    <3> QED BY <2>2, <2>3, <3>1, AllSubsets
  <2> QED BY <1>5, <2>4 DEF Sums
<1> QED BY <1>5, <1>6, <1>7

\* A sum is an integer, and sums of functions that differ in one value differ
\* by as much.
LEMMA SumType ==
  ASSUME NEW S, IsFiniteSet(S), NEW f \in [S -> Int]
  PROVE  SumFunction(f) \in Int
<1>1. PICK g \in [SUBSET S -> Int] : Sums(g, f, S) /\ SumFunction(f) = g[S]
    BY SumUnfolds
<1>2. S \in SUBSET S
    OBVIOUS
<1> QED BY <1>1, <1>2

LEMMA SumChanged ==
  ASSUME NEW S, IsFiniteSet(S), NEW f \in [S -> Int], NEW e \in [S -> Int],
         NEW d \in S, NEW k \in Int, e[d] = f[d] + k, \A x \in S \ {d} : e[x] = f[x]
  PROVE  SumFunction(e) = SumFunction(f) + k
<1>2. PICK g \in [SUBSET S -> Int] : Sums(g, f, S) /\ SumFunction(f) = g[S]
    BY SumUnfolds
<1>3. PICK h \in [SUBSET S -> Int] : Sums(h, e, S) /\ SumFunction(e) = h[S]
    BY SumUnfolds
<1>4. \A s \in SUBSET S :
        /\ g[s] = IF s = {} THEN 0 ELSE f[Some(s)] + g[s \ {Some(s)}]
        /\ h[s] = IF s = {} THEN 0 ELSE e[Some(s)] + h[s \ {Some(s)}]
    BY <1>2, <1>3 DEF Sums
<1> DEFINE P == {s \in SUBSET S : h[s] = g[s] + IF d \in s THEN k ELSE 0}
<1>5. {} \in P
  <2>1. {} \in SUBSET S /\ d \notin {}
      OBVIOUS
  <2>2. g[{}] = 0 /\ h[{}] = 0
      BY <1>4, <2>1
  <2> QED BY <2>1, <2>2
<1>6. ASSUME NEW s \in SUBSET S, s # {} /\ s \ {Some(s)} \in P PROVE s \in P
  <2>1. Some(s) \in s /\ Some(s) \in S
      BY <1>6 DEF Some
  <2>2. CASE Some(s) = d
      BY <1>4, <1>6, <2>1, <2>2
  <2>3. CASE Some(s) # d
      BY <1>4, <1>6, <2>1, <2>3
  <2> QED BY <2>2, <2>3
<1>7. P = SUBSET S
  <2>1. P \in SUBSET SUBSET S
      OBVIOUS
  <2> HIDE DEF P
  <2> QED BY <1>5, <1>6, <2>1, AllSubsets
<1>8. S \in P
    BY <1>7
<1> QED BY <1>2, <1>3, <1>8

\* The sum of a function that is at most m on A and 0 elsewhere.
LEMMA SumBounded ==
  ASSUME NEW S, IsFiniteSet(S), NEW A \in SUBSET S, NEW m \in Nat, NEW f \in [S -> Nat],
         \A x \in S : f[x] <= m /\ (x \notin A => f[x] = 0)
  PROVE  SumFunction(f) \in Nat /\ SumFunction(f) <= Cardinality(A) * m
<1>1. f \in [S -> Int]
    OBVIOUS
<1>2. PICK g \in [SUBSET S -> Int] : Sums(g, f, S) /\ SumFunction(f) = g[S]
    BY <1>1, SumUnfolds
<1>3. \A s \in SUBSET S : g[s] = IF s = {} THEN 0 ELSE f[Some(s)] + g[s \ {Some(s)}]
    BY <1>2 DEF Sums
<1>4. \A s \in SUBSET S : IsFiniteSet(s \cap A) /\ Cardinality(s \cap A) \in Nat
    BY FS_Subset, FS_CardinalityType
<1> DEFINE P == {s \in SUBSET S : g[s] \in Nat /\ g[s] <= Cardinality(s \cap A) * m}
<1>5. {} \in P
  <2>1. {} \cap A = {} /\ {} \in SUBSET S /\ Cardinality({}) = 0
      BY FS_EmptySet
  <2>2. g[{}] = 0
    <3> HIDE DEF P
    <3> QED BY <1>3, <2>1
  <2>3. 0 * m = 0
      OBVIOUS
  <2> QED BY <2>1, <2>2, <2>3
<1>6. ASSUME NEW s \in SUBSET S, s # {} /\ s \ {Some(s)} \in P PROVE s \in P
  <2> DEFINE x == Some(s)
             r == s \ {x}
             c == Cardinality(r \cap A)
  <2>1. x \in s /\ x \in S
      BY <1>6 DEF Some
  <2>2. g[s] = f[x] + g[r] /\ g[r] \in Nat /\ g[r] <= c * m /\ c \in Nat
      BY <1>3, <1>4, <1>6
  <2>3. CASE x \in A
    <3>1. s \cap A = (r \cap A) \cup {x} /\ x \notin r \cap A
        BY <2>1, <2>3
    <3>2. Cardinality(s \cap A) = c + 1
        BY <1>4, <3>1, FS_AddElement
    <3>3. (c + 1) * m = c * m + m
        BY <2>2
    <3> HIDE DEF c, r, x
    <3> QED BY <2>1, <2>2, <3>2, <3>3
  <2>4. CASE x \notin A
    <3>1. s \cap A = r \cap A /\ f[x] = 0
        BY <2>1, <2>4
    <3>2. g[s] = g[r]
        BY <2>2, <3>1
    <3> QED BY <2>2, <3>1, <3>2
  <2> QED BY <2>3, <2>4
<1>7. P = SUBSET S
  <2>1. P \in SUBSET SUBSET S
      OBVIOUS
  <2> HIDE DEF P
  <2> QED BY <1>5, <1>6, <2>1, AllSubsets
<1>8. S \in P /\ S \cap A = A
    BY <1>7
<1> QED BY <1>2, <1>8

-----------------------------------------------------------------------------
(* The histories and the budget                                             *)
\* What is assumed of the constants: there is a most costly response, and not
\* both it and the budget are nothing.
Sizes ==
  /\ Parent \notin Children /\ IsFiniteSet(Children)
  /\ MaxTurns \in Nat /\ Limit \in Nat /\ Costs \subseteq Nat
  /\ \E c \in Costs : Limit + c > 0 /\ \A d \in Costs : d <= c

\* Results follow every tool call of h, or every one but the last message.
OpenAtEnd(h) == \A k \in 1 .. Len(h) - 1 : h[k] = "tool_use" => h[k + 1] = "results"
Closed(h)    == OpenAtEnd(h) /\ (Len(h) > 0 => h[Len(h)] # "tool_use")

ClosedPcs == {"idle", "begin", "top", "stream", "fallback", "postSampling", "account",
              "emitResults"}

HistoryInv ==
  \A l \in Loops :
    /\ OpenAtEnd(messages[l])
    /\ pc[l] \in ClosedPcs => Closed(messages[l])
    /\ pc[l] = "emit" /\ ~tools[l] => Closed(messages[l])
    /\ outcome[l] \in {"success", "max_turns", "error"} => Closed(messages[l])
    /\ outcome[l] # "none" <=> pc[l] = "returned"

\* A child that is not started does nothing, and what it owes is paid when its
\* response is accounted.
PaidInv ==
  \A k \in Children :
    /\ k \notin started => pc[k] = "idle"
    /\ pc[k] # "postSampling"
    /\ billed[k] = charged[k] + usage[k]
    /\ pc[k] # "account" => usage[k] = 0

\* A child is about only while the Run waits for its tools.
JoinInv == pc[Parent] # "tools" => \A k \in started : pc[k] = "returned"

IInv == TypeOK /\ HistoryInv /\ PaidInv /\ JoinInv

-----------------------------------------------------------------------------
(* Histories                                                                *)
LEMMA AppendCloses ==
  ASSUME NEW h \in Seq(Kinds), NEW m \in Kinds
  PROVE  /\ Append(h, m) \in Seq(Kinds)
         /\ Closed(h) => OpenAtEnd(Append(h, m))
         /\ Closed(h) /\ m # "tool_use" => Closed(Append(h, m))
         /\ OpenAtEnd(h) /\ m = "results" => Closed(Append(h, m))
<1> DEFINE g == Append(h, m)
<1>1. /\ g \in Seq(Kinds) /\ Len(g) = Len(h) + 1 /\ Len(h) \in Nat
      /\ g[Len(h) + 1] = m /\ \A k \in 1 .. Len(h) : g[k] = h[k]
    BY AppendProperties, LenProperties
<1> HIDE DEF g
<1>2. Closed(h) \/ (OpenAtEnd(h) /\ m = "results") => OpenAtEnd(g)
  <2> SUFFICES ASSUME Closed(h) \/ (OpenAtEnd(h) /\ m = "results"),
                      NEW k \in 1 .. Len(h), g[k] = "tool_use"
               PROVE  g[k + 1] = "results"
      BY <1>1 DEF OpenAtEnd
  <2>1. CASE k = Len(h)
      BY <1>1, <2>1 DEF Closed
  <2>2. CASE k < Len(h)
      BY <1>1, <2>2 DEF Closed, OpenAtEnd
  <2> QED BY <1>1, <2>1, <2>2
<1>3. m # "tool_use" /\ OpenAtEnd(g) => Closed(g)
    BY <1>1 DEF Closed
<1> QED BY <1>1, <1>2, <1>3 DEF g, Closed

-----------------------------------------------------------------------------
LEMMA InitCorrect == ASSUME Sizes, Init PROVE IInv
<1>1. <<>> \in Seq(Kinds) /\ Len(<<>>) = 0
    BY EmptySeq
<1>2. TypeOK
  <2>1. messages \in [Loops -> Seq(Kinds)]
      BY <1>1 DEF Init
  <2>2. /\ pc \in [Loops -> Pcs] /\ turn \in [Loops -> 0 .. MaxTurns]
        /\ tools \in [Loops -> BOOLEAN] /\ outcome \in [Loops -> Outcomes]
      BY DEF Init, Sizes, Pcs, Outcomes
  <2>3. /\ usage \in [Loops -> Nat] /\ cost \in [Loops -> Nat]
        /\ billed \in [Loops -> Nat] /\ charged \in [Loops -> Nat]
        /\ started \subseteq Children /\ ctxDone \in BOOLEAN
      BY DEF Init
  <2> QED BY <2>1, <2>2, <2>3 DEF TypeOK
<1>3. HistoryInv
  <2>1. Closed(<<>>)
      BY <1>1 DEF Closed, OpenAtEnd
  <2>2. \A l \in Loops : messages[l] = <<>> /\ outcome[l] = "none" /\ pc[l] # "returned"
      BY DEF Init
  <2> QED BY <2>1, <2>2 DEF HistoryInv, Closed
<1>4. PaidInv /\ JoinInv
    BY DEF Init, Sizes, PaidInv, JoinInv, Loops
<1> QED BY <1>2, <1>3, <1>4 DEF IInv

\* What a step of loop l leaves alone, but for starting children.
OthersStay(l) ==
  \A k \in Loops \ {l} :
    /\ turn'[k] = turn[k] /\ messages'[k] = messages[k] /\ tools'[k] = tools[k]
    /\ usage'[k] = usage[k] /\ outcome'[k] = outcome[k]
    /\ billed'[k] = billed[k] /\ charged'[k] = charged[k]

\* What holds of loop l after its step.
History(l) ==
  /\ OpenAtEnd(messages[l])
  /\ pc[l] \in ClosedPcs => Closed(messages[l])
  /\ pc[l] = "emit" /\ ~tools[l] => Closed(messages[l])
  /\ outcome[l] \in {"success", "max_turns", "error"} => Closed(messages[l])
  /\ outcome[l] # "none" <=> pc[l] = "returned"

Paid(l) ==
  /\ pc[l] # "postSampling"
  /\ billed[l] = charged[l] + usage[l]
  /\ pc[l] # "account" => usage[l] = 0

\* A step of a loop that is neither the start nor the end of its tools.
Plain(l) ==
  \/ Begin(l) \/ TurnsEnd(l) \/ Admission(l) \/ StreamFails(l) \/ PostSampling(l)
  \/ Account(l) \/ Emit(l) \/ EmitResults(l)
  \/ \E c \in Costs, t \in BOOLEAN : StreamEnds(l, c, t)

\* What Account does, spelled out.
LEMMA AccountEffect ==
  ASSUME NEW l \in Loops, Account(l)
  PROVE  /\ messages' = [messages EXCEPT ![l] = Append(messages[l],
                                    IF tools[l] THEN "tool_use" ELSE "assistant")]
         /\ UNCHANGED <<turn, tools, started, ctxDone, billed, outcome>>
         /\ pc[l] = "account" /\ pc' = [pc EXCEPT ![l] = "emit"]
         /\ cost' = [cost EXCEPT ![Parent] = cost[Parent] + usage[l]]
         /\ charged' = [charged EXCEPT ![l] = charged[l] + usage[l]]
         /\ usage' = [usage EXCEPT ![l] = 0]
BY DEF Account, AppendMessage, LedgerOf, Charge, GoTo

LEMMA LedgerTypes ==
  ASSUME TypeOK, NEW l \in Loops
  PROVE  cost[Parent] + usage[l] \in Nat /\ charged[l] + usage[l] \in Nat
BY DEF TypeOK, Loops

LEMMA PlainStep ==
  ASSUME Sizes, TypeOK, NEW l \in Loops, History(l), l # Parent => Paid(l), Plain(l)
  PROVE  /\ TypeOK' /\ History(l)' /\ (l # Parent => Paid(l)')
         /\ OthersStay(l) /\ UNCHANGED started
         /\ pc[l] \notin {"idle", "tools", "returned"}
         /\ \A k \in Loops \ {l} : pc'[k] = pc[k]
<1> DEFINE Goal == /\ TypeOK' /\ History(l)' /\ (l # Parent => Paid(l)')
                   /\ OthersStay(l) /\ UNCHANGED started
                   /\ pc[l] \notin {"idle", "tools", "returned"}
                   /\ \A k \in Loops \ {l} : pc'[k] = pc[k]
<1> USE DEF Sizes, TypeOK, History, Paid, OthersStay, GoTo, ReturnWith, Pcs, Outcomes, ClosedPcs, histVars
<1>1. CASE Begin(l)
  <2>1. "user" \in Kinds /\ messages[l] \in Seq(Kinds)
      BY DEF Kinds
  <2>2. /\ Append(messages[l], "user") \in Seq(Kinds)
        /\ Closed(messages[l]) => Closed(Append(messages[l], "user"))
                                  /\ OpenAtEnd(Append(messages[l], "user"))
      BY <2>1, AppendCloses
  <2>3. CASE AppendMessage(l, "user") /\ GoTo(l, "top")
      BY <1>1, <2>2, <2>3 DEF Begin, AppendMessage
  <2>4. CASE UNCHANGED messages /\ \E o \in {"cancelled", "error"} : ReturnWith(l, o)
      BY <1>1, <2>4 DEF Begin
  <2> QED BY <1>1, <2>3, <2>4 DEF Begin
<1>2. CASE TurnsEnd(l)
    BY <1>2 DEF TurnsEnd
<1>3. CASE Admission(l)
  <2>1. turn[l] < MaxTurns => turn[l] + 1 \in 0 .. MaxTurns
      OBVIOUS
  <2>2. CASE UNCHANGED turn
      BY <1>3, <2>2 DEF Admission, Refused, Admitted
  <2>3. CASE turn' = [turn EXCEPT ![l] = @ + 1] /\ GoTo(l, "stream")
      BY <1>3, <2>1, <2>3 DEF Admission, OutOfTurns
  <2> QED BY <1>3, <2>2, <2>3 DEF Admission
<1>4. CASE StreamFails(l)
    BY <1>4 DEF StreamFails
<1>5. CASE PostSampling(l)
  <2>1. CASE GoTo(l, "account") /\ UNCHANGED usage
      BY <1>5, <2>1 DEF PostSampling
  <2>2. CASE ReturnWith(l, "error") /\ usage' = [usage EXCEPT ![l] = 0]
      BY <1>5, <2>2 DEF PostSampling
  <2> QED BY <1>5, <2>1, <2>2 DEF PostSampling
<1>6. CASE Account(l)
  <2> DEFINE m == IF tools[l] THEN "tool_use" ELSE "assistant"
  <2>1. m \in Kinds /\ messages[l] \in Seq(Kinds)
      BY DEF Kinds
  <2>2. /\ Append(messages[l], m) \in Seq(Kinds)
        /\ Closed(messages[l]) => OpenAtEnd(Append(messages[l], m))
        /\ Closed(messages[l]) /\ ~tools[l] => Closed(Append(messages[l], m))
      BY <2>1, AppendCloses
  <2>3. /\ messages' = [messages EXCEPT ![l] = Append(messages[l], m)]
        /\ UNCHANGED <<turn, tools, started, ctxDone, billed, outcome>>
        /\ pc[l] = "account" /\ pc' = [pc EXCEPT ![l] = "emit"]
        /\ cost' = [cost EXCEPT ![Parent] = cost[Parent] + usage[l]]
        /\ charged' = [charged EXCEPT ![l] = charged[l] + usage[l]]
        /\ usage' = [usage EXCEPT ![l] = 0]
      BY <1>6, AccountEffect
  <2> HIDE DEF m
  <2>4. cost[Parent] + usage[l] \in Nat /\ charged[l] + usage[l] \in Nat /\ 0 \in Nat
      BY LedgerTypes
  <2>5. TypeOK'
    <3>1. /\ messages' \in [Loops -> Seq(Kinds)] /\ pc' \in [Loops -> Pcs]
        BY <2>2, <2>3
    <3>2. cost' \in [Loops -> Nat] /\ charged' \in [Loops -> Nat] /\ usage' \in [Loops -> Nat]
        BY <2>3, <2>4
    <3>3. /\ turn' \in [Loops -> 0 .. MaxTurns] /\ tools' \in [Loops -> BOOLEAN]
          /\ outcome' \in [Loops -> Outcomes] /\ billed' \in [Loops -> Nat]
          /\ started' \subseteq Children /\ ctxDone' \in BOOLEAN
        BY <2>3
    <3> QED BY <3>1, <3>2, <3>3
  <2>6. History(l)'
      BY <2>2, <2>3
  <2>7. l # Parent => Paid(l)'
      BY <2>3
  <2>8. /\ OthersStay(l) /\ UNCHANGED started
        /\ pc[l] \notin {"idle", "tools", "returned"}
        /\ \A k \in Loops \ {l} : pc'[k] = pc[k]
      BY <2>3
  <2> QED BY <2>5, <2>6, <2>7, <2>8
<1>7. CASE Emit(l)
    BY <1>7 DEF Emit
<1>8. CASE EmitResults(l)
    BY <1>8 DEF EmitResults
<1>9. ASSUME NEW c \in Costs, NEW t \in BOOLEAN, StreamEnds(l, c, t) PROVE Goal
  <2> DEFINE p == IF l = Parent THEN "postSampling" ELSE "account"
  <2>1. /\ pc[l] \in {"stream", "fallback"} /\ pc' = [pc EXCEPT ![l] = p]
        /\ usage' = [usage EXCEPT ![l] = c] /\ tools' = [tools EXCEPT ![l] = t]
        /\ billed' = [billed EXCEPT ![l] = billed[l] + c]
        /\ UNCHANGED <<turn, messages, outcome, started, cost, ctxDone, charged>>
      BY <1>9 DEF StreamEnds
  <2>2. c \in Nat /\ billed[l] + c \in Nat /\ p \in Pcs
      OBVIOUS
  <2>3. TypeOK'
    <3>1. /\ usage' \in [Loops -> Nat] /\ billed' \in [Loops -> Nat]
          /\ tools' \in [Loops -> BOOLEAN] /\ pc' \in [Loops -> Pcs]
        BY <2>1, <2>2
    <3> QED BY <2>1, <3>1
  <2>4. History(l)'
      BY <2>1, <2>2
  <2>5. l # Parent => Paid(l)'
      BY <2>1, <2>2
  <2>6. /\ OthersStay(l) /\ UNCHANGED started
        /\ pc[l] \notin {"idle", "tools", "returned"}
        /\ \A k \in Loops \ {l} : pc'[k] = pc[k]
      BY <2>1
  <2> QED BY <2>3, <2>4, <2>5, <2>6
<1> QED BY <1>1, <1>2, <1>3, <1>4, <1>5, <1>6, <1>7, <1>8, <1>9 DEF Plain

\* The children a step starts have done nothing before.
LEMMA BeginToolsStep ==
  ASSUME Sizes, IInv, NEW l \in Loops, NEW K \in SUBSET Children, BeginTools(l, K)
  PROVE  IInv'
<1>1. K \subseteq Children \ started /\ (l # Parent => K = {}) /\ pc[l] = "beforeTools"
      /\ UNCHANGED <<turn, messages, tools, usage, cost, ctxDone, billed, charged>>
    BY DEF BeginTools, histVars
<1>2. CASE Refused(l) /\ UNCHANGED started
  <2>1. \E o \in {"cancelled", "budget"} : ReturnWith(l, o)
      BY <1>2 DEF Refused
  <2>2. PICK o \in {"cancelled", "budget"} : ReturnWith(l, o)
      BY <2>1
  <2>3. TypeOK'
      BY <1>1, <1>2, <2>2 DEF IInv, TypeOK, ReturnWith, Pcs, Outcomes
  <2>4. HistoryInv'
      BY <1>1, <2>2 DEF IInv, TypeOK, HistoryInv, ReturnWith, ClosedPcs
  <2>5. PaidInv' /\ JoinInv'
      BY <1>1, <1>2, <2>2 DEF IInv, TypeOK, PaidInv, JoinInv, ReturnWith, Loops
  <2> QED BY <2>3, <2>4, <2>5 DEF IInv
<1>3. CASE /\ pc' = [k \in Loops |-> IF k = l THEN "tools"
                                     ELSE IF k \in K THEN "begin" ELSE pc[k]]
           /\ started' = started \cup K /\ UNCHANGED outcome
  <2>1. TypeOK'
      BY <1>1, <1>3 DEF IInv, TypeOK, Pcs
  <2>2. \A k \in K : pc[k] = "idle" /\ pc'[k] = "begin"
      BY <1>1, <1>3 DEF IInv, PaidInv, Loops
  <2>3. pc'[l] = "tools" /\ \A k \in Loops \ ({l} \cup K) : pc'[k] = pc[k]
      BY <1>3
  <2>4. HistoryInv'
    <3>1. ASSUME NEW k \in Loops PROVE History(k)'
      <4>1. CASE k \in K
          BY <1>1, <1>3, <2>2, <4>1 DEF IInv, HistoryInv, History, ClosedPcs
      <4>2. CASE k \notin K
          BY <1>1, <1>3, <2>3, <4>2 DEF IInv, HistoryInv, History, ClosedPcs
      <4> QED BY <4>1, <4>2
    <3> QED BY <3>1 DEF HistoryInv, History
  <2>5. PaidInv'
      BY <1>1, <1>3, <2>2, <2>3 DEF IInv, PaidInv, Loops
  <2>6. JoinInv'
    <3>1. CASE l = Parent
        BY <2>3, <3>1 DEF JoinInv
    <3>2. CASE l # Parent
      <4>1. l \in Children /\ l \in started
          BY <1>1, <3>2 DEF IInv, PaidInv, Loops
      <4>2. pc[Parent] = "tools"
          BY <1>1, <4>1 DEF IInv, JoinInv
      <4> QED BY <1>1, <2>3, <3>2, <4>2 DEF JoinInv, Loops
    <3> QED BY <3>1, <3>2
  <2> QED BY <2>1, <2>4, <2>5, <2>6 DEF IInv
<1> QED BY <1>2, <1>3 DEF BeginTools

LEMMA EndToolsStep ==
  ASSUME Sizes, IInv, NEW l \in Loops, EndTools(l)
  PROVE  IInv'
<1>1. /\ pc[l] = "tools" /\ pc' = [pc EXCEPT ![l] = "emitResults"]
      /\ messages' = [messages EXCEPT ![l] = Append(messages[l], "results")]
      /\ UNCHANGED <<turn, tools, usage, outcome, started, cost, ctxDone, billed, charged>>
    BY DEF EndTools, WithResults, GoTo, histVars
<1>2. /\ Append(messages[l], "results") \in Seq(Kinds)
      /\ OpenAtEnd(messages[l]) => Closed(Append(messages[l], "results"))
  <2>1. messages[l] \in Seq(Kinds) /\ "results" \in Kinds
      BY DEF IInv, TypeOK, Kinds
  <2> QED BY <2>1, AppendCloses
<1>3. TypeOK'
  <2>1. messages' \in [Loops -> Seq(Kinds)] /\ pc' \in [Loops -> Pcs]
      BY <1>1, <1>2 DEF IInv, TypeOK, Pcs
  <2> QED BY <1>1, <2>1 DEF IInv, TypeOK
<1>4. HistoryInv'
  <2>1. History(l)'
      BY <1>1, <1>2 DEF IInv, TypeOK, HistoryInv, History, Closed
  <2>2. ASSUME NEW k \in Loops \ {l} PROVE History(k)'
      BY <1>1 DEF IInv, TypeOK, HistoryInv, History
  <2> QED BY <2>1, <2>2 DEF HistoryInv, History
<1>5. PaidInv'
    BY <1>1 DEF IInv, TypeOK, PaidInv, Loops
<1>6. JoinInv'
  <2>1. CASE l = Parent
      BY <1>1, <2>1 DEF IInv, TypeOK, Sizes, EndTools, ChildrenReturned, JoinInv, Loops
  <2>2. CASE l # Parent
    <3>1. l \in Children /\ l \in started
        BY <1>1, <2>2 DEF IInv, PaidInv, Loops
    <3>2. pc[Parent] = "tools"
        BY <1>1, <3>1 DEF IInv, JoinInv
    <3> QED BY <1>1, <2>2, <3>2 DEF IInv, TypeOK, JoinInv, Loops
  <2> QED BY <2>1, <2>2
<1> QED BY <1>3, <1>4, <1>5, <1>6 DEF IInv

LEMMA PlainCorrect ==
  ASSUME Sizes, IInv, NEW l \in Loops, Plain(l)
  PROVE  IInv'
<1>1. TypeOK /\ History(l) /\ (l # Parent => Paid(l))
    BY DEF IInv, HistoryInv, History, PaidInv, Paid, Loops
<1>2. /\ TypeOK' /\ History(l)' /\ (l # Parent => Paid(l)')
      /\ OthersStay(l) /\ UNCHANGED started
      /\ pc[l] \notin {"idle", "tools", "returned"}
      /\ \A k \in Loops \ {l} : pc'[k] = pc[k]
    BY <1>1, PlainStep
<1>3. HistoryInv'
  <2>1. ASSUME NEW k \in Loops \ {l} PROVE History(k)'
      BY <1>2 DEF IInv, HistoryInv, History, OthersStay
  <2> QED BY <1>2, <2>1 DEF HistoryInv, History
<1>4. PaidInv'
  <2>1. ASSUME NEW k \in Children, k # l PROVE Paid(k)' /\ (k \notin started' => pc'[k] = "idle")
      BY <1>2, <2>1 DEF IInv, PaidInv, Paid, OthersStay, Loops
  <2>2. ASSUME l \in Children PROVE Paid(l)' /\ (l \notin started' => pc'[l] = "idle")
      BY <1>2, <2>2 DEF IInv, PaidInv, Sizes
  <2> QED BY <2>1, <2>2 DEF PaidInv, Paid
<1>5. JoinInv'
  <2>1. CASE l = Parent
      BY <1>2, <2>1 DEF IInv, TypeOK, Sizes, JoinInv, Loops
  <2>2. CASE l # Parent
    <3>1. l \in Children /\ l \in started
        BY <1>2, <2>2 DEF IInv, PaidInv, Loops
    <3>2. pc[Parent] = "tools"
        BY <1>2, <3>1 DEF IInv, JoinInv
    <3> QED BY <1>2, <2>2, <3>2 DEF JoinInv, Loops
  <2> QED BY <2>1, <2>2
<1> QED BY <1>2, <1>3, <1>4, <1>5 DEF IInv

-----------------------------------------------------------------------------
(***************************************************************************)
(* The budget.  What is billed is in the ledger or owed by a response not   *)
(* yet accounted, until the Run drops one; a loop may stream only when the  *)
(* ledger was under the budget, with fewer than InParallel others about.    *)
(***************************************************************************)
Streaming == {l \in Loops : pc[l] \in {"stream", "fallback"}}
Unpaid    == {l \in Loops : pc[l] \in {"postSampling", "account"}}

OwedInv ==
  /\ \A l \in Loops : usage[l] <= MostCostly /\ (l \notin Unpaid => usage[l] = 0)
  /\ cost[Parent] = SumFunction(charged)
  /\ pc[Parent] # "returned" => SumFunction(billed) = cost[Parent] + SumFunction(usage)

BilledInv ==
  SumFunction(billed) + Cardinality(Streaming) * MostCostly
    <= Limit - 1 + InParallel * MostCostly

BudgetInv == OwedInv /\ BilledInv

LEMMA LoopsFinite ==
  ASSUME Sizes
  PROVE  IsFiniteSet(Loops) /\ \A A \in SUBSET Loops : IsFiniteSet(A) /\ Cardinality(A) \in Nat
<1>1. IsFiniteSet(Loops)
  <2>1. Loops = Children \cup {Parent}
      BY DEF Loops
  <2> QED BY <2>1, FS_AddElement DEF Sizes
<1> QED BY <1>1, FS_Subset, FS_CardinalityType

LEMMA BoundTypes ==
  ASSUME Sizes
  PROVE  /\ MostCostly \in Nat /\ Limit + MostCostly > 0 /\ \A c \in Costs : c <= MostCostly
         /\ InParallel \in Nat /\ InParallel >= 1
<1>1. MostCostly \in Costs /\ \A c \in Costs : c <= MostCostly
    BY DEF Sizes, MostCostly
<1>2. Children # {} => Cardinality(Children) \in Nat /\ Cardinality(Children) # 0
    BY FS_EmptySet, FS_CardinalityType DEF Sizes
<1> QED BY <1>1, <1>2 DEF Sizes, InParallel

LEMMA Products ==
  ASSUME NEW n \in Nat, NEW k \in Nat, NEW m \in Nat, n <= k
  PROVE  (n + 1) * m = n * m + m /\ n * m \in Nat /\ n * m <= k * m
<1>1. (n + 1) * m = n * m + m /\ n * m \in Nat
    OBVIOUS
<1>2. PICK d \in Nat : k = n + d
  <2>1. k - n \in Nat /\ k = n + (k - n)
      OBVIOUS
  <2> QED BY <2>1
<1>3. k * m = n * m + d * m /\ d * m \in Nat
    BY <1>2
<1> QED BY <1>1, <1>3

LEMMA LedgersTyped ==
  ASSUME Sizes, TypeOK
  PROVE  /\ SumFunction(billed) \in Int /\ SumFunction(charged) \in Int
         /\ SumFunction(usage) \in Int /\ Parent \in Loops /\ cost[Parent] \in Nat
<1>1. billed \in [Loops -> Int] /\ charged \in [Loops -> Int] /\ usage \in [Loops -> Int]
    BY DEF TypeOK
<1> QED BY <1>1, LoopsFinite, SumType DEF TypeOK, Loops

LEMMA BudgetInit == ASSUME Sizes, Init PROVE BudgetInv
<1> DEFINE zero == [l \in Loops |-> 0]
<1>1. SumFunction(zero) = 0
  <2>1. zero \in [Loops -> Nat] /\ \A x \in Loops : zero[x] <= 0 /\ zero[x] = 0
      OBVIOUS
  <2>2. Cardinality({}) = 0 /\ {} \in SUBSET Loops /\ 0 * 0 = 0
      BY FS_EmptySet
  <2> HIDE DEF zero
  <2>3. SumFunction(zero) \in Nat /\ SumFunction(zero) <= Cardinality({}) * 0
      BY <2>1, <2>2, LoopsFinite, SumBounded
  <2> QED BY <2>2, <2>3
<1>2. /\ billed = zero /\ charged = zero /\ usage = zero /\ cost[Parent] = 0
      /\ \A l \in Loops : usage[l] = 0
    BY DEF Init, Loops
<1>3. Cardinality(Streaming) = 0
  <2>1. Streaming = {}
      BY DEF Init, Streaming
  <2> QED BY <2>1, FS_EmptySet
<1> HIDE DEF zero
<1>4. 0 * MostCostly = 0 /\ 1 * MostCostly = MostCostly /\ 1 * MostCostly <= InParallel * MostCostly
    BY BoundTypes, Products
<1>5. OwedInv
    BY <1>1, <1>2, BoundTypes DEF OwedInv
<1>6. BilledInv
    BY <1>1, <1>2, <1>3, <1>4, BoundTypes DEF BilledInv, Sizes
<1> QED BY <1>5, <1>6 DEF BudgetInv

\* A loop that runs finds the Run, which waits for it, still there.
LEMMA RunStays ==
  ASSUME Sizes, IInv, NEW l \in Loops, pc[l] \notin {"idle", "returned"}
  PROVE  pc[Parent] # "returned" /\ (l # Parent => pc[Parent] = "tools")
BY DEF IInv, PaidInv, JoinInv, Loops

\* The loops about when one is at the top of a turn.
LEMMA InParallelBounds ==
  ASSUME Sizes, IInv, NEW l \in Loops, pc[l] = "top"
  PROVE  Cardinality(Streaming) + Cardinality(Unpaid) + 1 <= InParallel
<1>1. CASE l = Parent
  <2>1. \A k \in Children : pc[k] \in {"idle", "returned"}
      BY <1>1 DEF IInv, PaidInv, JoinInv
  <2>2. Streaming = {} /\ Unpaid = {}
      BY <1>1, <2>1 DEF Streaming, Unpaid, Loops
  <2>3. Cardinality(Streaming) = 0 /\ Cardinality(Unpaid) = 0
      BY <2>2, FS_EmptySet
  <2> QED BY <2>3, BoundTypes
<1>2. CASE l # Parent
  <2>1. l \in Children /\ pc[Parent] = "tools"
      BY <1>2, RunStays DEF Loops
  <2>2. Streaming \cup Unpaid \subseteq Children \ {l} /\ Streaming \cap Unpaid = {}
      BY <2>1 DEF Streaming, Unpaid, Loops
  <2>3. /\ IsFiniteSet(Children \ {l})
        /\ Cardinality(Children \ {l}) = Cardinality(Children) - 1
      BY <2>1, FS_RemoveElement DEF Sizes
  <2>4. Cardinality(Streaming \cup Unpaid) <= Cardinality(Children) - 1
      BY <2>2, <2>3, FS_Subset
  <2>5. IsFiniteSet(Streaming) /\ IsFiniteSet(Unpaid)
      BY LoopsFinite DEF Streaming, Unpaid
  <2>6. Cardinality(Streaming \cup Unpaid) = Cardinality(Streaming) + Cardinality(Unpaid)
    <3>1. /\ Cardinality(Streaming) \in Nat /\ Cardinality(Unpaid) \in Nat
          /\ Cardinality(Streaming \cap Unpaid) = 0
        BY <2>2, <2>5, FS_CardinalityType, FS_EmptySet
    <3>2. Cardinality(Streaming \cup Unpaid)
            = Cardinality(Streaming) + Cardinality(Unpaid) - Cardinality(Streaming \cap Unpaid)
        BY <2>5, FS_Union
    <3> QED BY <3>1, <3>2
  <2>7. InParallel = Cardinality(Children) /\ Cardinality(Children) \in Nat
      BY <2>1, FS_CardinalityType DEF InParallel, Sizes
  <2> QED BY <2>4, <2>6, <2>7, LoopsFinite DEF Streaming, Unpaid
<1> QED BY <1>1, <1>2

\* A loop is admitted: the ledger is under the budget, and what is owed is at
\* most one response for each loop that has one.
LEMMA AdmissionPays ==
  ASSUME Sizes, IInv, BudgetInv, NEW l \in Loops, pc[l] = "top", cost[Parent] < Limit,
         UNCHANGED <<billed, charged, usage, cost>>, Streaming' = Streaming \cup {l},
         UNCHANGED Unpaid, pc'[Parent] # "returned"
  PROVE  BudgetInv'
<1> DEFINE s == Cardinality(Streaming)
           u == Cardinality(Unpaid)
           m == MostCostly
<1>1. s \in Nat /\ u \in Nat /\ m \in Nat /\ InParallel \in Nat /\ s + u + 1 <= InParallel
    BY LoopsFinite, BoundTypes, InParallelBounds DEF Streaming, Unpaid
<1>2. Cardinality(Streaming') = s + 1
  <2>1. l \notin Streaming /\ IsFiniteSet(Streaming)
      BY LoopsFinite DEF Streaming
  <2> QED BY <2>1, FS_AddElement
<1>3. SumFunction(usage) \in Nat /\ SumFunction(usage) <= u * m
  <2>1. Unpaid \in SUBSET Loops /\ usage \in [Loops -> Nat]
      BY DEF Unpaid, IInv, TypeOK
  <2>2. \A x \in Loops : usage[x] <= m /\ (x \notin Unpaid => usage[x] = 0)
      BY DEF BudgetInv, OwedInv
  <2> QED BY <1>1, <2>1, <2>2, LoopsFinite, SumBounded
<1>4. SumFunction(billed) = cost[Parent] + SumFunction(usage)
    BY RunStays DEF BudgetInv, OwedInv
<1>5. SumFunction(billed) + (s + 1) * m <= Limit - 1 + InParallel * m
  <2>1. (u + (s + 1)) * m = u * m + (s + 1) * m /\ (u + (s + 1)) * m <= InParallel * m
      BY <1>1, Products
  <2>2. u * m \in Nat /\ (s + 1) * m \in Nat /\ InParallel * m \in Nat
      BY <1>1
  <2>3. cost[Parent] \in Nat /\ Limit \in Nat
      BY LedgersTyped DEF IInv, Sizes
  <2> HIDE DEF s, u, m
  <2> QED BY <1>3, <1>4, <2>1, <2>2, <2>3
<1>6. OwedInv'
    BY <1>4 DEF BudgetInv, OwedInv
<1> QED BY <1>2, <1>5, <1>6 DEF BudgetInv, BilledInv

\* A response completes: one stream less, and what it costs is owed.
Completes(l, c) ==
  /\ billed' = [billed EXCEPT ![l] = billed[l] + c]
  /\ usage' = [usage EXCEPT ![l] = c]
  /\ UNCHANGED <<charged, cost>>
  /\ Streaming' = Streaming \ {l} /\ Unpaid' = Unpaid \cup {l}

LEMMA ResponsePays ==
  ASSUME Sizes, IInv, BudgetInv, NEW l \in Streaming, NEW c \in Costs, Completes(l, c)
  PROVE  BudgetInv'
<1>1. /\ l \in Loops /\ usage[l] = 0 /\ c \in Nat /\ c <= MostCostly
      /\ pc[Parent] # "returned"
  <2>1. l \in Loops /\ l \notin Unpaid /\ pc[l] \in {"stream", "fallback"}
      BY DEF Streaming, Unpaid
  <2> QED BY <2>1, BoundTypes, RunStays DEF BudgetInv, OwedInv, Sizes
<1>2. billed \in [Loops -> Int] /\ usage \in [Loops -> Int] /\ c \in Int
    BY <1>1 DEF IInv, TypeOK
<1>3. SumFunction(billed') = SumFunction(billed) + c
  <2>1. /\ billed' \in [Loops -> Int] /\ billed'[l] = billed[l] + c
        /\ \A x \in Loops \ {l} : billed'[x] = billed[x]
      BY <1>1, <1>2 DEF Completes
  <2> QED BY <1>1, <1>2, <2>1, LoopsFinite, SumChanged
<1>4. SumFunction(usage') = SumFunction(usage) + c
  <2>1. /\ usage' \in [Loops -> Int] /\ usage'[l] = usage[l] + c
        /\ \A x \in Loops \ {l} : usage'[x] = usage[x]
      BY <1>1, <1>2 DEF Completes
  <2> QED BY <1>1, <1>2, <2>1, LoopsFinite, SumChanged
<1>5. OwedInv'
  <2>1. \A k \in Loops : usage'[k] = IF k = l THEN c ELSE usage[k]
      BY <1>2 DEF Completes
  <2>2. \A k \in Loops : usage'[k] <= MostCostly /\ (k \notin Unpaid' => usage'[k] = 0)
      BY <1>1, <2>1 DEF BudgetInv, OwedInv, Completes
  <2>3. SumFunction(billed') = cost'[Parent] + SumFunction(usage')
      BY <1>1, <1>3, <1>4, LedgersTyped DEF BudgetInv, OwedInv, IInv, Completes
  <2> QED BY <2>2, <2>3 DEF BudgetInv, OwedInv, Completes
<1>6. BilledInv'
  <2> DEFINE s == Cardinality(Streaming')
             m == MostCostly
  <2>1. s \in Nat /\ Cardinality(Streaming) = s + 1
    <3>1. IsFiniteSet(Streaming) /\ Cardinality(Streaming) \in Nat
        BY LoopsFinite DEF Streaming
    <3>2. s = Cardinality(Streaming) - 1 /\ IsFiniteSet(Streaming')
        BY <3>1, FS_RemoveElement DEF Completes
    <3> QED BY <3>1, <3>2, FS_CardinalityType
  <2>2. (s + 1) * m = s * m + m /\ s * m \in Nat /\ m \in Nat /\ InParallel * m \in Nat
      BY <2>1, BoundTypes, Products
  <2>3. SumFunction(billed) + (s + 1) * m <= Limit - 1 + InParallel * m
      BY <2>1 DEF BudgetInv, BilledInv
  <2> HIDE DEF s, m
  <2>4. SumFunction(billed') + s * m <= Limit - 1 + InParallel * m
    <3>1. SumFunction(billed) \in Int /\ Limit \in Nat /\ c <= m
        BY <1>1, LedgersTyped DEF IInv, Sizes, m
    <3> QED BY <1>1, <1>3, <2>2, <2>3, <3>1
  <2> QED BY <2>4 DEF BilledInv, s, m
<1> QED BY <1>5, <1>6 DEF BudgetInv

\* It is accounted: what was owed is in the ledger.
Accounts(l) ==
  /\ charged' = [charged EXCEPT ![l] = charged[l] + usage[l]]
  /\ cost' = [cost EXCEPT ![Parent] = cost[Parent] + usage[l]]
  /\ usage' = [usage EXCEPT ![l] = 0]
  /\ UNCHANGED <<billed, Streaming>> /\ Unpaid' = Unpaid \ {l}

LEMMA AccountPays ==
  ASSUME Sizes, IInv, BudgetInv, NEW l \in Unpaid, Accounts(l)
  PROVE  BudgetInv'
<1>1. l \in Loops /\ usage[l] \in Nat /\ pc[Parent] # "returned"
  <2>1. l \in Loops /\ pc[l] \in {"postSampling", "account"}
      BY DEF Unpaid
  <2> QED BY <2>1, RunStays DEF IInv, TypeOK
<1>2. charged \in [Loops -> Int] /\ usage \in [Loops -> Int] /\ cost \in [Loops -> Nat]
      /\ Parent \in Loops /\ usage[l] \in Int
    BY <1>1 DEF IInv, TypeOK, Loops
<1>3. SumFunction(charged') = SumFunction(charged) + usage[l]
  <2>1. /\ charged' \in [Loops -> Int] /\ charged'[l] = charged[l] + usage[l]
        /\ \A x \in Loops \ {l} : charged'[x] = charged[x]
      BY <1>1, <1>2 DEF Accounts
  <2> QED BY <1>1, <1>2, <2>1, LoopsFinite, SumChanged
<1>4. SumFunction(usage') = SumFunction(usage) - usage[l]
  <2>1. /\ usage' \in [Loops -> Int] /\ usage[l] = usage'[l] + usage[l]
        /\ \A x \in Loops \ {l} : usage[x] = usage'[x]
      BY <1>1, <1>2 DEF Accounts
  <2>2. SumFunction(usage) = SumFunction(usage') + usage[l] /\ SumFunction(usage') \in Int
      BY <1>1, <1>2, <2>1, LoopsFinite, SumChanged, SumType
  <2> QED BY <1>1, <2>2
<1>5. cost'[Parent] = cost[Parent] + usage[l]
    BY <1>2 DEF Accounts
<1>6. OwedInv'
  <2>1. \A k \in Loops : usage'[k] = IF k = l THEN 0 ELSE usage[k]
      BY <1>2 DEF Accounts
  <2>2. \A k \in Loops : usage'[k] <= MostCostly /\ (k \notin Unpaid' => usage'[k] = 0)
      BY <2>1, BoundTypes DEF BudgetInv, OwedInv, Accounts
  <2>3. SumFunction(billed') = cost'[Parent] + SumFunction(usage')
      BY <1>1, <1>4, <1>5, LedgersTyped DEF BudgetInv, OwedInv, IInv, Accounts
  <2>4. cost'[Parent] = SumFunction(charged')
      BY <1>3, <1>5 DEF BudgetInv, OwedInv
  <2> QED BY <2>2, <2>3, <2>4 DEF OwedInv
<1> QED BY <1>6 DEF BudgetInv, BilledInv, Accounts

\* The Run drops its response: nothing is streamed or charged afterwards.
LEMMA DropPays ==
  ASSUME Sizes, IInv, BudgetInv, NEW l \in Loops, usage' = [usage EXCEPT ![l] = 0],
         UNCHANGED <<billed, charged, cost, Streaming>>, Unpaid' = Unpaid \ {l},
         pc'[Parent] = "returned"
  PROVE  BudgetInv'
<1>1. \A k \in Loops : usage'[k] = IF k = l THEN 0 ELSE usage[k]
    BY DEF IInv, TypeOK
<1> QED BY <1>1, BoundTypes DEF BudgetInv, OwedInv, BilledInv

\* No other step touches the ledgers, or begins to stream.
LEMMA QuietPays ==
  ASSUME Sizes, IInv, BudgetInv, UNCHANGED <<billed, charged, cost, usage, Unpaid>>,
         Streaming' \subseteq Streaming, pc[Parent] = "returned" => pc'[Parent] = "returned"
  PROVE  BudgetInv'
<1>1. OwedInv'
    BY DEF BudgetInv, OwedInv
<1>2. Cardinality(Streaming') \in Nat /\ Cardinality(Streaming') <= Cardinality(Streaming)
      /\ Cardinality(Streaming) \in Nat
    BY LoopsFinite, FS_Subset DEF Streaming
<1>3. Cardinality(Streaming') * MostCostly <= Cardinality(Streaming) * MostCostly
      /\ Cardinality(Streaming') * MostCostly \in Nat
      /\ Cardinality(Streaming) * MostCostly \in Nat
    BY <1>2, BoundTypes, Products
<1>4. SumFunction(billed) \in Int /\ Limit \in Nat /\ InParallel * MostCostly \in Nat
    BY LedgersTyped, BoundTypes DEF IInv, Sizes
<1>5. BilledInv'
    BY <1>3, <1>4 DEF BudgetInv, BilledInv
<1> QED BY <1>1, <1>5 DEF BudgetInv

LEMMA BudgetStep ==
  ASSUME Sizes, IInv, BudgetInv, NEW l \in Loops, runLoop(l)
  PROVE  BudgetInv'
<1>0. pc \in [Loops -> Pcs] /\ Parent \in Loops
    BY DEF IInv, TypeOK, Loops
<1> USE DEF GoTo, ReturnWith, Streaming, Unpaid, histVars
<1>1. CASE Begin(l) \/ TurnsEnd(l) \/ Emit(l) \/ EmitResults(l) \/ EndTools(l)
  <2>1. /\ pc[l] \in {"begin", "top", "emit", "emitResults", "tools"}
        /\ \E p \in {"top", "returned", "beforeTools", "emitResults"} : pc' = [pc EXCEPT ![l] = p]
        /\ UNCHANGED <<billed, charged, cost, usage>>
      BY <1>1 DEF Begin, TurnsEnd, Emit, EmitResults, EndTools
  <2> QED BY <1>0, <2>1, QuietPays
<1>2. CASE Admission(l)
  <2>1. pc[l] = "top" /\ UNCHANGED <<billed, charged, cost, usage>>
      BY <1>2 DEF Admission
  <2>2. CASE Refused(l)
    <3>1. pc' = [pc EXCEPT ![l] = "returned"]
        BY <2>2 DEF Refused
    <3> QED BY <1>0, <2>1, <3>1, QuietPays
  <2>3. CASE Admitted(l) /\ GoTo(l, "stream")
    <3>1. cost[Parent] < Limit
      <4>1. ~(cost[Parent] >= Limit)
          BY <2>3 DEF Admitted, OverBudget, LedgerOf
      <4> QED BY <4>1, LedgersTyped DEF IInv, Sizes
    <3>2. pc[Parent] # "returned"
        BY <2>1, RunStays
    <3>3. /\ Streaming' = Streaming \cup {l} /\ UNCHANGED Unpaid
          /\ pc'[Parent] # "returned"
        BY <1>0, <2>1, <2>3, <3>2
    <3> HIDE DEF Streaming, Unpaid
    <3> QED BY <2>1, <3>1, <3>3, AdmissionPays
  <2> QED BY <1>2, <2>2, <2>3 DEF Admission
<1>3. CASE StreamFails(l)
  <2>1. /\ pc[l] \in {"stream", "fallback"}
        /\ \E p \in {"fallback", "returned"} : pc' = [pc EXCEPT ![l] = p]
        /\ UNCHANGED <<billed, charged, cost, usage>>
      BY <1>3 DEF StreamFails
  <2> QED BY <1>0, <2>1, QuietPays
<1>4. CASE PostSampling(l)
  <2>1. l = Parent /\ pc[l] = "postSampling" /\ UNCHANGED <<billed, charged, cost>>
      BY <1>4 DEF PostSampling, IInv, PaidInv, Loops
  <2>2. CASE GoTo(l, "account") /\ UNCHANGED usage
      BY <1>0, <2>1, <2>2, QuietPays
  <2>3. CASE ReturnWith(l, "error") /\ usage' = [usage EXCEPT ![l] = 0]
    <3>1. Streaming' = Streaming /\ Unpaid' = Unpaid \ {l} /\ pc'[Parent] = "returned"
        BY <1>0, <2>1, <2>3
    <3> HIDE DEF Streaming, Unpaid
    <3> QED BY <2>1, <2>3, <3>1, DropPays
  <2> QED BY <1>4, <2>2, <2>3 DEF PostSampling
<1>5. CASE Account(l)
  <2>1. /\ l \in Unpaid /\ Streaming' = Streaming /\ Unpaid' = Unpaid \ {l}
        /\ charged' = [charged EXCEPT ![l] = charged[l] + usage[l]]
        /\ cost' = [cost EXCEPT ![Parent] = cost[Parent] + usage[l]]
        /\ usage' = [usage EXCEPT ![l] = 0] /\ UNCHANGED billed
      BY <1>0, <1>5, AccountEffect
  <2> HIDE DEF Streaming, Unpaid
  <2> QED BY <2>1, AccountPays DEF Accounts
<1>6. ASSUME NEW c \in Costs, NEW t \in BOOLEAN, StreamEnds(l, c, t) PROVE BudgetInv'
  <2>1. /\ l \in Streaming /\ Streaming' = Streaming \ {l} /\ Unpaid' = Unpaid \cup {l}
        /\ billed' = [billed EXCEPT ![l] = billed[l] + c]
        /\ usage' = [usage EXCEPT ![l] = c] /\ UNCHANGED <<charged, cost>>
      BY <1>0, <1>6 DEF StreamEnds
  <2> HIDE DEF Streaming, Unpaid
  <2> QED BY <2>1, ResponsePays DEF Completes
<1>7. ASSUME NEW K \in SUBSET Children, BeginTools(l, K) PROVE BudgetInv'
  <2>1. pc[l] = "beforeTools" /\ UNCHANGED <<billed, charged, cost, usage>>
        /\ K \subseteq Children \ started
      BY <1>7 DEF BeginTools
  <2>2. \A k \in K : pc[k] = "idle" /\ k # Parent
      BY <2>1 DEF IInv, PaidInv, Sizes
  <2>3. \A k \in Loops :
          pc'[k] = pc[k] \/ (/\ pc[k] \in {"idle", "beforeTools"}
                            /\ pc'[k] \in {"begin", "tools", "returned"})
    <3> HIDE DEF Streaming, Unpaid
    <3>1. CASE pc' = [k \in Loops |-> IF k = l THEN "tools" ELSE IF k \in K THEN "begin" ELSE pc[k]]
        BY <2>1, <2>2, <3>1
    <3>2. CASE Refused(l)
        BY <1>0, <2>1, <3>2 DEF Refused
    <3> QED BY <1>7, <3>1, <3>2 DEF BeginTools
  <2>4. Streaming' = Streaming /\ Unpaid' = Unpaid /\ (pc[Parent] = "returned" => pc'[Parent] = "returned")
      BY <1>0, <2>3
  <2> QED BY <2>1, <2>4, QuietPays
<1> QED BY <1>1, <1>2, <1>3, <1>4, <1>5, <1>6, <1>7 DEF runLoop

-----------------------------------------------------------------------------
LEMMA NextCorrect == ASSUME Sizes, IInv, [Next]_vars PROVE IInv'
<1>1. ASSUME NEW l \in Loops, runLoop(l) PROVE IInv'
  <2>1. ASSUME NEW K \in SUBSET Children, BeginTools(l, K) PROVE IInv'
      BY <2>1, BeginToolsStep
  <2> QED BY <1>1, <2>1, EndToolsStep, PlainCorrect DEF runLoop, Plain
<1>2. CASE Cancel
    BY <1>2 DEF Cancel, loopVars, histVars, IInv, TypeOK, HistoryInv, PaidInv, JoinInv
<1>3. CASE UNCHANGED vars
    BY <1>3 DEF vars, loopVars, histVars, IInv, TypeOK, HistoryInv, PaidInv, JoinInv
<1> QED BY <1>1, <1>2, <1>3 DEF Next

LEMMA BudgetNext == ASSUME Sizes, IInv, BudgetInv, [Next]_vars PROVE BudgetInv'
<1>1. CASE Cancel \/ UNCHANGED vars
  <2>1. UNCHANGED <<pc, usage, cost, billed, charged>>
      BY <1>1 DEF Cancel, vars, loopVars, histVars
  <2>2. UNCHANGED <<Streaming, Unpaid>>
      BY <2>1 DEF Streaming, Unpaid
  <2> QED BY <2>1, <2>2 DEF BudgetInv, OwedInv, BilledInv
<1> QED BY <1>1, BudgetStep DEF Next

-----------------------------------------------------------------------------
(* What the invariants mean of a state                                      *)
LEMMA HistoryMeans == ASSUME IInv PROVE ResultsFollow
<1> SUFFICES ASSUME NEW l \in Loops
             PROVE  LET h == messages[l]
                        open == {k \in DOMAIN h : h[k] = "tool_use"
                                           /\ ~(k < Len(h) /\ h[k + 1] = "results")}
                    IN  /\ open \subseteq {Len(h)}
                        /\ outcome[l] \in {"success", "max_turns", "error"} => open = {}
    BY DEF ResultsFollow
<1> DEFINE h == messages[l]
           open == {k \in DOMAIN h : h[k] = "tool_use" /\ ~(k < Len(h) /\ h[k + 1] = "results")}
<1>1. DOMAIN h = 1 .. Len(h) /\ Len(h) \in Nat
    BY LenProperties DEF IInv, TypeOK
<1>2. OpenAtEnd(h) /\ (outcome[l] \in {"success", "max_turns", "error"} => Closed(h))
    BY DEF IInv, HistoryInv
<1> HIDE DEF h
<1>3. open \subseteq {Len(h)}
    BY <1>1, <1>2 DEF OpenAtEnd
<1>4. Closed(h) => open = {}
    BY <1>1, <1>3 DEF Closed
<1> QED BY <1>2, <1>3, <1>4 DEF h

LEMMA ChildrenMeans == ASSUME IInv, BudgetInv PROVE ChildrenCharged
<1>1. ASSUME pc[Parent] = "emitResults", NEW k \in started
      PROVE  charged[k] = billed[k] /\ outcome[k] # "none"
  <2>1. k \in Children /\ k \in Loops /\ pc[k] = "returned"
      BY <1>1 DEF IInv, TypeOK, JoinInv, Loops
  <2>2. outcome[k] # "none"
      BY <2>1 DEF IInv, HistoryInv
  <2>3. usage[k] = 0 /\ billed[k] = charged[k] + usage[k]
      BY <2>1 DEF IInv, PaidInv
  <2>4. charged[k] \in Nat
      BY <2>1 DEF IInv, TypeOK
  <2> QED BY <2>2, <2>3, <2>4
<1> QED BY <1>1 DEF ChildrenCharged, ChildrenPaid, BudgetInv, OwedInv

LEMMA BudgetMeans == ASSUME Sizes, IInv, BudgetInv PROVE OvershootBounded
<1>1. Cardinality(Streaming) * MostCostly \in Nat /\ InParallel * MostCostly \in Nat
  <2>1. Cardinality(Streaming) \in Nat
      BY LoopsFinite DEF Streaming
  <2> QED BY <2>1, BoundTypes, Products
<1>2. SumFunction(billed) \in Int /\ Limit \in Nat
    BY LedgersTyped DEF IInv, Sizes
<1> QED BY <1>1, <1>2 DEF BudgetInv, BilledInv, OvershootBounded

-----------------------------------------------------------------------------
\* The inductive invariant holds of every behaviour of the loops.
THEOREM Invariance == ASSUME Sizes PROVE Spec => [](IInv /\ BudgetInv)
<1>1. Init => IInv /\ BudgetInv
    BY InitCorrect, BudgetInit
<1>2. IInv /\ BudgetInv /\ [Next]_vars => IInv' /\ BudgetInv'
    BY NextCorrect, BudgetNext
<1> QED BY <1>1, <1>2, PTL DEF Spec

\* No loop takes more turns than it may, and every variable has its type.
THEOREM TypeCorrect == ASSUME Sizes PROVE Spec => []TypeOK
<1>1. IInv => TypeOK
    BY DEF IInv
<1> QED BY <1>1, Invariance, PTL

\* In every history, of the Run and of each child, results follow the tool
\* calls; only the last call of a loop that was stopped stays open (runLoop).
THEOREM HistoryCorrect == ASSUME Sizes PROVE Spec => []ResultsFollow
<1> QED BY HistoryMeans, Invariance, PTL

\* When the tools of a Run are done, its ledger has been charged with every
\* response of every child, whatever the child's end (spawnSubagent), and it
\* is always the sum of what its loops were charged.
THEOREM ChildrenCorrect == ASSUME Sizes PROVE Spec => []ChildrenCharged
<1> QED BY ChildrenMeans, Invariance, PTL

\* What the Run and its children spend together passes the budget by at most
\* one response of each loop that can be in flight at once: the admission of a
\* turn (checkAdmission) reads a ledger that lacks what the others owe.
THEOREM BudgetCorrect == ASSUME Sizes PROVE Spec => []OvershootBounded
<1> QED BY BudgetMeans, Invariance, PTL
=============================================================================
