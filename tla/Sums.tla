---------------------------------- MODULE Sums ----------------------------------
(***************************************************************************)
(* Facts about sums over finite sets, for the proofs about pools that must *)
(* hold what the entries of a mapping add up to.  A sum is the fold        *)
(* MapThenSumSet, which takes the elements out in an arbitrary but fixed   *)
(* order; the lemmas show that the order does not matter.  They are proved *)
(* by taking a smallest subset for which a fact fails: strict inclusion    *)
(* between the subsets of a finite set is well-founded.                    *)
(***************************************************************************)
EXTENDS Integers, FiniteSets, FiniteSetsExt, FiniteSetTheorems, TLAPS

\* The sum of f[x] over the elements x of S.
SumOver(f, S) == MapThenSumSet(LAMBDA x : f[x], S)

\* The element a fold takes out first.
Pick(s) == CHOOSE x \in s : TRUE

\* g sums f over every subset of S, taking out one element at a time.
Sums(g, f, S) ==
    g = [s \in SUBSET S |-> IF s = {} THEN 0 ELSE f[Pick(s)] + g[s \ {Pick(s)}]]

Summand(f, S) == \A x \in S : f[x] \in Int

\* Every set of subsets of a finite set has a minimal element.
LEMMA MinimalSubset ==
    ASSUME NEW S, IsFiniteSet(S), NEW T \in SUBSET (SUBSET S), T # {}
    PROVE  \E A \in T : \A B \in T : B \subseteq A => B = A
  <1>1. IsWellFoundedOn(StrictSubsetOrdering(S), SUBSET S)
    BY FS_FiniteSubsetsOfFinite, FS_StrictSubsetOrderingWellFounded
  <1>2. \E A \in T : \A B \in T : <<B, A>> \notin StrictSubsetOrdering(S)
    BY <1>1, WFMin
  <1> QED
    BY <1>2 DEF StrictSubsetOrdering

\* SumOver is the last value of a function that sums over all subsets.
LEMMA SumIsChosen == ASSUME NEW f, NEW S PROVE SumOver(f, S) = (CHOOSE g : Sums(g, f, S))[S]
  BY DEF SumOver, MapThenSumSet, MapThenFoldSet, Sums, Pick

\* Two functions that sum f agree on the subsets they share.
LEMMA SumsUnique ==
    ASSUME NEW f, NEW S, IsFiniteSet(S), NEW T, IsFiniteSet(T), NEW g, NEW h,
           Sums(g, f, S), Sums(h, f, T), NEW A \in SUBSET S, A \in SUBSET T
    PROVE  g[A] = h[A]
  <1> SUFFICES ASSUME g[A] # h[A] PROVE FALSE
    OBVIOUS
  <1> DEFINE Bad == {B \in SUBSET S : B \in SUBSET T /\ g[B] # h[B]}
  <1>0. Bad \in SUBSET (SUBSET S) /\ A \in Bad
    OBVIOUS
  <1>1. PICK B \in Bad : \A C \in Bad : C \subseteq B => C = B
    <2> HIDE DEF Bad
    <2> QED
      BY <1>0, MinimalSubset
  <1>2. CASE B = {}
    BY <1>1, <1>2 DEF Sums
  <1>3. CASE B # {}
    <2>1. Pick(B) \in B
      BY <1>3 DEF Pick
    <2>2. B \ {Pick(B)} \notin Bad
      BY <1>1, <2>1
    <2>3. g[B \ {Pick(B)}] = h[B \ {Pick(B)}]
      BY <2>2
    <2>4. g[B] = f[Pick(B)] + g[B \ {Pick(B)}]
      BY <1>3 DEF Sums
    <2>5. h[B] = f[Pick(B)] + h[B \ {Pick(B)}]
      BY <1>3 DEF Sums
    <2> QED
      BY <2>3, <2>4, <2>5
  <1> QED
    BY <1>2, <1>3

\* The subsets of a finite set can be summed over.
LEMMA SumsExist ==
    ASSUME NEW f, NEW S, IsFiniteSet(S)
    PROVE  \A A \in SUBSET S : \E g : Sums(g, f, A)
  <1> SUFFICES ASSUME NEW U \in SUBSET S, ~ \E g : Sums(g, f, U) PROVE FALSE
    OBVIOUS
  <1> DEFINE Bad == {A \in SUBSET S : ~ \E g : Sums(g, f, A)}
  <1>0. Bad \in SUBSET (SUBSET S) /\ U \in Bad
    OBVIOUS
  <1>1. PICK A \in Bad : \A C \in Bad : C \subseteq A => C = A
    <2> HIDE DEF Bad
    <2> QED
      BY <1>0, MinimalSubset
  <1>2. \A C \in SUBSET S : IsFiniteSet(C)
    BY FS_Subset
  <1>3. \A C \in SUBSET A : C # A => \E g : Sums(g, f, C)
    BY <1>1
  \* Sum each subset with the sums of the subset without its first element.
  <1> DEFINE smaller(C) == CHOOSE g : Sums(g, f, C)
             total == [C \in SUBSET A |->
                        IF C = {} THEN 0
                        ELSE f[Pick(C)] + smaller(C \ {Pick(C)})[C \ {Pick(C)}]]
  <1>4. \A C \in SUBSET A : C # A => Sums(smaller(C), f, C)
    BY <1>3
  <1> HIDE DEF smaller
  <1>5. ASSUME NEW C \in SUBSET A, C # A
        PROVE  total[C] = smaller(C)[C]
    <2>1. Sums(smaller(C), f, C)
      BY <1>4, <1>5
    <2>2. CASE C = {}
      BY <2>1, <2>2 DEF Sums
    <2>3. CASE C # {}
      <3> DEFINE D == C \ {Pick(C)}
      <3>1. Pick(C) \in C
        BY <2>3 DEF Pick
      <3>2. D \in SUBSET A /\ D # A /\ D \in SUBSET C /\ D \in SUBSET D
        BY <1>5, <3>1
      <3>3. Sums(smaller(D), f, D)
        BY <1>4, <3>2
      <3>4. IsFiniteSet(C) /\ IsFiniteSet(D)
        BY <1>2, <3>2
      <3> HIDE DEF D
      <3>5. smaller(C)[D] = smaller(D)[D]
        BY <2>1, <3>2, <3>3, <3>4, SumsUnique
      <3>6. smaller(C)[C] = f[Pick(C)] + smaller(C)[D]
        BY <2>1, <2>3 DEF Sums, D
      <3>7. total[C] = f[Pick(C)] + smaller(D)[D]
        BY <2>3 DEF D
      <3> QED
        BY <3>5, <3>6, <3>7
    <2> QED
      BY <2>2, <2>3
  <1>6. ASSUME NEW C \in SUBSET A, C # {}
        PROVE  total[C] = f[Pick(C)] + total[C \ {Pick(C)}]
    <2>1. Pick(C) \in C
      BY <1>6 DEF Pick
    <2>2. C \ {Pick(C)} \in SUBSET A /\ C \ {Pick(C)} # A
      BY <2>1
    <2> QED
      BY <1>5, <1>6, <2>2
  <1>7. total[{}] = 0 /\ total = [C \in SUBSET A |-> total[C]]
    OBVIOUS
  <1> HIDE DEF total
  <1>8. Sums(total, f, A)
    BY <1>6, <1>7 DEF Sums
  <1> QED
    BY <1>1, <1>8

\* The equation of the fold: no function is left to choose.
LEMMA SumEquation ==
    ASSUME NEW f, NEW S, IsFiniteSet(S)
    PROVE  SumOver(f, S) = IF S = {} THEN 0 ELSE f[Pick(S)] + SumOver(f, S \ {Pick(S)})
  <1>1. \A A : IsFiniteSet(A) => Sums(CHOOSE g : Sums(g, f, A), f, A)
    <2> SUFFICES ASSUME NEW A, IsFiniteSet(A) PROVE \E g : Sums(g, f, A)
      OBVIOUS
    <2>1. A \in SUBSET A
      OBVIOUS
    <2> QED
      BY <2>1, SumsExist
  <1>2. PICK g : Sums(g, f, S) /\ SumOver(f, S) = g[S]
    BY <1>1, SumIsChosen
  <1>3. PICK T \in SUBSET S : T = S \ {Pick(S)}
    OBVIOUS
  <1>4. IsFiniteSet(T)
    BY FS_Subset
  <1>5. PICK k : Sums(k, f, T) /\ SumOver(f, T) = k[T]
    BY <1>1, <1>4, SumIsChosen
  <1>6. g[T] = k[T]
    BY <1>2, <1>4, <1>5, SumsUnique
  <1>7. g[S] = IF S = {} THEN 0 ELSE f[Pick(S)] + g[T]
    BY <1>2, <1>3 DEF Sums
  <1> QED
    BY <1>2, <1>3, <1>5, <1>6, <1>7

(***************************************************************************)
(* What the proofs cite.                                                   *)
(***************************************************************************)

\* Induction over a finite set: Good holds of it when {} is good and a set is
\* good whenever all its proper subsets are.
LEMMA SubsetInduction ==
    ASSUME NEW S, IsFiniteSet(S), NEW Good,
           \A A \in SUBSET S :
              (\A B \in SUBSET A : B # A => B \in Good) => A \in Good
    PROVE  S \in Good
  <1> SUFFICES ASSUME S \notin Good PROVE FALSE
    OBVIOUS
  <1>1. PICK Bad \in SUBSET (SUBSET S) : Bad = {A \in SUBSET S : A \notin Good}
    OBVIOUS
  <1>2. S \in Bad
    BY <1>1
  <1>3. PICK A \in Bad : \A B \in Bad : B \subseteq A => B = A
    BY <1>2, MinimalSubset
  <1>4. \A B \in SUBSET A : B # A => B \in Good
    BY <1>1, <1>3
  <1> QED
    BY <1>1, <1>3, <1>4

\* The empty sum.
LEMMA SumEmpty == ASSUME NEW f PROVE SumOver(f, {}) = 0
  BY SumEquation, FS_EmptySet

\* A sum of integers is an integer.
LEMMA SumType ==
    ASSUME NEW f, NEW S, IsFiniteSet(S), Summand(f, S)
    PROVE  SumOver(f, S) \in Int
  <1> DEFINE Good == {A \in SUBSET S : SumOver(f, A) \in Int}
  <1>1. ASSUME NEW A \in SUBSET S, \A B \in SUBSET A : B # A => B \in Good
        PROVE  A \in Good
    <2>1. CASE A = {}
      BY <2>1, SumEmpty
    <2>2. CASE A # {}
      <3>1. Pick(A) \in A
        BY <2>2 DEF Pick
      <3>2. SumOver(f, A \ {Pick(A)}) \in Int
        BY <1>1, <3>1
      <3>3. SumOver(f, A) = f[Pick(A)] + SumOver(f, A \ {Pick(A)})
        BY <2>2, FS_Subset, SumEquation
      <3>4. f[Pick(A)] \in Int
        BY <3>1 DEF Summand
      <3> QED
        BY <3>2, <3>3, <3>4
    <2> QED
      BY <2>1, <2>2
  <1> HIDE DEF Good
  <1>2. S \in Good
    BY <1>1, SubsetInduction
  <1> QED
    BY <1>2 DEF Good

\* Any element may be taken out first.
LEMMA SumSplit ==
    ASSUME NEW f, NEW S, IsFiniteSet(S), Summand(f, S), NEW x \in S
    PROVE  SumOver(f, S) = f[x] + SumOver(f, S \ {x})
  <1> DEFINE Good == {A \in SUBSET S : \A y \in A : SumOver(f, A) = f[y] + SumOver(f, A \ {y})}
  <1>1. ASSUME NEW A \in SUBSET S, \A B \in SUBSET A : B # A => B \in Good
        PROVE  A \in Good
    <2> SUFFICES ASSUME NEW y \in A PROVE SumOver(f, A) = f[y] + SumOver(f, A \ {y})
      OBVIOUS
    <2>1. PICK p \in A : p = Pick(A)
      BY DEF Pick
    <2>2. ASSUME NEW B \in SUBSET A PROVE IsFiniteSet(B) /\ Summand(f, B) /\ SumOver(f, B) \in Int
      <3>1. IsFiniteSet(B)
        BY FS_Subset
      <3>2. Summand(f, B)
        BY DEF Summand
      <3> QED
        BY <3>1, <3>2, SumType
    <2>3. SumOver(f, A) = f[p] + SumOver(f, A \ {p})
      BY <2>1, <2>2, SumEquation
    <2>4. CASE y # p
      <3>1. A \ {p} \in Good /\ A \ {y} \in Good /\ y \in A \ {p} /\ p \in A \ {y}
        BY <1>1, <2>4
      <3>2. PICK R \in SUBSET A : R = (A \ {p}) \ {y} /\ R = (A \ {y}) \ {p}
        OBVIOUS
      <3>3. SumOver(f, A \ {p}) = f[y] + SumOver(f, R)
        BY <3>1, <3>2
      <3>4. SumOver(f, A \ {y}) = f[p] + SumOver(f, R)
        BY <3>1, <3>2
      <3>5. SumOver(f, R) \in Int /\ f[p] \in Int /\ f[y] \in Int
        BY <2>2 DEF Summand
      <3> HIDE DEF Good
      <3> QED
        BY <2>3, <3>3, <3>4, <3>5
    <2> QED
      BY <2>3, <2>4
  <1> HIDE DEF Good
  <1>2. S \in Good
    BY <1>1, SubsetInduction
  <1> QED
    BY <1>2 DEF Good

\* Sums of the same numbers are equal.
LEMMA SumSame ==
    ASSUME NEW f, NEW h, NEW S, IsFiniteSet(S), Summand(f, S), \A x \in S : h[x] = f[x]
    PROVE  SumOver(h, S) = SumOver(f, S)
  <1> DEFINE Good == {A \in SUBSET S : SumOver(h, A) = SumOver(f, A)}
  <1>1. ASSUME NEW A \in SUBSET S, \A B \in SUBSET A : B # A => B \in Good
        PROVE  A \in Good
    <2>1. CASE A = {}
      BY <2>1, SumEmpty
    <2>2. CASE A # {}
      <3>1. PICK p \in A : p = Pick(A)
        BY <2>2 DEF Pick
      <3>2. IsFiniteSet(A)
        BY FS_Subset
      <3>3. SumOver(h, A \ {p}) = SumOver(f, A \ {p})
        BY <1>1
      <3>4. /\ SumOver(f, A) = f[p] + SumOver(f, A \ {p})
            /\ SumOver(h, A) = h[p] + SumOver(h, A \ {p})
        BY <2>2, <3>1, <3>2, SumEquation
      <3> QED
        BY <3>3, <3>4
    <2> QED
      BY <2>1, <2>2
  <1> HIDE DEF Good
  <1>2. S \in Good
    BY <1>1, SubsetInduction
  <1> QED
    BY <1>2 DEF Good

\* Changing one number changes the sum by as much.
LEMMA SumChange ==
    ASSUME NEW f, NEW h, NEW S, IsFiniteSet(S), Summand(f, S), NEW x \in S, h[x] \in Int,
           \A y \in S : y # x => h[y] = f[y]
    PROVE  SumOver(h, S) = SumOver(f, S) - f[x] + h[x]
  <1>1. IsFiniteSet(S \ {x})
    BY FS_Subset
  <1>2. Summand(f, S \ {x}) /\ Summand(h, S)
    BY DEF Summand
  <1>3. SumOver(h, S \ {x}) = SumOver(f, S \ {x})
    BY <1>1, <1>2, SumSame
  <1>4. SumOver(f, S \ {x}) \in Int /\ f[x] \in Int
    BY <1>1, <1>2, SumType DEF Summand
  <1>5. SumOver(f, S) = f[x] + SumOver(f, S \ {x})
    BY SumSplit
  <1>6. SumOver(h, S) = h[x] + SumOver(h, S \ {x})
    BY <1>2, SumSplit
  <1> QED
    BY <1>3, <1>4, <1>5, <1>6

\* Multiplication distributes over a sum of two.
LEMMA Distributes ==
    ASSUME NEW c \in Int, NEW x \in Int, NEW y \in Int
    PROVE  c * (x + y) = c * x + c * y /\ c * x \in Int
  BY SMT

\* A sum is linear in its numbers.
LEMMA SumLinear ==
    ASSUME NEW f, NEW k, NEW h, NEW c \in Int, NEW S, IsFiniteSet(S),
           Summand(f, S), Summand(k, S), \A x \in S : h[x] = f[x] + c * k[x]
    PROVE  SumOver(h, S) = SumOver(f, S) + c * SumOver(k, S)
  <1> DEFINE Good == {A \in SUBSET S : SumOver(h, A) = SumOver(f, A) + c * SumOver(k, A)}
  <1>1. ASSUME NEW A \in SUBSET S, \A B \in SUBSET A : B # A => B \in Good
        PROVE  A \in Good
    <2>1. CASE A = {}
      BY <2>1, SumEmpty
    <2>2. CASE A # {}
      <3>1. PICK p \in A : p = Pick(A)
        BY <2>2 DEF Pick
      <3>2. PICK R \in SUBSET A : R = A \ {p}
        OBVIOUS
      <3>3. IsFiniteSet(A) /\ IsFiniteSet(R)
        BY FS_Subset
      <3>4. Summand(f, R) /\ Summand(k, R)
        BY DEF Summand
      <3>5. SumOver(h, R) = SumOver(f, R) + c * SumOver(k, R)
        BY <1>1, <3>2
      <3>6. /\ SumOver(f, A) = f[p] + SumOver(f, R)
            /\ SumOver(k, A) = k[p] + SumOver(k, R)
            /\ SumOver(h, A) = h[p] + SumOver(h, R)
        BY <2>2, <3>1, <3>2, <3>3, SumEquation
      <3>7. /\ SumOver(f, R) \in Int /\ SumOver(k, R) \in Int
            /\ f[p] \in Int /\ k[p] \in Int /\ h[p] = f[p] + c * k[p]
        BY <3>3, <3>4, SumType DEF Summand
      <3>8. c * (k[p] + SumOver(k, R)) = c * k[p] + c * SumOver(k, R)
            /\ c * k[p] \in Int /\ c * SumOver(k, R) \in Int
        BY <3>7, Distributes
      <3> QED
        BY <3>5, <3>6, <3>7, <3>8
    <2> QED
      BY <2>1, <2>2
  <1> HIDE DEF Good
  <1>2. S \in Good
    BY <1>1, SubsetInduction
  <1> QED
    BY <1>2 DEF Good

\* A scaled sum of smaller numbers is smaller.
LEMMA SumBound ==
    ASSUME NEW f, NEW h, NEW c \in Int, NEW S, IsFiniteSet(S),
           Summand(f, S), Summand(h, S), \A x \in S : c * f[x] <= h[x]
    PROVE  c * SumOver(f, S) <= SumOver(h, S)
  <1> DEFINE Good == {A \in SUBSET S : c * SumOver(f, A) <= SumOver(h, A)}
  <1>1. ASSUME NEW A \in SUBSET S, \A B \in SUBSET A : B # A => B \in Good
        PROVE  A \in Good
    <2>1. CASE A = {}
      BY <2>1, SumEmpty
    <2>2. CASE A # {}
      <3>1. PICK p \in A : p = Pick(A)
        BY <2>2 DEF Pick
      <3>2. PICK R \in SUBSET A : R = A \ {p}
        OBVIOUS
      <3>3. IsFiniteSet(A) /\ IsFiniteSet(R)
        BY FS_Subset
      <3>4. Summand(f, R) /\ Summand(h, R)
        BY DEF Summand
      <3>5. c * SumOver(f, R) <= SumOver(h, R)
        BY <1>1, <3>2
      <3>6. /\ SumOver(f, A) = f[p] + SumOver(f, R)
            /\ SumOver(h, A) = h[p] + SumOver(h, R)
        BY <2>2, <3>1, <3>2, <3>3, SumEquation
      <3>7. /\ SumOver(f, R) \in Int /\ SumOver(h, R) \in Int
            /\ f[p] \in Int /\ h[p] \in Int /\ c * f[p] <= h[p]
        BY <3>3, <3>4, SumType DEF Summand
      <3>8. c * (f[p] + SumOver(f, R)) = c * f[p] + c * SumOver(f, R)
            /\ c * f[p] \in Int /\ c * SumOver(f, R) \in Int
        BY <3>7, Distributes
      <3> QED
        BY <3>5, <3>6, <3>7, <3>8
    <2> QED
      BY <2>1, <2>2
  <1> HIDE DEF Good
  <1>2. S \in Good
    BY <1>1, SubsetInduction
  <1> QED
    BY <1>2 DEF Good

\* Of naturals, a sum is a natural and at least as large as each of them.
LEMMA SumNat ==
    ASSUME NEW f, NEW S, IsFiniteSet(S), \A x \in S : f[x] \in Nat
    PROVE  SumOver(f, S) \in Nat /\ \A x \in S : f[x] <= SumOver(f, S)
  <1>1. \A A : A \in SUBSET S => SumOver(f, A) \in Int /\ SumOver(f, A) >= 0
    <2> SUFFICES ASSUME NEW A \in SUBSET S
                 PROVE  SumOver(f, A) \in Int /\ SumOver(f, A) >= 0
      OBVIOUS
    <2>1. IsFiniteSet(A)
      BY FS_Subset
    <2>2. Summand(f, A) /\ \A x \in A : 0 * f[x] <= f[x]
      BY DEF Summand
    <2>3. SumOver(f, A) \in Int
      BY <2>1, <2>2, SumType
    <2>4. 0 * SumOver(f, A) <= SumOver(f, A)
      BY <2>1, <2>2, SumBound
    <2> QED
      BY <2>3, <2>4
  <1>2. Summand(f, S)
    BY DEF Summand
  <1>3. ASSUME NEW x \in S PROVE f[x] <= SumOver(f, S)
    <2>1. SumOver(f, S) = f[x] + SumOver(f, S \ {x})
      BY <1>2, SumSplit
    <2> QED
      BY <1>1, <2>1
  <1> QED
    BY <1>1, <1>3

\* Quotient and remainder make up the dividend.
LEMMA DivisionIdentity ==
    ASSUME NEW x \in Int, NEW y \in Int, y > 0 PROVE x = (x \div y) * y + (x % y)
BY SMT
================================================================================
