---------------------------- MODULE FoldTheorems ----------------------------
(***************************************************************************)
(* Facts about sums over finite sets (SumFunctionOnSet), for the proofs    *)
(* about amounts of money, about folds of sequences, and about the order   *)
(* of what is left of a sequence.  The sums and the folds are recursive    *)
(* functions on sets, so what they compute is shown by an induction on a   *)
(* set, whose form here has no operator as parameter.                      *)
(***************************************************************************)
EXTENDS Sieve, FiniteSetTheorems, SequenceTheorems, TLAPS

\* Among sets of subsets of a finite set there is a minimal one.
LEMMA SmallestSubset ==
  ASSUME NEW S, IsFiniteSet(S), NEW F \in SUBSET (SUBSET S), F # {}
  PROVE  \E T \in F : \A U \in SUBSET T : U # T => U \notin F
  <1>1. IsWellFoundedOn(StrictSubsetOrdering(S), FiniteSubsetsOf(S))
    BY FS_StrictSubsetOrderingWellFounded
  <1>2. F \subseteq FiniteSubsetsOf(S)
    BY FS_FiniteSubsetsOfFinite
  <1>3. PICK T \in F : \A U \in F : <<U, T>> \notin StrictSubsetOrdering(S)
    BY <1>1, <1>2, WFMin, Zenon
  <1> QED
    BY <1>3 DEF StrictSubsetOrdering

\* Induction on a finite set: G are the subsets of which the claim holds.
LEMMA SetInduction ==
  ASSUME NEW S, IsFiniteSet(S), NEW G, {} \in G,
         \A T \in SUBSET S : \A x \in S \ T : T \in G => T \cup {x} \in G
  PROVE  S \in G
  <1> DEFINE bad == (SUBSET S) \ G
  <1> SUFFICES ASSUME S \notin G PROVE FALSE
    OBVIOUS
  <1>1. PICK T \in bad : \A U \in SUBSET T : U # T => U \notin bad
    <2>1. bad \in SUBSET (SUBSET S) /\ bad # {}
      OBVIOUS
    <2> HIDE DEF bad
    <2> QED
      BY <2>1, SmallestSubset
  <1>2. PICK x \in T : TRUE
    BY <1>1
  <1>3. T \ {x} \in G
    BY <1>1, <1>2
  <1>4. T = (T \ {x}) \cup {x} /\ x \in S \ (T \ {x})
    BY <1>1, <1>2
  <1> QED
    BY <1>1, <1>3, <1>4

-----------------------------------------------------------------------------
(* The recursion takes any element *)

Summing(f, S, g) ==
    /\ g \in [SUBSET S -> Int] /\ g[{}] = 0
    /\ \A T \in SUBSET S : \A x \in T : g[T] = f[x] + g[T \ {x}]

LEMMA SummingExists ==
  ASSUME NEW S, IsFiniteSet(S), NEW f, \A x \in S : f[x] \in Int
  PROVE  \E g : Summing(f, S, g)
  <1> DEFINE G == {T \in SUBSET S : \E g : Summing(f, T, g)}
  <1>1. {} \in G
    <2> DEFINE g == [T \in SUBSET {} |-> 0]
    <2>1. Summing(f, {}, g)
      BY DEF Summing
    <2> QED
      BY <2>1
  <1>2. ASSUME NEW T \in SUBSET S, NEW x \in S \ T, T \in G
        PROVE  T \cup {x} \in G
    <2>1. PICK g : Summing(f, T, g)
      BY <1>2
    <2> DEFINE W == T \cup {x}
               h == [U \in SUBSET W |-> IF x \in U THEN f[x] + g[U \ {x}] ELSE g[U]]
    <2>2. \A U \in SUBSET W : U \ {x} \in SUBSET T /\ (x \notin U => U \in SUBSET T)
      OBVIOUS
    <2>3. f[x] \in Int /\ \A U \in SUBSET T : g[U] \in Int
      BY <2>1 DEF Summing
    <2>4. h \in [SUBSET W -> Int]
      BY <2>2, <2>3
    <2>5. h[{}] = 0
      BY <2>1 DEF Summing
    <2>6. ASSUME NEW U \in SUBSET W, NEW y \in U
          PROVE  h[U] = f[y] + h[U \ {y}]
      <3>1. U \ {y} \in SUBSET W
        OBVIOUS
      <3>2. CASE y = x
        BY <3>2, <3>1
      <3>3. CASE y # x /\ x \in U
        <4> DEFINE V == U \ {x}
        <4>1. V \in SUBSET T /\ y \in V /\ f[y] \in Int /\ V \ {y} \in SUBSET T
          BY <3>3
        <4>2. g[V] = f[y] + g[V \ {y}] /\ g[V \ {y}] \in Int
          BY <4>1, <2>1, <2>3 DEF Summing
        <4>3. (U \ {y}) \ {x} = V \ {y} /\ x \in U \ {y}
          BY <3>3
        <4>4. h[U] = f[x] + g[V] /\ h[U \ {y}] = f[x] + g[V \ {y}]
          BY <3>1, <3>3, <4>3
        <4> HIDE DEF h, V
        <4> QED
          BY <4>1, <4>2, <4>4, <2>3
      <3>4. CASE y # x /\ x \notin U
        <4>1. U \in SUBSET T /\ U \ {y} \in SUBSET W /\ x \notin U \ {y}
          BY <3>4
        <4>2. h[U] = g[U] /\ h[U \ {y}] = g[U \ {y}]
          BY <4>1
        <4> QED
          BY <4>1, <4>2, <2>1 DEF Summing
      <3> QED
        BY <3>2, <3>3, <3>4
    <2> HIDE DEF h
    <2>7. Summing(f, W, h)
      BY <2>4, <2>5, <2>6 DEF Summing
    <2> QED
      BY <2>7
  <1> HIDE DEF G
  <1>3. S \in G
    BY <1>1, <1>2, SetInduction
  <1> QED
    BY <1>3 DEF G

AnyOf(S) == CHOOSE x \in S : TRUE

\* SumFunctionOnSet sums, whichever element CHOOSE takes first.
LEMMA SumIsSumming ==
  ASSUME NEW S, IsFiniteSet(S), NEW f, NEW g, Summing(f, S, g)
  PROVE  SumFunctionOnSet(f, S) = g[S]
  <1> DEFINE Body(i, T) == IF T = {} THEN 0 ELSE f[AnyOf(T)] + i[T \ {AnyOf(T)}]
             Rec(i) == i = [T \in SUBSET S |-> Body(i, T)]
             iter == CHOOSE i : Rec(i)
  <1>1. SumFunctionOnSet(f, S) = iter[S]
    BY DEF SumFunctionOnSet, FoldFunctionOnSet, MapThenFoldSet, AnyOf
  <1>2. Rec(g)
    <2>1. \A T \in SUBSET S : T # {} => AnyOf(T) \in T
      BY DEF AnyOf
    <2>2. \A T \in SUBSET S : g[T] = Body(g, T)
      BY <2>1 DEF Summing
    <2>3. g = [T \in SUBSET S |-> g[T]]
      BY DEF Summing
    <2> QED
      BY <2>2, <2>3
  <1> HIDE DEF Rec
  <1>3. Rec(iter)
    BY <1>2
  <1> DEFINE differ == {T \in SUBSET S : iter[T] # g[T]}
  <1> HIDE DEF iter
  <1>4. \A T \in SUBSET S : iter[T] = Body(iter, T)
    BY <1>3 DEF Rec
  <1>5. ASSUME NEW T \in SUBSET S, \A U \in SUBSET T : U # T => iter[U] = g[U]
        PROVE  iter[T] = g[T]
    <2>1. CASE T = {}
      BY <2>1, <1>4 DEF Summing
    <2>2. CASE T # {}
      <3>1. AnyOf(T) \in T
        BY <2>2 DEF AnyOf
      <3>2. iter[T \ {AnyOf(T)}] = g[T \ {AnyOf(T)}]
        BY <3>1, <1>5
      <3> QED
        BY <2>2, <3>1, <3>2, <1>4 DEF Summing
    <2> QED
      BY <2>1, <2>2
  <1>6. differ = {}
    <2>1. differ \in SUBSET (SUBSET S)
      OBVIOUS
    <2>2. ASSUME differ # {} PROVE FALSE
      <3>1. PICK T \in differ : \A U \in SUBSET T : U # T => U \notin differ
        <4> HIDE DEF differ
        <4> QED
          BY <2>1, <2>2, SmallestSubset
      <3> QED
        BY <3>1, <1>5
    <2> QED
      BY <2>2
  <1> QED
    BY <1>1, <1>6

-----------------------------------------------------------------------------
(* What the proofs about the models cite *)

LEMMA SumOfNone == ASSUME NEW f PROVE SumFunctionOnSet(f, {}) = 0
  <1> DEFINE g == [T \in SUBSET {} |-> 0]
  <1>1. Summing(f, {}, g)
    BY DEF Summing
  <1>2. IsFiniteSet({})
    BY FS_EmptySet
  <1> HIDE DEF g
  <1>3. SumFunctionOnSet(f, {}) = g[{}]
    BY <1>1, <1>2, SumIsSumming
  <1> QED
    BY <1>1, <1>3 DEF Summing

LEMMA SumInt ==
  ASSUME NEW S, IsFiniteSet(S), NEW f, \A x \in S : f[x] \in Int
  PROVE  SumFunctionOnSet(f, S) \in Int
  <1>1. PICK g : Summing(f, S, g)
    BY SummingExists
  <1>2. SumFunctionOnSet(f, S) = g[S]
    BY <1>1, SumIsSumming
  <1> QED
    BY <1>1, <1>2 DEF Summing

\* Any element may be taken out of the sum.
LEMMA SumWithout ==
  ASSUME NEW S, IsFiniteSet(S), NEW f, \A x \in S : f[x] \in Int, NEW x \in S
  PROVE  SumFunctionOnSet(f, S) = f[x] + SumFunctionOnSet(f, S \ {x})
  <1> DEFINE R == S \ {x}
  <1>1. PICK g : Summing(f, S, g)
    BY SummingExists
  <1> DEFINE h == [T \in SUBSET R |-> g[T]]
  <1>2. Summing(f, R, h)
    <2>1. h \in [SUBSET R -> Int] /\ h[{}] = 0
      BY <1>1 DEF Summing
    <2>2. ASSUME NEW T \in SUBSET R, NEW y \in T PROVE h[T] = f[y] + h[T \ {y}]
      BY <1>1 DEF Summing
    <2> HIDE DEF h
    <2> QED
      BY <2>1, <2>2 DEF Summing
  <1>3. IsFiniteSet(R)
    BY FS_Subset
  <1>4. SumFunctionOnSet(f, R) = h[R]
    <2> HIDE DEF h, R
    <2> QED
      BY <1>2, <1>3, SumIsSumming
  <1>5. h[R] = g[R]
    OBVIOUS
  <1>6. SumFunctionOnSet(f, S) = g[S]
    BY <1>1, SumIsSumming
  <1> QED
    BY <1>1, <1>4, <1>5, <1>6 DEF Summing

\* Another element joins the sum.
LEMMA SumWith ==
  ASSUME NEW S, IsFiniteSet(S), NEW f, NEW x, x \notin S, \A y \in S \cup {x} : f[y] \in Int
  PROVE  SumFunctionOnSet(f, S \cup {x}) = f[x] + SumFunctionOnSet(f, S)
  <1>1. IsFiniteSet(S \cup {x}) /\ (S \cup {x}) \ {x} = S
    BY FS_AddElement
  <1> QED
    BY <1>1, SumWithout

\* Only the values on the set count.
LEMMA SumSame ==
  ASSUME NEW S, IsFiniteSet(S), NEW f, NEW h, \A x \in S : f[x] \in Int /\ h[x] = f[x]
  PROVE  SumFunctionOnSet(h, S) = SumFunctionOnSet(f, S)
  <1>1. PICK g : Summing(f, S, g)
    BY SummingExists
  <1>2. Summing(h, S, g)
    BY <1>1 DEF Summing
  <1> QED
    BY <1>1, <1>2, SumIsSumming

\* One value changes.
LEMMA SumChange ==
  ASSUME NEW S, IsFiniteSet(S), NEW x \in S, NEW f, NEW h,
         \A y \in S : f[y] \in Int /\ h[y] \in Int /\ (y # x => h[y] = f[y])
  PROVE  SumFunctionOnSet(h, S) = SumFunctionOnSet(f, S) - f[x] + h[x]
  <1> DEFINE R == S \ {x}
  <1>1. IsFiniteSet(R) /\ \A y \in R : f[y] \in Int /\ h[y] = f[y]
    BY FS_Subset
  <1>2. SumFunctionOnSet(h, R) = SumFunctionOnSet(f, R) /\ SumFunctionOnSet(f, R) \in Int
    <2> HIDE DEF R
    <2> QED
      BY <1>1, SumSame, SumInt
  <1>3. /\ SumFunctionOnSet(h, S) = h[x] + SumFunctionOnSet(h, R)
        /\ SumFunctionOnSet(f, S) = f[x] + SumFunctionOnSet(f, R)
    BY SumWithout
  <1> QED
    BY <1>2, <1>3

\* Amounts that are not negative have a sum that is not.
LEMMA SumNat ==
  ASSUME NEW S, IsFiniteSet(S), NEW f, \A x \in S : f[x] \in Nat
  PROVE  SumFunctionOnSet(f, S) \in Nat
  <1> DEFINE G == {T \in SUBSET S : SumFunctionOnSet(f, T) \in Nat}
  <1>1. {} \in G
    BY SumOfNone
  <1>2. ASSUME NEW T \in SUBSET S, NEW x \in S \ T, T \in G
        PROVE  T \cup {x} \in G
    <2>1. IsFiniteSet(T) /\ x \notin T /\ \A y \in T \cup {x} : f[y] \in Int
      BY FS_Subset
    <2>2. SumFunctionOnSet(f, T \cup {x}) = f[x] + SumFunctionOnSet(f, T)
      BY <2>1, SumWith
    <2> QED
      BY <1>2, <2>2
  <1> HIDE DEF G
  <1>3. S \in G
    BY <1>1, <1>2, SetInduction
  <1> QED
    BY <1>3 DEF G

\* Another element joins the sum if it counts.
LEMMA SumWithin ==
  ASSUME NEW T, IsFiniteSet(T), NEW x, x \notin T, NEW A, NEW g, \A y \in A : g[y] \in Int
  PROVE  SumFunctionOnSet(g, (T \cup {x}) \cap A)
           = SumFunctionOnSet(g, T \cap A) + (IF x \in A THEN g[x] ELSE 0)
  <1> DEFINE C == T \cap A
             D == (T \cup {x}) \cap A
  <1>1. IsFiniteSet(C) /\ x \notin C /\ \A y \in C : g[y] \in Int
    BY FS_Subset
  <1>2. D = IF x \in A THEN C \cup {x} ELSE C
    OBVIOUS
  <1>3. x \in A => g[x] \in Int
    OBVIOUS
  <1> HIDE DEF C, D
  <1>4. SumFunctionOnSet(g, C) \in Int
    BY <1>1, SumInt
  <1>5. x \in A => SumFunctionOnSet(g, C \cup {x}) = g[x] + SumFunctionOnSet(g, C)
    BY <1>1, <1>3, SumWith
  <1>6. SumFunctionOnSet(g, D) = SumFunctionOnSet(g, C) + (IF x \in A THEN g[x] ELSE 0)
    BY <1>2, <1>3, <1>4, <1>5
  <1> QED
    BY <1>6 DEF C, D

\* A sum of gains and losses is the gains less the losses.
LEMMA SumSplit ==
  ASSUME NEW S, IsFiniteSet(S), NEW f, NEW A \in SUBSET S, NEW g, NEW B \in SUBSET S, NEW h,
         \A x \in A : g[x] \in Int, \A x \in B : h[x] \in Int,
         \A x \in S : f[x] = (IF x \in A THEN g[x] ELSE 0) - (IF x \in B THEN h[x] ELSE 0)
  PROVE  SumFunctionOnSet(f, S) = SumFunctionOnSet(g, A) - SumFunctionOnSet(h, B)
  <1> DEFINE Holds(T) == SumFunctionOnSet(f, T)
                           = SumFunctionOnSet(g, T \cap A) - SumFunctionOnSet(h, T \cap B)
             G == {T \in SUBSET S : Holds(T)}
  <1>1. {} \in G
    <2>1. {} \cap A = {} /\ {} \cap B = {}
      OBVIOUS
    <2> QED
      BY <2>1, SumOfNone
  <1>2. ASSUME NEW T \in SUBSET S, NEW x \in S \ T, T \in G
        PROVE  T \cup {x} \in G
    <2>1. IsFiniteSet(T) /\ IsFiniteSet(T \cap A) /\ IsFiniteSet(T \cap B)
      BY FS_Subset
    <2>2. /\ SumFunctionOnSet(g, T \cap A) \in Int /\ SumFunctionOnSet(h, T \cap B) \in Int
      BY <2>1, SumInt
    <2>3. SumFunctionOnSet(f, T \cup {x}) = f[x] + SumFunctionOnSet(f, T)
      <3>1. \A y \in T \cup {x} : f[y] \in Int
        OBVIOUS
      <3> QED
        BY <2>1, <3>1, SumWith
    <2>4. SumFunctionOnSet(g, (T \cup {x}) \cap A)
            = SumFunctionOnSet(g, T \cap A) + (IF x \in A THEN g[x] ELSE 0)
      BY <2>1, SumWithin
    <2>5. SumFunctionOnSet(h, (T \cup {x}) \cap B)
            = SumFunctionOnSet(h, T \cap B) + (IF x \in B THEN h[x] ELSE 0)
      BY <2>1, SumWithin
    <2>6. Holds(T)
      BY <1>2
    <2>7. (x \in A => g[x] \in Int) /\ (x \in B => h[x] \in Int)
      OBVIOUS
    <2>8. f[x] = (IF x \in A THEN g[x] ELSE 0) - (IF x \in B THEN h[x] ELSE 0)
      OBVIOUS
    <2>9. Holds(T \cup {x})
      BY <2>2, <2>3, <2>4, <2>5, <2>6, <2>7, <2>8
    <2> HIDE DEF Holds
    <2> QED
      BY <2>9
  <1> HIDE DEF G
  <1>3. S \in G
    BY <1>1, <1>2, SetInduction
  <1>4. S \cap A = A /\ S \cap B = B
    OBVIOUS
  <1>5. Holds(S)
    BY <1>3 DEF G
  <1> QED
    BY <1>4, <1>5

-----------------------------------------------------------------------------
(* Folds along a range of numbers *)

LEMMA RangeInduction ==
  ASSUME NEW n \in Nat, NEW G, 0 \in G,
         \A m \in 0 .. n : m # n /\ m \in G => m + 1 \in G
  PROVE  \A m \in 0 .. n : m \in G
<1> DEFINE bad == {T \in SUBSET (1 .. n) : \E m \in 0 .. n : T = 1 .. m /\ m \notin G}
<1> SUFFICES ASSUME bad # {} PROVE FALSE
  <2>1. ASSUME NEW m \in 0 .. n, m \notin G PROVE 1 .. m \in bad
    <3>1. 1 .. m \in SUBSET (1 .. n)
      OBVIOUS
    <3> QED
      BY <2>1, <3>1
  <2> QED
    BY <2>1
<1>1. bad \in SUBSET (SUBSET (1 .. n)) /\ IsFiniteSet(1 .. n)
  BY FS_Interval
<1>2. PICK T \in bad : \A U \in SUBSET T : U # T => U \notin bad
  <2> HIDE DEF bad
  <2> QED
    BY <1>1, SmallestSubset
<1>3. PICK m \in 0 .. n : T = 1 .. m /\ m \notin G
  BY <1>2
<1>4. m # 0 /\ m - 1 \in 0 .. n
  BY <1>3
<1>5. 1 .. (m - 1) \in SUBSET T /\ 1 .. (m - 1) # T /\ 1 .. (m - 1) \in SUBSET (1 .. n)
  BY <1>3, <1>4
<1>6. m - 1 \in G
  BY <1>2, <1>4, <1>5
<1> QED
  BY <1>3, <1>4, <1>6

\* Induction on the numbers: G are those of which the claim holds.
LEMMA NatSetInduction ==
  ASSUME NEW G, 0 \in G, \A m \in Nat : m \in G => m + 1 \in G
  PROVE  \A n \in Nat : n \in G
<1> SUFFICES ASSUME NEW n \in Nat PROVE n \in G
  OBVIOUS
<1>1. \A m \in 0 .. n : m # n /\ m \in G => m + 1 \in G
  OBVIOUS
<1>2. \A m \in 0 .. n : m \in G
  BY <1>1, RangeInduction
<1> QED
  BY <1>2

\* A recursion along the numbers has a solution; T[n] is what the nth value is one of.
LEMMA RecursionExists ==
  ASSUME NEW T, NEW base \in T[0], NEW F, \A n \in Nat : F[n] \in [T[n] -> T[n + 1]]
  PROVE  \E f : /\ f = [n \in Nat |-> IF n = 0 THEN base ELSE F[n - 1][f[n - 1]]]
                /\ \A n \in Nat : f[n] \in T[n]
<1> DEFINE Upto(m, g) == /\ g = [n \in 0 .. m |-> IF n = 0 THEN base ELSE F[n - 1][g[n - 1]]]
                         /\ \A n \in 0 .. m : g[n] \in T[n]
           G == {m \in Nat : \E g : Upto(m, g)}
<1>1. 0 \in G
  <2> DEFINE g == [n \in 0 .. 0 |-> base]
  <2>1. \A n \in 0 .. 0 : n = 0
    OBVIOUS
  <2>2. Upto(0, g)
    BY <2>1
  <2> QED
    BY <2>2
<1>2. ASSUME NEW m \in Nat, m \in G PROVE m + 1 \in G
  <2>1. PICK g : Upto(m, g)
    BY <1>2
  <2> DEFINE h == [n \in 0 .. m + 1 |-> IF n = m + 1 THEN F[m][g[m]] ELSE g[n]]
  <2>2. \A n \in 0 .. m + 1 : n = m + 1 \/ n \in 0 .. m
    OBVIOUS
  <2>3. ASSUME NEW n \in 0 .. m + 1
        PROVE  h[n] = (IF n = 0 THEN base ELSE F[n - 1][h[n - 1]]) /\ h[n] \in T[n]
    <3>1. CASE n = m + 1
      <4>1. n # 0 /\ n - 1 = m /\ m \in 0 .. m /\ m \in 0 .. m + 1 /\ m # m + 1
        BY <3>1
      <4>2. h[n] = F[m][g[m]] /\ h[m] = g[m] /\ g[m] \in T[m]
        BY <2>1, <3>1, <4>1
      <4> QED
        BY <3>1, <4>1, <4>2
    <3>2. CASE n \in 0 .. m
      <4>1. n # m + 1 /\ (n # 0 => n - 1 \in 0 .. m /\ n - 1 \in 0 .. m + 1 /\ n - 1 # m + 1)
        BY <3>2
      <4>2. h[n] = g[n] /\ (n # 0 => h[n - 1] = g[n - 1])
        BY <4>1
      <4>3. g[n] = (IF n = 0 THEN base ELSE F[n - 1][g[n - 1]]) /\ g[n] \in T[n]
        BY <2>1, <3>2
      <4> QED
        BY <4>2, <4>3
    <3> QED
      BY <2>2, <3>1, <3>2
  <2>4. h = [n \in 0 .. m + 1 |-> h[n]]
    OBVIOUS
  <2> HIDE DEF h
  <2>5. Upto(m + 1, h)
    BY <2>3, <2>4
  <2> QED
    BY <2>5
<1>3. \A m \in Nat : \E g : Upto(m, g)
  <2>1. \A m \in Nat : m \in G
    <3> HIDE DEF G
    <3> QED
      BY <1>1, <1>2, NatSetInduction
  <2> QED
    BY <2>1
<1> DEFINE at == [m \in Nat |-> CHOOSE g : Upto(m, g)]
           f == [m \in Nat |-> at[m][m]]
<1>4. \A m \in Nat : Upto(m, at[m])
  <2> HIDE DEF Upto
  <2> QED
    BY <1>3
<1> HIDE DEF at
<1>5. \A m \in Nat : at[m + 1][m] = at[m][m]
  <2> TAKE m \in Nat
  <2> DEFINE H == {n \in Nat : n \in 0 .. m => at[m + 1][n] = at[m][n]}
  <2>0. /\ \A n \in 0 .. m : at[m][n] = IF n = 0 THEN base ELSE F[n - 1][at[m][n - 1]]
        /\ \A n \in 0 .. m + 1 : at[m + 1][n] = IF n = 0 THEN base ELSE F[n - 1][at[m + 1][n - 1]]
    <3>1. Upto(m, at[m]) /\ Upto(m + 1, at[m + 1])
      <4>1. m + 1 \in Nat
        OBVIOUS
      <4> HIDE DEF Upto
      <4> QED
        BY <1>4, <4>1
    <3> QED
      BY <3>1
  <2>1. 0 \in H
    BY <2>0
  <2>2. ASSUME NEW n \in Nat, n \in H PROVE n + 1 \in H
    <3> SUFFICES ASSUME n + 1 \in 0 .. m PROVE at[m + 1][n + 1] = at[m][n + 1]
      OBVIOUS
    <3>1. n \in 0 .. m /\ n + 1 \in 0 .. m + 1 /\ n + 1 # 0 /\ (n + 1) - 1 = n
      OBVIOUS
    <3> QED
      BY <2>0, <2>2, <3>1
  <2>3. \A n \in Nat : n \in H
    <3> HIDE DEF H
    <3> QED
      BY <2>1, <2>2, NatSetInduction
  <2> QED
    BY <2>3
<1>6. ASSUME NEW n \in Nat
      PROVE  f[n] = (IF n = 0 THEN base ELSE F[n - 1][f[n - 1]]) /\ f[n] \in T[n]
  <2>1. Upto(n, at[n]) /\ n \in 0 .. n
    BY <1>4
  <2>2. at[n][n] = (IF n = 0 THEN base ELSE F[n - 1][at[n][n - 1]]) /\ at[n][n] \in T[n]
    BY <2>1
  <2>3. CASE n = 0
    BY <2>2, <2>3
  <2>4. CASE n # 0
    <3>1. n - 1 \in Nat /\ (n - 1) + 1 = n
      BY <2>4
    <3>2. at[n][n - 1] = at[n - 1][n - 1]
      BY <1>5, <3>1
    <3> QED
      BY <2>2, <2>4, <3>1, <3>2
  <2> QED
    BY <2>3, <2>4
<1>7. f = [n \in Nat |-> f[n]]
  OBVIOUS
<1> HIDE DEF f
<1>8. f = [n \in Nat |-> IF n = 0 THEN base ELSE F[n - 1][f[n - 1]]]
  BY <1>6, <1>7
<1> QED
  BY <1>6, <1>8

LEMMA MaxInRange ==
  ASSUME NEW n \in Nat, NEW T \in SUBSET (1 .. n), T # {}
  PROVE  Max(T) \in T /\ \A y \in T : Max(T) >= y
<1> DEFINE Has(U) == \E x \in U : \A y \in U : x >= y
           G == {m \in 0 .. n : \A U \in SUBSET (1 .. m) : U # {} => Has(U)}
<1>1. 0 \in G
  <2>1. 1 .. 0 = {}
    OBVIOUS
  <2>2. \A U \in SUBSET (1 .. 0) : U # {} => Has(U)
    BY <2>1
  <2> HIDE DEF Has
  <2> QED
    BY <2>2
<1>2. ASSUME NEW m \in 0 .. n, m # n, m \in G PROVE m + 1 \in G
  <2>0. m + 1 \in 0 .. n
    <3>1. m \in Nat /\ m <= n /\ m # n
      BY <1>2
    <3> QED
      BY <3>1
  <2> SUFFICES ASSUME NEW U \in SUBSET (1 .. m + 1), U # {} PROVE Has(U)
    BY <2>0
  <2>1. CASE m + 1 \in U
    BY <2>1
  <2>2. CASE m + 1 \notin U
    <3>1. U \in SUBSET (1 .. m)
      BY <2>2
    <3> QED
      BY <1>2, <3>1
  <2> QED
    BY <2>1, <2>2
<1> HIDE DEF G
<1>3. n \in G
  BY <1>1, <1>2, RangeInduction
<1>4. \E x \in T : \A y \in T : x >= y
  BY <1>3 DEF G
<1> QED
  BY <1>4 DEF Max

Folding(n, X, base, F, g) ==
    /\ g \in [SUBSET (1 .. n) -> X]
    /\ \A T \in SUBSET (1 .. n) :
         g[T] = IF T = {} THEN base ELSE F[<<g[T \ {Max(T)}], Max(T)>>]

LEMMA MaxOf ==
  ASSUME NEW T, NEW n \in Nat, T \in SUBSET (0 .. n), T # {}
  PROVE  Max(T) \in T /\ \A y \in T : Max(T) >= y
<1>1. \E x \in T : \A y \in T : x >= y
  <2>1. CASE T \ {0} = {}
    <3>1. T = {0}
      BY <2>1
    <3> QED
      BY <3>1
  <2>2. CASE T \ {0} # {}
    <3> DEFINE U == T \ {0}
    <3>1. U \in SUBSET (1 .. n) /\ U # {}
      BY <2>2
    <3>2. Max(U) \in U /\ \A y \in U : Max(U) >= y
      BY <3>1, MaxInRange
    <3>6. Max(U) \in 1 .. n
      BY <3>1, <3>2
    <3>3. Max(U) \in Nat /\ Max(U) >= 0 /\ \A y \in T : y = 0 \/ y \in U
      BY <3>6
    <3> HIDE DEF U
    <3>4. \A y \in T : Max(U) >= y
      BY <3>2, <3>3
    <3>5. Max(U) \in T
      BY <3>2 DEF U
    <3> QED
      BY <3>4, <3>5
  <2> QED
    BY <2>1, <2>2
<1> QED
  BY <1>1 DEF Max

\* The recursion of a fold that takes the largest number last has a solution.
LEMMA FoldExists ==
  ASSUME NEW n \in Nat, NEW X, NEW base \in X, NEW F \in [X \X (1 .. n) -> X]
  PROVE  \E g : Folding(n, X, base, F, g)
<1> DEFINE Solves(g, m) ==
             \A T \in SUBSET (1 .. m) :
               g[T] = IF T = {} THEN base ELSE F[<<g[T \ {Max(T)}], Max(T)>>]
           Solved(m) == \E g \in [SUBSET (1 .. m) -> X] : Solves(g, m)
           G == {m \in 0 .. n : Solved(m)}
<1>1. 0 \in G
  <2> DEFINE g == [T \in SUBSET (1 .. 0) |-> base]
  <2>1. g \in [SUBSET (1 .. 0) -> X] /\ \A T \in SUBSET (1 .. 0) : T = {} /\ g[T] = base
    OBVIOUS
  <2> HIDE DEF g
  <2>2. Solves(g, 0)
    BY <2>1
  <2>3. Solved(0)
    BY <2>1, <2>2
  <2> HIDE DEF Solved
  <2> QED
    BY <2>3
<1>2. ASSUME NEW m \in 0 .. n, m # n, m \in G PROVE m + 1 \in G
  <2>1. PICK g \in [SUBSET (1 .. m) -> X] : Solves(g, m)
    BY <1>2
  <2> DEFINE h == [T \in SUBSET (1 .. m + 1) |->
                     IF m + 1 \in T THEN F[<<g[T \ {m + 1}], m + 1>>] ELSE g[T]]
  <2>2. \A T \in SUBSET (1 .. m + 1) :
          /\ T \ {m + 1} \in SUBSET (1 .. m)
          /\ m + 1 \notin T => T \in SUBSET (1 .. m)
    OBVIOUS
  <2>0. m + 1 \in 1 .. n
    <3>1. m \in Nat /\ m <= n /\ m # n
      BY <1>2
    <3> QED
      BY <3>1
  <2>3. h \in [SUBSET (1 .. m + 1) -> X]
    <3> SUFFICES ASSUME NEW T \in SUBSET (1 .. m + 1)
                 PROVE  (IF m + 1 \in T THEN F[<<g[T \ {m + 1}], m + 1>>] ELSE g[T]) \in X
      OBVIOUS
    <3>1. g[T \ {m + 1}] \in X
      BY <2>1, <2>2
    <3>2. <<g[T \ {m + 1}], m + 1>> \in X \X (1 .. n)
      BY <2>0, <3>1
    <3> QED
      BY <2>1, <2>2, <3>2
  <2>4. Solves(h, m + 1)
    <3> SUFFICES ASSUME NEW T \in SUBSET (1 .. m + 1)
                 PROVE  h[T] = IF T = {} THEN base ELSE F[<<h[T \ {Max(T)}], Max(T)>>]
      OBVIOUS
    <3>1. CASE m + 1 \in T
      <4>1. Max(T) = m + 1
        <5>0. m + 1 \in Nat /\ T # {}
          BY <3>1
        <5>1. Max(T) \in T /\ \A y \in T : Max(T) >= y
          BY <5>0, MaxInRange
        <5>2. Max(T) >= m + 1 /\ Max(T) \in 1 .. m + 1
          BY <3>1, <5>1
        <5> QED
          BY <5>2
      <4>2. h[T \ {m + 1}] = g[T \ {m + 1}] /\ h[T] = F[<<g[T \ {m + 1}], m + 1>>]
        BY <3>1
      <4> HIDE DEF h
      <4> QED
        BY <3>1, <4>1, <4>2
    <3>2. CASE m + 1 \notin T
      <4>1. T \in SUBSET (1 .. m) /\ T \ {Max(T)} \in SUBSET (1 .. m)
        BY <2>2, <3>2
      <4>2. h[T] = g[T] /\ h[T \ {Max(T)}] = g[T \ {Max(T)}]
        BY <3>2, <4>1
      <4> HIDE DEF h
      <4> QED
        BY <2>1, <4>1, <4>2
    <3> QED
      BY <3>1, <3>2
  <2> HIDE DEF h, Solves
  <2>5. Solved(m + 1)
    BY <2>3, <2>4
  <2> HIDE DEF Solved
  <2> QED
    BY <2>0, <2>5
<1> HIDE DEF G
<1>3. n \in G
  BY <1>1, <1>2, RangeInduction
<1> QED
  BY <1>3 DEF G, Folding

\* A fold that takes the largest number last goes from 1 .. m - 1 to 1 .. m.
LEMMA RangeTop ==
  ASSUME NEW n \in Nat, NEW m \in 1 .. n
  PROVE  /\ 1 .. m \in SUBSET (1 .. n) /\ 1 .. m # {}
         /\ Max(1 .. m) = m /\ (1 .. m) \ {m} = 1 .. m - 1
<1>1. 1 .. m \in SUBSET (1 .. n) /\ 1 .. m # {} /\ m \in 1 .. m
  OBVIOUS
<1>2. Max(1 .. m) \in 1 .. m /\ \A y \in 1 .. m : Max(1 .. m) >= y
  BY <1>1, MaxInRange
<1>3. Max(1 .. m) >= m
  BY <1>1, <1>2
<1>4. Max(1 .. m) = m
  BY <1>2, <1>3
<1>5. (1 .. m) \ {m} = 1 .. m - 1
  OBVIOUS
<1> QED
  BY <1>1, <1>4, <1>5

-----------------------------------------------------------------------------
(* What is left of a sequence *)

\* t is what s leaves outside A: f tells where its elements were in the first m of s.
LeftOf(s, m, A, t, f) ==
    /\ f \in [1 .. Len(t) -> 1 .. m]
    /\ \A i, j \in 1 .. Len(t) : i < j => f[i] < f[j]
    /\ \A k \in 1 .. Len(t) : t[k] = s[f[k]] /\ t[k] \notin A
    /\ \A i \in 1 .. m : s[i] \notin A => \E k \in 1 .. Len(t) : f[k] = i

LEMMA LeftOfStep ==
  ASSUME NEW S, NEW s \in Seq(S), NEW m \in 1 .. Len(s), NEW A, NEW t \in Seq(S),
         \E f : LeftOf(s, m - 1, A, t, f)
  PROVE  /\ s[m] \in A => \E f : LeftOf(s, m, A, t, f)
         /\ s[m] \notin A => \E f : LeftOf(s, m, A, Append(t, s[m]), f)
<1>1. PICK f : LeftOf(s, m - 1, A, t, f)
  OBVIOUS
<1>2. CASE s[m] \in A
  <2>1. LeftOf(s, m, A, t, f)
    BY <1>1, <1>2 DEF LeftOf
  <2> QED
    BY <1>2, <2>1
<1>3. CASE s[m] \notin A
  <2> DEFINE n == Len(t)
             u == Append(t, s[m])
             g == [k \in 1 .. n + 1 |-> IF k = n + 1 THEN m ELSE f[k]]
  <2>1. n \in Nat /\ Len(u) = n + 1 /\ u[n + 1] = s[m] /\ \A k \in 1 .. n : u[k] = t[k]
    OBVIOUS
  <2>2. /\ \A k \in 1 .. n : f[k] \in 1 .. m - 1 /\ g[k] = f[k]
        /\ g[n + 1] = m /\ m \in Int
    BY <1>1, <2>1 DEF LeftOf
  <2>3. \A k \in 1 .. n + 1 : k = n + 1 \/ k \in 1 .. n
    BY <2>1
  <2>4. g \in [1 .. n + 1 -> 1 .. m]
    <3>1. ASSUME NEW k \in 1 .. n + 1 PROVE (IF k = n + 1 THEN m ELSE f[k]) \in 1 .. m
      <4>1. m \in 1 .. m
        OBVIOUS
      <4>2. k # n + 1 => f[k] \in 1 .. m
        <5>1. \A i \in 1 .. n : f[i] \in 1 .. m - 1
          BY <2>2
        <5>2. \A i \in 1 .. m - 1 : i \in 1 .. m
          OBVIOUS
        <5> QED
          BY <2>3, <5>1, <5>2
      <4> QED
        BY <4>1, <4>2
    <3> QED
      BY <3>1
  <2> HIDE DEF u, g, n
  <2>5. \A i, j \in 1 .. n + 1 : i < j => g[i] < g[j]
    <3> SUFFICES ASSUME NEW i \in 1 .. n + 1, NEW j \in 1 .. n + 1, i < j PROVE g[i] < g[j]
      OBVIOUS
    <3>1. i \in 1 .. n
      BY <2>1
    <3>2. CASE j = n + 1
      BY <2>2, <3>1, <3>2
    <3>3. CASE j \in 1 .. n
      BY <1>1, <2>2, <3>1, <3>3 DEF LeftOf, n
    <3> QED
      BY <2>3, <3>2, <3>3
  <2>6. \A k \in 1 .. n + 1 : u[k] = s[g[k]] /\ u[k] \notin A
    BY <1>1, <1>3, <2>1, <2>2, <2>3 DEF LeftOf, n
  <2>7. \A i \in 1 .. m : s[i] \notin A => \E k \in 1 .. n + 1 : g[k] = i
    <3> SUFFICES ASSUME NEW i \in 1 .. m, s[i] \notin A PROVE \E k \in 1 .. n + 1 : g[k] = i
      OBVIOUS
    <3>1. CASE i = m
      BY <2>1, <2>2, <3>1
    <3>2. CASE i # m
      <4>1. i \in 1 .. m - 1
        BY <3>2
      <4>2. PICK k \in 1 .. n : f[k] = i
        BY <1>1, <4>1 DEF LeftOf, n
      <4> QED
        BY <2>1, <2>2, <4>2
    <3> QED
      BY <3>1, <3>2
  <2>8. LeftOf(s, m, A, u, g)
    BY <2>1, <2>4, <2>5, <2>6, <2>7 DEF LeftOf
  <2> QED
    BY <1>3, <2>8 DEF u
<1> QED
  BY <1>2, <1>3

LEMMA OutsideIsLeft ==
  ASSUME NEW S, NEW s \in Seq(S), NEW A
  PROVE  /\ Outside(s, A) \in Seq(S)
         /\ \E f : LeftOf(s, Len(s), A, Outside(s, A), f)
<1> DEFINE n == Len(s)
           X == Seq(S)
           Op(r, i) == IF s[i] \in A THEN r ELSE Append(r, s[i])
           Body(g, T) == IF T = {} THEN <<>> ELSE Op(g[T \ {Max(T)}], Max(T))
           Rec(g) == g = [T \in SUBSET (1 .. n) |-> Body(g, T)]
           iter == CHOOSE g : Rec(g)
           F == [u \in X \X (1 .. n) |-> Op(u[1], u[2])]
<1>0. n \in Nat /\ DOMAIN s = 1 .. n /\ \A i \in 1 .. n : s[i] \in S
  OBVIOUS
<1>1. Outside(s, A) = iter[1 .. n]
  BY <1>0 DEF Outside, FoldLeft, MapThenFoldSet
<1>2. F \in [X \X (1 .. n) -> X] /\ <<>> \in X
  <2>1. \A r \in X : \A i \in 1 .. n : Op(r, i) \in X
    BY <1>0
  <2> HIDE DEF Op
  <2>2. \A u \in X \X (1 .. n) : Op(u[1], u[2]) \in X
    BY <2>1
  <2>3. <<>> \in X
    OBVIOUS
  <2> HIDE DEF X
  <2> QED
    BY <2>2, <2>3
<1>3. PICK g : Folding(n, X, <<>>, F, g)
  <2> HIDE DEF F, X, n
  <2> QED
    BY <1>0, <1>2, FoldExists
<1>4. Rec(g)
  <2>1. ASSUME NEW T \in SUBSET (1 .. n) PROVE g[T] = Body(g, T)
    <3>1. CASE T = {}
      BY <1>3, <3>1 DEF Folding
    <3>2. CASE T # {}
      <4>1. Max(T) \in 1 .. n
        BY <1>0, <3>2, MaxInRange
      <4>2. g[T \ {Max(T)}] \in X
        BY <1>3, <3>2 DEF Folding
      <4>3. g[T] = F[<<g[T \ {Max(T)}], Max(T)>>]
        BY <1>3, <3>2 DEF Folding
      <4> HIDE DEF Op, X
      <4> QED
        BY <3>2, <4>1, <4>2, <4>3
    <3> QED
      BY <3>1, <3>2
  <2>2. g = [T \in SUBSET (1 .. n) |-> g[T]]
    BY <1>3 DEF Folding
  <2> HIDE DEF Body
  <2> QED
    BY <2>1, <2>2
<1> HIDE DEF Rec
<1>5. Rec(iter)
  BY <1>4
<1>6. \A T \in SUBSET (1 .. n) : iter[T] = Body(iter, T)
  <2> HIDE DEF iter, Body
  <2> QED
    BY <1>5 DEF Rec
<1> HIDE DEF iter
<1> DEFINE G == {m \in 0 .. n : iter[1 .. m] \in X /\ \E f : LeftOf(s, m, A, iter[1 .. m], f)}
<1>7. 0 \in G
  <2>0. 1 .. 0 = {}
    OBVIOUS
  <2>1. iter[1 .. 0] = <<>>
    BY <1>6, <2>0
  <2>2. LeftOf(s, 0, A, <<>>, [k \in 1 .. 0 |-> k])
    BY <2>0 DEF LeftOf
  <2>3. <<>> \in X /\ \E f : LeftOf(s, 0, A, <<>>, f)
    BY <1>2, <2>2
  <2> HIDE DEF X
  <2> QED
    BY <1>0, <2>1, <2>3
<1>8. ASSUME NEW m \in 0 .. n, m # n, m \in G PROVE m + 1 \in G
  <2>1. m + 1 \in 1 .. n /\ m + 1 \in 0 .. n /\ (m + 1) - 1 = m
    <3> HIDE DEF n, G
    <3>1. m \in Nat /\ m <= n /\ m # n
      BY <1>0, <1>8
    <3> QED
      BY <1>0, <3>1
  <2>2. 1 .. m + 1 \in SUBSET (1 .. n) /\ 1 .. m + 1 # {} /\ m + 1 \in 1 .. m + 1
    <3> HIDE DEF n, G
    <3> QED
      BY <1>0, <2>1
  <2>3. Max(1 .. m + 1) = m + 1
    <3>1. Max(1 .. m + 1) \in 1 .. m + 1 /\ \A y \in 1 .. m + 1 : Max(1 .. m + 1) >= y
      BY <1>0, <2>2, MaxInRange
    <3>2. Max(1 .. m + 1) >= m + 1
      BY <2>2, <3>1
    <3> QED
      BY <3>1, <3>2
  <2>4. (1 .. m + 1) \ {m + 1} = 1 .. m
    OBVIOUS
  <2>5. iter[1 .. m + 1] = Op(iter[1 .. m], m + 1)
    BY <1>6, <2>2, <2>3, <2>4
  <2>6. iter[1 .. m] \in X /\ \E f : LeftOf(s, (m + 1) - 1, A, iter[1 .. m], f)
    BY <1>8, <2>1
  <2>7. iter[1 .. m + 1] \in X
    BY <1>0, <2>1, <2>5, <2>6
  <2>8. \E f : LeftOf(s, m + 1, A, iter[1 .. m + 1], f)
    <3>1. /\ s[m + 1] \in A => \E f : LeftOf(s, m + 1, A, iter[1 .. m], f)
          /\ s[m + 1] \notin A => \E f : LeftOf(s, m + 1, A, Append(iter[1 .. m], s[m + 1]), f)
      BY <2>1, <2>6, LeftOfStep
    <3> QED
      BY <2>5, <3>1
  <2> QED
    BY <2>1, <2>7, <2>8
<1> HIDE DEF G, F, Body, Op
<1>9. \A m \in 0 .. n : m \in G
  BY <1>0, <1>7, <1>8, RangeInduction
<1>10. n \in 0 .. n
  BY <1>0
<1> QED
  BY <1>1, <1>9, <1>10 DEF G

LEMMA InSequence ==
  ASSUME NEW S, NEW s \in Seq(S), NEW x
  PROVE  /\ x \in ToSet(s) <=> \E i \in 1 .. Len(s) : s[i] = x
         /\ x \in ToSet(s) <=> Contains(s, x)
         /\ ToSet(s) \subseteq S
<1>1. DOMAIN s = 1 .. Len(s) /\ \A i \in 1 .. Len(s) : s[i] \in S
  OBVIOUS
<1> QED
  BY <1>1 DEF ToSet, Contains

LEMMA OutsideProperties ==
  ASSUME NEW S, NEW s \in Seq(S), NEW A
  PROVE  /\ Outside(s, A) \in Seq(S)
         /\ ToSet(Outside(s, A)) = ToSet(s) \ A
         /\ IsInjective(s) => IsInjective(Outside(s, A))
         /\ \A x, y : Precedes(Outside(s, A), x, y) <=> x \notin A /\ y \notin A /\ Precedes(s, x, y)
<1> DEFINE t == Outside(s, A)
<1>1. t \in Seq(S) /\ \E f : LeftOf(s, Len(s), A, t, f)
  BY OutsideIsLeft
<1>2. PICK f : LeftOf(s, Len(s), A, t, f)
  BY <1>1
<1> HIDE DEF t
<1>3. /\ DOMAIN t = 1 .. Len(t) /\ DOMAIN s = 1 .. Len(s)
      /\ Len(t) \in Nat /\ Len(s) \in Nat
      /\ f \in [1 .. Len(t) -> 1 .. Len(s)]
      /\ \A i, j \in 1 .. Len(t) : i < j => f[i] < f[j]
      /\ \A k \in 1 .. Len(t) : t[k] = s[f[k]] /\ t[k] \notin A
      /\ \A i \in 1 .. Len(s) : s[i] \notin A => \E k \in 1 .. Len(t) : f[k] = i
  BY <1>1, <1>2 DEF LeftOf
<1>4. ToSet(t) = ToSet(s) \ A
  <2>1. ASSUME NEW x \in ToSet(t) PROVE x \in ToSet(s) \ A
    BY <1>3 DEF ToSet
  <2>2. ASSUME NEW x \in ToSet(s) \ A PROVE x \in ToSet(t)
    <3>1. PICK i \in 1 .. Len(s) : s[i] = x
      BY <1>3 DEF ToSet
    <3>2. PICK k \in 1 .. Len(t) : f[k] = i
      BY <1>3, <3>1
    <3>3. t[k] = x
      BY <1>3, <3>1, <3>2
    <3> QED
      BY <1>3, <3>3 DEF ToSet
  <2> QED
    BY <2>1, <2>2
<1>5. ASSUME IsInjective(s) PROVE IsInjective(t)
  <2> SUFFICES ASSUME NEW i \in 1 .. Len(t), NEW j \in 1 .. Len(t), t[i] = t[j], i # j
               PROVE  FALSE
    BY <1>3 DEF IsInjective
  <2>1. f[i] = f[j]
    BY <1>3, <1>5 DEF IsInjective
  <2>2. f[i] \in Int /\ (i < j \/ j < i)
    BY <1>3
  <2> QED
    BY <1>3, <2>1, <2>2
<1>6. ASSUME NEW x, NEW y, Precedes(t, x, y) PROVE x \notin A /\ y \notin A /\ Precedes(s, x, y)
  <2>1. PICK i \in 1 .. Len(t), j \in 1 .. Len(t) : i < j /\ t[i] = x /\ t[j] = y
    BY <1>3, <1>6 DEF Precedes
  <2>2. f[i] \in DOMAIN s /\ f[j] \in DOMAIN s /\ f[i] < f[j] /\ s[f[i]] = x /\ s[f[j]] = y
    BY <1>3, <2>1
  <2> QED
    BY <1>3, <2>1, <2>2 DEF Precedes
<1>7. ASSUME NEW x, NEW y, x \notin A, y \notin A, Precedes(s, x, y) PROVE Precedes(t, x, y)
  <2>1. PICK a \in 1 .. Len(s), b \in 1 .. Len(s) : a < b /\ s[a] = x /\ s[b] = y
    BY <1>3, <1>7 DEF Precedes
  <2>2. PICK i \in 1 .. Len(t) : f[i] = a
    BY <1>3, <1>7, <2>1
  <2>3. PICK j \in 1 .. Len(t) : f[j] = b
    BY <1>3, <1>7, <2>1
  <2>4. i < j
    <3>0. i \in Int /\ j \in Int /\ a \in Int /\ b \in Int
      BY <1>3
    <3>1. ASSUME j < i PROVE FALSE
      <4>1. f[j] < f[i]
        BY <1>3, <3>1
      <4> QED
        BY <2>1, <2>2, <2>3, <3>0, <4>1
    <3>2. ASSUME j = i PROVE FALSE
      BY <2>1, <2>2, <2>3, <3>0, <3>2
    <3> QED
      BY <3>0, <3>1, <3>2
  <2> QED
    BY <1>3, <2>1, <2>2, <2>3, <2>4 DEF Precedes
<1> QED
  BY <1>1, <1>4, <1>5, <1>6, <1>7 DEF t

\* One element is taken out.
LEMMA RemoveAtIs ==
  ASSUME NEW S, NEW s \in Seq(S), NEW p \in 1 .. Len(s)
  PROVE  /\ RemoveAt(s, p) \in Seq(S) /\ Len(RemoveAt(s, p)) = Len(s) - 1
         /\ \A k \in 1 .. Len(s) - 1 : RemoveAt(s, p)[k] = IF k < p THEN s[k] ELSE s[k + 1]
<1> DEFINE u == SubSeq(s, 1, p - 1)
           w == SubSeq(s, p + 1, Len(s))
<1>1. /\ u \in Seq(S) /\ Len(u) = p - 1 /\ \A k \in 1 .. p - 1 : u[k] = s[k]
      /\ w \in Seq(S) /\ Len(w) = Len(s) - p /\ \A k \in 1 .. Len(s) - p : w[k] = s[p + k]
  OBVIOUS
<1> HIDE DEF u, w
<1>2. RemoveAt(s, p) = u \o w
  BY DEF RemoveAt, u, w
<1>3. /\ u \o w \in Seq(S) /\ Len(u \o w) = Len(s) - 1
      /\ \A k \in 1 .. Len(s) - 1 : (u \o w)[k] = IF k <= p - 1 THEN u[k] ELSE w[k - (p - 1)]
  <2>1. /\ u \o w \in Seq(S) /\ Len(u \o w) = Len(u) + Len(w)
        /\ \A k \in 1 .. Len(u) + Len(w) :
             (u \o w)[k] = IF k <= Len(u) THEN u[k] ELSE w[k - Len(u)]
    <3>1. u \in Seq(S) /\ w \in Seq(S)
      BY <1>1
    <3> QED
      BY <3>1, ConcatProperties
  <2>2. Len(u) = p - 1 /\ Len(u) + Len(w) = Len(s) - 1
    BY <1>1
  <2> QED
    BY <2>1, <2>2
<1>4. ASSUME NEW k \in 1 .. Len(s) - 1
      PROVE  (u \o w)[k] = IF k < p THEN s[k] ELSE s[k + 1]
  <2>1. CASE k < p
    BY <1>1, <1>3, <2>1
  <2>2. CASE ~(k < p)
    <3>1. k - (p - 1) \in 1 .. Len(s) - p /\ p + (k - (p - 1)) = k + 1
      <4>1. Len(s) \in Nat /\ p \in Nat /\ k \in Nat /\ k <= Len(s) - 1 /\ k >= p
        BY <2>2
      <4> QED
        BY <4>1
    <3> QED
      BY <1>1, <1>3, <2>2, <3>1
  <2> QED
    BY <2>1, <2>2
<1> QED
  BY <1>2, <1>3, <1>4

LEMMA InsertAtIs ==
  ASSUME NEW S, NEW s \in Seq(S), NEW x \in S, NEW p \in 1 .. Len(s) + 1
  PROVE  /\ InsertAt(s, p, x) \in Seq(S) /\ Len(InsertAt(s, p, x)) = Len(s) + 1
         /\ \A k \in 1 .. Len(s) + 1 :
              InsertAt(s, p, x)[k] = IF k < p THEN s[k] ELSE IF k = p THEN x ELSE s[k - 1]
<1> DEFINE u == SubSeq(s, 1, p - 1)
           w == SubSeq(s, p, Len(s))
           v == u \o <<x>>
<1>1. /\ u \in Seq(S) /\ Len(u) = p - 1 /\ \A k \in 1 .. p - 1 : u[k] = s[k]
      /\ w \in Seq(S) /\ Len(w) = Len(s) - p + 1
      /\ \A k \in 1 .. Len(s) - p + 1 : w[k] = s[p + k - 1]
  OBVIOUS
<1> HIDE DEF u, w
<1>2. /\ v \in Seq(S) /\ Len(v) = p
      /\ \A k \in 1 .. p : v[k] = IF k < p THEN s[k] ELSE x
  <2>1. v = Append(u, x) /\ Append(u, x) \in Seq(S) /\ Len(Append(u, x)) = p
    BY <1>1
  <2>2. \A k \in 1 .. p : Append(u, x)[k] = IF k < p THEN s[k] ELSE x
    BY <1>1
  <2> HIDE DEF v
  <2> QED
    BY <2>1, <2>2
<1>3. InsertAt(s, p, x) = v \o w
  BY DEF InsertAt, u, w
<1> HIDE DEF v
<1>4. /\ v \o w \in Seq(S) /\ Len(v \o w) = Len(s) + 1
      /\ \A k \in 1 .. Len(s) + 1 : (v \o w)[k] = IF k <= p THEN v[k] ELSE w[k - p]
  <2>1. /\ v \o w \in Seq(S) /\ Len(v \o w) = Len(v) + Len(w)
        /\ \A k \in 1 .. Len(v) + Len(w) :
             (v \o w)[k] = IF k <= Len(v) THEN v[k] ELSE w[k - Len(v)]
    <3>1. v \in Seq(S) /\ w \in Seq(S)
      BY <1>1, <1>2
    <3> QED
      BY <3>1, ConcatProperties
  <2>2. Len(v) = p /\ Len(v) + Len(w) = Len(s) + 1
    BY <1>1, <1>2
  <2> QED
    BY <2>1, <2>2
<1>5. ASSUME NEW k \in 1 .. Len(s) + 1
      PROVE  (v \o w)[k] = IF k < p THEN s[k] ELSE IF k = p THEN x ELSE s[k - 1]
  <2>1. CASE k <= p
    BY <1>2, <1>4, <2>1
  <2>2. CASE ~(k <= p)
    <3>1. k - p \in 1 .. Len(s) - p + 1 /\ p + (k - p) - 1 = k - 1
      BY <2>2
    <3> QED
      BY <1>1, <1>4, <2>2, <3>1
  <2> QED
    BY <2>1, <2>2
<1> QED
  BY <1>3, <1>4, <1>5

LEMMA WithoutProperties ==
  ASSUME NEW S, NEW s \in Seq(S), IsInjective(s), NEW x
  PROVE  /\ Without(s, x) \in Seq(S) /\ ToSet(Without(s, x)) = ToSet(s) \ {x}
         /\ IsInjective(Without(s, x))
         /\ \A y, z : Precedes(Without(s, x), y, z) <=> y # x /\ z # x /\ Precedes(s, y, z)
<1>0. DOMAIN s = 1 .. Len(s) /\ Len(s) \in Nat /\ \A a, b \in 1 .. Len(s) : s[a] = s[b] => a = b
  BY DEF IsInjective
<1>1. CASE x \notin ToSet(s)
  <2>1. Without(s, x) = s
    BY <1>1, InSequence DEF Without
  <2>2. \A y, z : Precedes(s, y, z) => y \in ToSet(s) /\ z \in ToSet(s)
    BY DEF Precedes, ToSet
  <2> QED
    BY <1>1, <2>1, <2>2
<1>2. CASE x \in ToSet(s)
  <2> DEFINE p == CHOOSE i \in DOMAIN s : s[i] = x
             t == RemoveAt(s, p)
             n == Len(s) - 1
  <2>1. p \in 1 .. Len(s) /\ s[p] = x
    BY <1>0, <1>2 DEF ToSet
  <2>2. Without(s, x) = t
    BY <1>2, InSequence DEF Without
  <2> HIDE DEF p
  <2>3. /\ t \in Seq(S) /\ Len(t) = n /\ n \in Nat /\ DOMAIN t = 1 .. n
        /\ \A k \in 1 .. n : t[k] = IF k < p THEN s[k] ELSE s[k + 1]
    <3>1. /\ t \in Seq(S) /\ Len(t) = n
          /\ \A k \in 1 .. n : t[k] = IF k < p THEN s[k] ELSE s[k + 1]
      BY <2>1, RemoveAtIs
    <3> HIDE DEF t
    <3>2. n \in Nat
      BY <1>0, <2>1
    <3> QED
      BY <3>1, <3>2
  <2> HIDE DEF t
  \* Where an element of t is in s, and back.
  <2>4. \A k \in 1 .. n : LET i == IF k < p THEN k ELSE k + 1
                         IN  i \in 1 .. Len(s) /\ i # p /\ t[k] = s[i]
    BY <1>0, <2>1, <2>3
  <2>5. \A i \in 1 .. Len(s) : i # p =>
          LET k == IF i < p THEN i ELSE i - 1
          IN  k \in 1 .. n /\ t[k] = s[i]
    <3> SUFFICES ASSUME NEW i \in 1 .. Len(s), i # p
                 PROVE  LET k == IF i < p THEN i ELSE i - 1 IN k \in 1 .. n /\ t[k] = s[i]
      OBVIOUS
    <3>1. CASE i < p
      BY <1>0, <2>1, <2>3, <3>1
    <3>2. CASE ~(i < p)
      <4>1. i - 1 \in 1 .. n /\ ~(i - 1 < p) /\ (i - 1) + 1 = i
        BY <1>0, <2>1, <3>2
      <4> QED
        BY <2>3, <3>2, <4>1
    <3> QED
      BY <3>1, <3>2
  <2>6. ToSet(t) = ToSet(s) \ {x}
    <3>1. ASSUME NEW y \in ToSet(t) PROVE y \in ToSet(s) \ {x}
      <4>1. PICK k \in 1 .. n : t[k] = y
        BY <2>3, <3>1 DEF ToSet
      <4> DEFINE i == IF k < p THEN k ELSE k + 1
      <4>2. i \in 1 .. Len(s) /\ i # p /\ y = s[i]
        BY <2>4, <4>1
      <4> HIDE DEF i
      <4> QED
        BY <1>0, <2>1, <4>2 DEF ToSet
    <3>2. ASSUME NEW y \in ToSet(s) \ {x} PROVE y \in ToSet(t)
      <4>1. PICK i \in 1 .. Len(s) : s[i] = y
        BY <1>0 DEF ToSet
      <4>2. i # p
        BY <2>1, <4>1
      <4>3. \E k \in 1 .. n : t[k] = y
        BY <2>5, <4>1, <4>2
      <4> QED
        BY <2>3, <4>3 DEF ToSet
    <3> QED
      BY <3>1, <3>2
  <2>7. IsInjective(t)
    <3> SUFFICES ASSUME NEW k \in 1 .. n, NEW l \in 1 .. n, t[k] = t[l] PROVE k = l
      BY <2>3 DEF IsInjective
    <3> DEFINE i == IF k < p THEN k ELSE k + 1
               j == IF l < p THEN l ELSE l + 1
    <3>1. i \in 1 .. Len(s) /\ j \in 1 .. Len(s) /\ s[i] = s[j]
      BY <2>4
    <3>2. i = j
      BY <1>0, <3>1
    <3> QED
      BY <2>1, <2>3, <3>2
  <2>8. ASSUME NEW y, NEW z, Precedes(t, y, z) PROVE y # x /\ z # x /\ Precedes(s, y, z)
    <3>1. PICK k \in 1 .. n, l \in 1 .. n : k < l /\ t[k] = y /\ t[l] = z
      BY <2>3, <2>8 DEF Precedes
    <3> DEFINE i == IF k < p THEN k ELSE k + 1
               j == IF l < p THEN l ELSE l + 1
    <3>2. /\ i \in 1 .. Len(s) /\ i # p /\ s[i] = y
          /\ j \in 1 .. Len(s) /\ j # p /\ s[j] = z
      BY <2>4, <3>1
    <3>3. i < j
      BY <2>1, <2>3, <3>1
    <3> HIDE DEF i, j
    <3> QED
      BY <1>0, <2>1, <3>2, <3>3 DEF Precedes
  <2>9. ASSUME NEW y, NEW z, y # x, z # x, Precedes(s, y, z) PROVE Precedes(t, y, z)
    <3>1. PICK i \in 1 .. Len(s), j \in 1 .. Len(s) : i < j /\ s[i] = y /\ s[j] = z
      BY <1>0, <2>9 DEF Precedes
    <3> DEFINE k == IF i < p THEN i ELSE i - 1
               l == IF j < p THEN j ELSE j - 1
    <3>2. i # p /\ j # p
      BY <2>1, <2>9, <3>1
    <3>3. k \in 1 .. n /\ t[k] = y /\ l \in 1 .. n /\ t[l] = z
      BY <2>5, <3>1, <3>2
    <3>4. k < l
      BY <1>0, <2>1, <3>1, <3>2
    <3> HIDE DEF k, l
    <3> QED
      BY <2>3, <3>3, <3>4 DEF Precedes
  <2> QED
    BY <2>2, <2>3, <2>6, <2>7, <2>8, <2>9
<1> QED
  BY <1>1, <1>2

LEMMA PutBefore ==
  ASSUME NEW S, NEW s \in Seq(S), IsInjective(s), NEW x \in S, x \notin ToSet(s),
         NEW ref \in ToSet(s),
         NEW t, t = InsertAt(s, CHOOSE i \in DOMAIN s : s[i] = ref, x)
  PROVE  /\ t \in Seq(S) /\ ToSet(t) = ToSet(s) \cup {x} /\ IsInjective(t)
         /\ \A y, z : Precedes(t, y, z) <=>
               \/ Precedes(s, y, z)
               \/ y = x /\ (z = ref \/ Precedes(s, ref, z))
               \/ z = x /\ Precedes(s, y, ref)
<1> DEFINE p == CHOOSE i \in DOMAIN s : s[i] = ref
           n == Len(s)
<1>0. DOMAIN s = 1 .. n /\ n \in Nat /\ \A a, b \in 1 .. n : s[a] = s[b] => a = b
  BY DEF IsInjective
<1>1. p \in 1 .. n /\ s[p] = ref
  BY <1>0 DEF ToSet
<1>2. t = InsertAt(s, p, x)
  OBVIOUS
<1> HIDE DEF p
<1>3. /\ t \in Seq(S) /\ DOMAIN t = 1 .. n + 1
      /\ \A k \in 1 .. n + 1 : t[k] = IF k < p THEN s[k] ELSE IF k = p THEN x ELSE s[k - 1]
  <2>1. p \in 1 .. Len(s) + 1
    BY <1>0, <1>1
  <2>2. /\ t \in Seq(S) /\ Len(t) = n + 1
        /\ \A k \in 1 .. n + 1 : t[k] = IF k < p THEN s[k] ELSE IF k = p THEN x ELSE s[k - 1]
    <3>1. /\ InsertAt(s, p, x) \in Seq(S) /\ Len(InsertAt(s, p, x)) = Len(s) + 1
          /\ \A k \in 1 .. Len(s) + 1 :
               InsertAt(s, p, x)[k] = IF k < p THEN s[k] ELSE IF k = p THEN x ELSE s[k - 1]
      BY <2>1, InsertAtIs
    <3> QED
      BY <1>2, <3>1
  <2>3. DOMAIN t = 1 .. Len(t)
    BY <2>2
  <2> HIDE DEF n
  <2> QED
    BY <2>2, <2>3
<1> HIDE DEF n
<1>4. \A i \in 1 .. n : LET k == IF i < p THEN i ELSE i + 1
                       IN  k \in 1 .. n + 1 /\ k # p /\ t[k] = s[i]
  <2> SUFFICES ASSUME NEW i \in 1 .. n
               PROVE  LET k == IF i < p THEN i ELSE i + 1
                      IN  k \in 1 .. n + 1 /\ k # p /\ t[k] = s[i]
    OBVIOUS
  <2>1. CASE i < p
    BY <1>0, <1>1, <1>3, <2>1
  <2>2. CASE ~(i < p)
    <3>1. i + 1 \in 1 .. n + 1 /\ ~(i + 1 < p) /\ i + 1 # p /\ (i + 1) - 1 = i
      BY <1>0, <1>1, <2>2
    <3> QED
      BY <1>3, <2>2, <3>1
  <2> QED
    BY <2>1, <2>2
<1>5. p \in 1 .. n + 1 /\ t[p] = x
  BY <1>0, <1>1, <1>3
<1>6. \A k \in 1 .. n + 1 : k # p =>
        LET i == IF k < p THEN k ELSE k - 1 IN i \in 1 .. n /\ t[k] = s[i]
  BY <1>0, <1>1, <1>3
<1>x. \A i \in 1 .. n : s[i] # x
  BY <1>0 DEF ToSet
<1>7. ToSet(t) = ToSet(s) \cup {x}
  <2>1. ASSUME NEW y \in ToSet(t) PROVE y \in ToSet(s) \cup {x}
    <3>1. PICK k \in 1 .. n + 1 : t[k] = y
      BY <1>3 DEF ToSet
    <3>2. CASE k = p
      BY <1>5, <3>1, <3>2
    <3>3. CASE k # p
      BY <1>0, <1>6, <3>1, <3>3 DEF ToSet
    <3> QED
      BY <3>2, <3>3
  <2>2. ASSUME NEW y \in ToSet(s) PROVE y \in ToSet(t)
    <3>1. PICK i \in 1 .. n : s[i] = y
      BY <1>0 DEF ToSet
    <3>2. \E k \in 1 .. n + 1 : t[k] = y
      BY <1>4, <3>1
    <3> QED
      BY <1>3, <3>2 DEF ToSet
  <2>3. x \in ToSet(t)
    BY <1>3, <1>5 DEF ToSet
  <2> QED
    BY <2>1, <2>2, <2>3
<1>8. IsInjective(t)
  <2> SUFFICES ASSUME NEW k \in 1 .. n + 1, NEW l \in 1 .. n + 1, t[k] = t[l] PROVE k = l
    BY <1>3 DEF IsInjective
  <2>1. CASE k = p
    BY <1>5, <1>6, <1>x, <2>1
  <2>2. CASE l = p
    BY <1>5, <1>6, <1>x, <2>2
  <2>3. CASE k # p /\ l # p
    <3> DEFINE i == IF k < p THEN k ELSE k - 1
               j == IF l < p THEN l ELSE l - 1
    <3>1. i \in 1 .. n /\ j \in 1 .. n /\ s[i] = s[j]
      BY <1>6, <2>3
    <3>2. i = j
      BY <1>0, <3>1
    <3> QED
      BY <1>0, <1>1, <2>3, <3>2
  <2> QED
    BY <2>1, <2>2, <2>3
<1>9. ASSUME NEW y, NEW z, Precedes(t, y, z)
      PROVE  \/ Precedes(s, y, z)
             \/ y = x /\ (z = ref \/ Precedes(s, ref, z))
             \/ z = x /\ Precedes(s, y, ref)
  <2>1. PICK k \in 1 .. n + 1, l \in 1 .. n + 1 : k < l /\ t[k] = y /\ t[l] = z
    BY <1>3, <1>9 DEF Precedes
  <2> DEFINE i == IF k < p THEN k ELSE k - 1
             j == IF l < p THEN l ELSE l - 1
  <2>2. /\ k # p => i \in 1 .. n /\ s[i] = y
        /\ l # p => j \in 1 .. n /\ s[j] = z
    BY <1>6, <2>1
  <2>3. CASE k # p /\ l # p
    <3>1. i < j
      BY <1>0, <1>1, <2>1, <2>3
    <3> HIDE DEF i, j
    <3> QED
      BY <1>0, <2>2, <2>3, <3>1 DEF Precedes
  <2>4. CASE k = p
    <3>1. j \in 1 .. n /\ s[j] = z /\ j >= p /\ y = x
      BY <1>0, <1>1, <1>5, <2>1, <2>2, <2>4
    <3> HIDE DEF j
    <3>2. j = p \/ p < j
      BY <1>1, <3>1
    <3> QED
      BY <1>0, <1>1, <3>1, <3>2 DEF Precedes
  <2>5. CASE l = p
    <3>1. i \in 1 .. n /\ s[i] = y /\ i < p /\ z = x
      BY <1>0, <1>1, <1>5, <2>1, <2>2, <2>5
    <3> HIDE DEF i
    <3> QED
      BY <1>0, <1>1, <3>1 DEF Precedes
  <2> QED
    BY <2>3, <2>4, <2>5
<1>10. ASSUME NEW y, NEW z, NEW a \in 1 .. n, NEW b \in 1 .. n, a < b, s[a] = y, s[b] = z
       PROVE  Precedes(t, y, z)
  <2> DEFINE k == IF a < p THEN a ELSE a + 1
             l == IF b < p THEN b ELSE b + 1
  <2>1. k \in 1 .. n + 1 /\ l \in 1 .. n + 1 /\ t[k] = y /\ t[l] = z
    BY <1>4, <1>10
  <2>2. k < l
    BY <1>0, <1>1, <1>10
  <2> HIDE DEF k, l
  <2> QED
    BY <1>3, <2>1, <2>2 DEF Precedes
<1>11. ASSUME NEW y, NEW z, Precedes(s, y, z) PROVE Precedes(t, y, z)
  <2>1. PICK a \in 1 .. n, b \in 1 .. n : a < b /\ s[a] = y /\ s[b] = z
    BY <1>0, <1>11 DEF Precedes
  <2> QED
    BY <1>10, <2>1
<1>12. ASSUME NEW b \in 1 .. n, ~(b < p) PROVE Precedes(t, x, s[b])
  <2>1. b + 1 \in 1 .. n + 1 /\ t[b + 1] = s[b] /\ p < b + 1
    BY <1>0, <1>1, <1>4, <1>12
  <2> QED
    BY <1>3, <1>5, <2>1 DEF Precedes
<1>13. ASSUME NEW a \in 1 .. n, a < p PROVE Precedes(t, s[a], x)
  <2>1. a \in 1 .. n + 1 /\ t[a] = s[a]
    BY <1>0, <1>4, <1>13
  <2> QED
    BY <1>3, <1>5, <1>13, <2>1 DEF Precedes
<1>14. ASSUME NEW z, z = ref \/ Precedes(s, ref, z) PROVE Precedes(t, x, z)
  <2>1. CASE z = ref
    <3>1. ~(p < p)
      BY <1>0, <1>1
    <3> QED
      BY <1>1, <1>12, <2>1, <3>1
  <2>2. CASE Precedes(s, ref, z)
    <3>1. PICK a \in 1 .. n, b \in 1 .. n : a < b /\ s[a] = ref /\ s[b] = z
      BY <1>0, <2>2 DEF Precedes
    <3>2. ~(b < p)
      BY <1>0, <1>1, <3>1
    <3> QED
      BY <1>12, <3>1, <3>2
  <2> QED
    BY <1>14, <2>1, <2>2
<1>15. ASSUME NEW y, Precedes(s, y, ref) PROVE Precedes(t, y, x)
  <2>1. PICK a \in 1 .. n, b \in 1 .. n : a < b /\ s[a] = y /\ s[b] = ref
    BY <1>0, <1>15 DEF Precedes
  <2>2. a < p
    BY <1>0, <1>1, <2>1
  <2> QED
    BY <1>13, <2>1, <2>2
<1> QED
  BY <1>3, <1>7, <1>8, <1>9, <1>11, <1>14, <1>15

LEMMA PutLast ==
  ASSUME NEW S, NEW s \in Seq(S), IsInjective(s), NEW x \in S, x \notin ToSet(s)
  PROVE  /\ Append(s, x) \in Seq(S) /\ ToSet(Append(s, x)) = ToSet(s) \cup {x}
         /\ IsInjective(Append(s, x))
         /\ \A y, z : Precedes(Append(s, x), y, z) <=>
               Precedes(s, y, z) \/ (z = x /\ y \in ToSet(s))
<1> DEFINE t == Append(s, x)
           n == Len(s)
<1>0. /\ DOMAIN s = 1 .. n /\ n \in Nat /\ \A a, b \in 1 .. n : s[a] = s[b] => a = b
      /\ \A i \in 1 .. n : s[i] # x
  BY DEF IsInjective, ToSet
<1>1. /\ t \in Seq(S) /\ DOMAIN t = 1 .. n + 1
      /\ t[n + 1] = x /\ \A i \in 1 .. n : t[i] = s[i] /\ i \in 1 .. n + 1
  OBVIOUS
<1> HIDE DEF t, n
<1>2. \A k \in 1 .. n + 1 : k = n + 1 \/ k \in 1 .. n
  BY <1>0
<1>3. ToSet(t) = ToSet(s) \cup {x}
  BY <1>0, <1>1, <1>2 DEF ToSet
<1>4. IsInjective(t)
  BY <1>0, <1>1, <1>2 DEF IsInjective
<1>5. ASSUME NEW y, NEW z, Precedes(t, y, z)
      PROVE  Precedes(s, y, z) \/ (z = x /\ y \in ToSet(s))
  <2>1. PICK k \in 1 .. n + 1, l \in 1 .. n + 1 : k < l /\ t[k] = y /\ t[l] = z
    BY <1>1, <1>5 DEF Precedes
  <2>2. k \in 1 .. n
    BY <1>0, <2>1
  <2>3. CASE l = n + 1
    BY <1>0, <1>1, <2>1, <2>2, <2>3 DEF ToSet
  <2>4. CASE l \in 1 .. n
    BY <1>0, <1>1, <2>1, <2>2, <2>4 DEF Precedes
  <2> QED
    BY <1>2, <2>3, <2>4
<1>6. ASSUME NEW y, NEW z, Precedes(s, y, z) PROVE Precedes(t, y, z)
  BY <1>0, <1>1, <1>6 DEF Precedes
<1>7. ASSUME NEW y \in ToSet(s) PROVE Precedes(t, y, x)
  <2>1. PICK i \in 1 .. n : s[i] = y
    BY <1>0 DEF ToSet
  <2>2. i < n + 1 /\ n + 1 \in 1 .. n + 1
    BY <1>0
  <2> QED
    BY <1>1, <2>1, <2>2 DEF Precedes
<1> QED
  BY <1>1, <1>3, <1>4, <1>5, <1>6, <1>7 DEF t

LEMMA WithinProperties ==
  ASSUME NEW S, NEW s \in Seq(S), NEW A
  PROVE  /\ Within(s, A) \in Seq(S)
         /\ ToSet(Within(s, A)) = ToSet(s) \cap A
         /\ IsInjective(s) => IsInjective(Within(s, A))
         /\ \A x, y : Precedes(Within(s, A), x, y) <=> x \in A /\ y \in A /\ Precedes(s, x, y)
<1> DEFINE B == ToSet(s) \ A
<1>1. \A x, y : Precedes(s, x, y) => x \in ToSet(s) /\ y \in ToSet(s)
  BY DEF Precedes, ToSet
<1>2. /\ Outside(s, B) \in Seq(S)
      /\ ToSet(Outside(s, B)) = ToSet(s) \ B
      /\ IsInjective(s) => IsInjective(Outside(s, B))
      /\ \A x, y : Precedes(Outside(s, B), x, y) <=> x \notin B /\ y \notin B /\ Precedes(s, x, y)
  BY OutsideProperties
<1> QED
  BY <1>1, <1>2 DEF Within

LEMMA JoinedWith ==
  ASSUME NEW S, NEW s \in Seq(S), NEW t \in Seq(S), IsInjective(s), IsInjective(t),
         ToSet(s) \cap ToSet(t) = {}
  PROVE  s \o t \in Seq(S) /\ IsInjective(s \o t) /\ ToSet(s \o t) = ToSet(s) \cup ToSet(t)
<1> DEFINE u == s \o t
           n == Len(s)
           m == Len(t)
<1>1. /\ DOMAIN s = 1 .. n /\ n \in Nat /\ DOMAIN t = 1 .. m /\ m \in Nat
      /\ \A i, j \in 1 .. n : s[i] = s[j] => i = j
      /\ \A i, j \in 1 .. m : t[i] = t[j] => i = j
      /\ \A i \in 1 .. n, j \in 1 .. m : s[i] # t[j]
  BY DEF IsInjective, ToSet
<1>2. /\ u \in Seq(S) /\ DOMAIN u = 1 .. n + m
      /\ \A i \in 1 .. n + m : u[i] = IF i <= n THEN s[i] ELSE t[i - n]
  BY ConcatProperties
<1> HIDE DEF u, n, m
<1>3. \A i \in 1 .. n + m : IF i <= n THEN i \in 1 .. n /\ u[i] = s[i]
                            ELSE i - n \in 1 .. m /\ u[i] = t[i - n]
  BY <1>1, <1>2
<1>4. IsInjective(u)
  <2> SUFFICES ASSUME NEW i \in 1 .. n + m, NEW j \in 1 .. n + m, u[i] = u[j] PROVE i = j
    BY <1>2 DEF IsInjective
  <2>1. CASE i <= n /\ j <= n
    BY <1>1, <1>3, <2>1
  <2>2. CASE ~(i <= n) /\ ~(j <= n)
    <3>1. i - n = j - n
      BY <1>1, <1>3, <2>2
    <3> QED
      BY <1>1, <3>1
  <2>3. CASE i <= n /\ ~(j <= n)
    BY <1>1, <1>3, <2>3
  <2>4. CASE ~(i <= n) /\ j <= n
    <3>1. u[j] = s[j] /\ j \in 1 .. n /\ u[i] = t[i - n] /\ i - n \in 1 .. m
      BY <1>3, <2>4
    <3> QED
      BY <1>1, <3>1
  <2> QED
    BY <2>1, <2>2, <2>3, <2>4
<1>5. ASSUME NEW k PROVE k \in ToSet(u) <=> k \in ToSet(s) \/ k \in ToSet(t)
  <2>1. ASSUME NEW i \in 1 .. n PROVE s[i] \in ToSet(u)
    <3>1. i \in 1 .. n + m /\ u[i] = s[i]
      BY <1>1, <1>2
    <3> QED
      BY <1>2, <3>1 DEF ToSet
  <2>2. ASSUME NEW i \in 1 .. m PROVE t[i] \in ToSet(u)
    <3>1. n + i \in 1 .. n + m /\ u[n + i] = t[i]
      BY <1>1, <1>2
    <3> QED
      BY <1>2, <3>1 DEF ToSet
  <2>3. ASSUME NEW i \in 1 .. n + m PROVE u[i] \in ToSet(s) \/ u[i] \in ToSet(t)
    BY <1>1, <1>3 DEF ToSet
  <2> QED
    BY <1>1, <1>2, <2>1, <2>2, <2>3 DEF ToSet
<1> QED
  BY <1>2, <1>4, <1>5 DEF u

\* In a sequence without repetition one of two elements comes first.
LEMMA LinearIn ==
  ASSUME NEW S, NEW s \in Seq(S), IsInjective(s)
  PROVE  /\ \A x, y : Precedes(s, x, y) => x \in ToSet(s) /\ y \in ToSet(s) /\ ~Precedes(s, y, x)
         /\ \A x, y, w : Precedes(s, x, y) /\ Precedes(s, y, w) => Precedes(s, x, w)
         /\ \A x \in ToSet(s), y \in ToSet(s) : x = y \/ Precedes(s, x, y) \/ Precedes(s, y, x)
         /\ \A x : ~Precedes(s, x, x)
<1>1. /\ DOMAIN s = 1 .. Len(s) /\ Len(s) \in Nat
      /\ \A i, j \in 1 .. Len(s) : s[i] = s[j] => i = j
  BY DEF IsInjective
<1>2. \A x, y : Precedes(s, x, y) => x \in ToSet(s) /\ y \in ToSet(s)
  BY DEF Precedes, ToSet
<1>3. ASSUME NEW x, NEW y, Precedes(s, x, y), Precedes(s, y, x) PROVE FALSE
  <2>1. PICK i \in 1 .. Len(s), j \in 1 .. Len(s) : i < j /\ s[i] = x /\ s[j] = y
    BY <1>1, <1>3 DEF Precedes
  <2>2. PICK k \in 1 .. Len(s), l \in 1 .. Len(s) : k < l /\ s[k] = y /\ s[l] = x
    BY <1>1, <1>3 DEF Precedes
  <2>3. j = k /\ i = l
    BY <1>1, <2>1, <2>2
  <2> QED
    BY <1>1, <2>1, <2>2, <2>3
<1>4. ASSUME NEW x, NEW y, NEW w, Precedes(s, x, y), Precedes(s, y, w)
      PROVE  Precedes(s, x, w)
  <2>1. PICK i \in 1 .. Len(s), j \in 1 .. Len(s) : i < j /\ s[i] = x /\ s[j] = y
    BY <1>1, <1>4 DEF Precedes
  <2>2. PICK k \in 1 .. Len(s), l \in 1 .. Len(s) : k < l /\ s[k] = y /\ s[l] = w
    BY <1>1, <1>4 DEF Precedes
  <2>3. j = k
    BY <1>1, <2>1, <2>2
  <2>4. i < l
    BY <1>1, <2>1, <2>2, <2>3
  <2> QED
    BY <1>1, <2>1, <2>2, <2>4 DEF Precedes
<1>5. ASSUME NEW x \in ToSet(s), NEW y \in ToSet(s)
      PROVE  x = y \/ Precedes(s, x, y) \/ Precedes(s, y, x)
  <2>1. PICK i \in 1 .. Len(s), j \in 1 .. Len(s) : s[i] = x /\ s[j] = y
    BY <1>1 DEF ToSet
  <2>2. i = j \/ i < j \/ j < i
    BY <1>1
  <2> QED
    BY <1>1, <2>1, <2>2 DEF Precedes
<1> QED
  BY <1>2, <1>3, <1>4, <1>5

\* Two sequences of the same elements in the same order are the same.
LEMMA SameOrder ==
  ASSUME NEW S, NEW s \in Seq(S), NEW t \in Seq(S), IsInjective(s), IsInjective(t),
         ToSet(s) = ToSet(t), \A x, y : Precedes(s, x, y) => Precedes(t, x, y)
  PROVE  s = t
<1> DEFINE n == Len(s)
           m == Len(t)
<1>1. /\ DOMAIN s = 1 .. n /\ n \in Nat /\ DOMAIN t = 1 .. m /\ m \in Nat
      /\ \A i, j \in 1 .. n : s[i] = s[j] => i = j
      /\ \A i, j \in 1 .. m : t[i] = t[j] => i = j
  BY DEF IsInjective
<1> DEFINE f == [i \in 1 .. n |-> CHOOSE k \in 1 .. m : t[k] = s[i]]
<1> HIDE DEF n, m
<1>2. \A i \in 1 .. n : f[i] \in 1 .. m /\ t[f[i]] = s[i]
  <2> TAKE i \in 1 .. n
  <2>1. s[i] \in ToSet(t)
    BY <1>1 DEF ToSet
  <2>2. \E k \in 1 .. m : t[k] = s[i]
    BY <1>1, <2>1 DEF ToSet
  <2> QED
    BY <2>2
<1>3. \A k \in 1 .. m : \E i \in 1 .. n : f[i] = k
  <2> TAKE k \in 1 .. m
  <2>1. t[k] \in ToSet(s)
    BY <1>1 DEF ToSet
  <2>2. PICK i \in 1 .. n : s[i] = t[k]
    BY <1>1, <2>1 DEF ToSet
  <2> HIDE DEF f
  <2> QED
    BY <1>1, <1>2, <2>2
<1> HIDE DEF f
<1>4. \A i, j \in 1 .. n : i < j => f[i] < f[j]
  <2> SUFFICES ASSUME NEW i \in 1 .. n, NEW j \in 1 .. n, i < j PROVE f[i] < f[j]
    OBVIOUS
  <2>1. Precedes(s, s[i], s[j])
    BY <1>1 DEF Precedes
  <2>3. Precedes(t, s[i], s[j])
    BY <2>1
  <2>2. PICK k \in 1 .. m, l \in 1 .. m : k < l /\ t[k] = s[i] /\ t[l] = s[j]
    BY <1>1, <2>3 DEF Precedes
  <2> QED
    BY <1>1, <1>2, <2>2
<1> DEFINE G == {q \in 0 .. n : \A i \in 1 .. q : f[i] = i}
<1>5. 0 \in G
  BY <1>1
<1>6. ASSUME NEW q \in 0 .. n, q # n, q \in G PROVE q + 1 \in G
  <2>1. q + 1 \in 1 .. n /\ q + 1 \in 0 .. n
    BY <1>1, <1>6
  <2>2. f[q + 1] \in 1 .. m /\ f[q + 1] \in Nat
    BY <1>2, <2>1
  <2>3. f[q + 1] >= q + 1
    <3>1. CASE q = 0
      BY <1>1, <2>2, <3>1
    <3>2. CASE q # 0
      <4>1. q \in 1 .. q /\ q \in 1 .. n /\ q < q + 1
        BY <1>1, <3>2
      <4>2. f[q] = q /\ f[q] < f[q + 1]
        BY <1>4, <1>6, <2>1, <4>1
      <4> QED
        BY <2>1, <2>2, <4>2
    <3> QED
      BY <3>1, <3>2
  <2>4. ASSUME f[q + 1] > q + 1 PROVE FALSE
    <3>1. q + 1 \in 1 .. m
      BY <1>1, <2>1, <2>2, <2>4
    <3>2. PICK i \in 1 .. n : f[i] = q + 1
      BY <1>3, <3>1
    <3>3. CASE i \in 1 .. q
      BY <1>6, <3>2, <3>3
    <3>4. CASE i = q + 1
      BY <2>1, <2>4, <3>2, <3>4
    <3>5. CASE i > q + 1
      BY <1>1, <1>4, <2>1, <2>2, <2>4, <3>2, <3>5
    <3> QED
      BY <1>1, <2>1, <3>3, <3>4, <3>5
  <2>5. f[q + 1] = q + 1
    BY <2>1, <2>2, <2>3, <2>4
  <2>6. \A i \in 1 .. q + 1 : i = q + 1 \/ i \in 1 .. q
    BY <1>6
  <2> QED
    BY <1>6, <2>1, <2>5, <2>6
<1>7. \A i \in 1 .. n : f[i] = i
  <2>1. \A q \in 0 .. n : q \in G
    <3> HIDE DEF G
    <3> QED
      BY <1>1, <1>5, <1>6, RangeInduction
  <2> QED
    BY <1>1, <2>1
<1>8. n = m
  <2>1. ASSUME n < m PROVE FALSE
    <3>1. n + 1 \in 1 .. m
      BY <1>1, <2>1
    <3>2. PICK i \in 1 .. n : f[i] = n + 1
      BY <1>3, <3>1
    <3> QED
      BY <1>1, <1>7, <3>2
  <2>2. ASSUME n > m PROVE FALSE
    <3>1. n \in 1 .. n
      BY <1>1, <2>2
    <3> QED
      BY <1>1, <1>2, <1>7, <2>2, <3>1
  <2> QED
    BY <1>1, <2>1, <2>2
<1>9. \A i \in 1 .. n : s[i] = t[i]
  BY <1>2, <1>7
<1> QED
  BY <1>1, <1>8, <1>9 DEF n, m

=============================================================================
