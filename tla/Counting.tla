------------------------------ MODULE Counting ------------------------------
(***************************************************************************)
(* Counting without sums: units of stock or of money are pairs, a total is *)
(* the cardinality of a set of them, and totals are compared group by      *)
(* group.  Then what holds of a finite set because it holds as the set     *)
(* grows.  These facts are about no module of the shop in particular.      *)
(***************************************************************************)
EXTENDS Integers, FiniteSets, FunctionTheorems, FiniteSetTheorems, TLAPS

(* A set that is no larger can be sent one-to-one into the other. *)
LEMMA SmallerFitsIn ==
    ASSUME NEW A, NEW B, IsFiniteSet(A), IsFiniteSet(B), Cardinality(A) <= Cardinality(B)
    PROVE  \E f \in [A -> B] : \A x, y \in A : f[x] = f[y] => x = y
<1>1. /\ Cardinality(A) \in Nat /\ Cardinality(B) \in Nat
      /\ ExistsBijection(1 .. Cardinality(A), A) /\ ExistsBijection(1 .. Cardinality(B), B)
  BY FS_CardinalityType
<1>2. PICK g \in Bijection(1 .. Cardinality(A), A) : TRUE
  BY <1>1 DEF ExistsBijection
<1>3. PICK h \in Bijection(1 .. Cardinality(B), B) : TRUE
  BY <1>1 DEF ExistsBijection
<1>4. /\ g \in [1 .. Cardinality(A) -> A] /\ h \in [1 .. Cardinality(B) -> B]
      /\ \A x \in A : \E n \in 1 .. Cardinality(A) : g[n] = x
      /\ \A m, n \in 1 .. Cardinality(B) : h[m] = h[n] => m = n
  <2>1. /\ g \in [1 .. Cardinality(A) -> A]
        /\ \A x \in A : \E n \in 1 .. Cardinality(A) : g[n] = x
    BY DEF Bijection, Injection, Surjection
  <2>2. /\ h \in [1 .. Cardinality(B) -> B]
        /\ \A m, n \in 1 .. Cardinality(B) : h[m] = h[n] => m = n
    BY DEF Bijection, Injection, IsInjective
  <2> QED
    BY <2>1, <2>2
<1> DEFINE place(x) == CHOOSE n \in 1 .. Cardinality(A) : g[n] = x
           f == [x \in A |-> h[place(x)]]
<1>5. ASSUME NEW x \in A
      PROVE  place(x) \in 1 .. Cardinality(A) /\ g[place(x)] = x /\ place(x) \in 1 .. Cardinality(B)
  <2>1. place(x) \in 1 .. Cardinality(A) /\ g[place(x)] = x
    BY <1>4
  <2> QED
    BY <1>1, <2>1
<1>6. f \in [A -> B]
  BY <1>4, <1>5
<1>7. ASSUME NEW x \in A, NEW y \in A, f[x] = f[y]
      PROVE  x = y
  BY <1>4, <1>5, <1>7
<1> QED
  BY <1>6, <1>7

(* What is sent one-to-one into a finite set is no larger than it. *)
LEMMA FitsInSmaller ==
    ASSUME NEW A, NEW B, IsFiniteSet(B), NEW f \in [A -> B],
           \A x, y \in A : f[x] = f[y] => x = y
    PROVE  IsFiniteSet(A) /\ Cardinality(A) <= Cardinality(B)
<1>1. f \in Injection(A, B)
  BY Fun_IsInj
<1> QED
  BY <1>1, FS_Injection

(* The members of A that p puts into group g. *)
Group(A, p, g) == {a \in A : p[a] = g}

(* Two sets are divided into groups by p and q.  If no group of A is larger*)
(* than the group of B of that name, A is no larger than B.                *)
LEMMA CountedByGroups ==
    ASSUME NEW A, NEW B, NEW G, IsFiniteSet(A), IsFiniteSet(B),
           NEW p \in [A -> G], NEW q \in [B -> G],
           \A g \in G : Cardinality(Group(A, p, g)) <= Cardinality(Group(B, q, g))
    PROVE  Cardinality(A) <= Cardinality(B)
<1> DEFINE AA(g) == Group(A, p, g)
           BB(g) == Group(B, q, g)
           inj(g, f) == \A x, y \in AA(g) : f[x] = f[y] => x = y
           fit(g) == CHOOSE f \in [AA(g) -> BB(g)] : inj(g, f)
           h == [a \in A |-> fit(p[a])[a]]
<1>1. ASSUME NEW g \in G
      PROVE  fit(g) \in [AA(g) -> BB(g)] /\ inj(g, fit(g))
  <2>1. IsFiniteSet(AA(g)) /\ IsFiniteSet(BB(g))
    BY FS_Subset DEF Group
  <2>2. \E f \in [AA(g) -> BB(g)] : inj(g, f)
    <3> HIDE DEF AA, BB
    <3>1. Cardinality(AA(g)) <= Cardinality(BB(g))
      BY DEF AA, BB
    <3> QED
      BY <2>1, <3>1, SmallerFitsIn
  <2> HIDE DEF inj, AA, BB
  <2> QED
    BY <2>2
<1>2. ASSUME NEW a \in A
      PROVE  /\ p[a] \in G /\ a \in AA(p[a])
             /\ h[a] = fit(p[a])[a] /\ h[a] \in B /\ q[h[a]] = p[a]
  <2>1. p[a] \in G /\ a \in AA(p[a]) /\ h[a] = fit(p[a])[a]
    BY DEF Group
  <2> HIDE DEF h, fit
  <2>2. fit(p[a])[a] \in BB(p[a])
    BY <1>1, <2>1
  <2> QED
    BY <2>1, <2>2 DEF Group
<1>3. h \in [A -> B]
  BY <1>2
<1>4. ASSUME NEW x \in A, NEW y \in A, h[x] = h[y]
      PROVE  x = y
  <2> HIDE DEF h, fit
  <2>1. p[x] = p[y] /\ p[x] \in G
    BY <1>2, <1>4
  <2>2. /\ x \in AA(p[x]) /\ y \in AA(p[x])
        /\ fit(p[x])[x] = fit(p[x])[y]
    BY <1>2, <1>4, <2>1
  <2>3. inj(p[x], fit(p[x]))
    BY <1>1, <2>1
  <2> HIDE DEF AA
  <2> QED
    BY <2>2, <2>3
<1> QED
  BY <1>3, <1>4, FitsInSmaller

(* If every group of A is as large as the group of B of that name, the two *)
(* are equally large.                                                      *)
LEMMA EqualByGroups ==
    ASSUME NEW A, NEW B, NEW G, IsFiniteSet(A), IsFiniteSet(B),
           NEW p \in [A -> G], NEW q \in [B -> G],
           \A g \in G : Cardinality(Group(A, p, g)) = Cardinality(Group(B, q, g))
    PROVE  Cardinality(A) = Cardinality(B)
<1>1. Cardinality(A) \in Nat /\ Cardinality(B) \in Nat
  BY FS_CardinalityType
<1>2. \A g \in G : /\ Cardinality(Group(A, p, g)) \in Nat
                   /\ Cardinality(Group(B, q, g)) \in Nat
  BY FS_Subset, FS_CardinalityType DEF Group
<1>3. /\ \A g \in G : Cardinality(Group(A, p, g)) <= Cardinality(Group(B, q, g))
      /\ \A g \in G : Cardinality(Group(B, q, g)) <= Cardinality(Group(A, p, g))
  BY <1>2
<1>4. Cardinality(A) <= Cardinality(B)
  BY <1>3, CountedByGroups
<1>5. Cardinality(B) <= Cardinality(A)
  BY <1>3, CountedByGroups
<1> QED
  BY <1>1, <1>4, <1>5

(* The first n of at least n numbers. *)
LEMMA FirstUnits ==
    ASSUME NEW m \in Nat, NEW n \in Nat, n <= m
    PROVE  /\ {k \in 1 .. m : k <= n} = 1 .. n
           /\ IsFiniteSet({k \in 1 .. m : k <= n})
           /\ Cardinality({k \in 1 .. m : k <= n}) = n
<1>1. {k \in 1 .. m : k <= n} = 1 .. n
  OBVIOUS
<1>2. IsFiniteSet(1 .. n) /\ Cardinality(1 .. n) = IF 1 > n THEN 0 ELSE n - 1 + 1
  BY FS_Interval
<1>3. Cardinality(1 .. n) = n
  BY <1>2
<1> QED
  BY <1>1, <1>2, <1>3, Zenon

(* A set of pairs that have one first component is as large as the set of  *)
(* their second components.                                                *)
LEMMA PairsOfOne ==
    ASSUME NEW x, NEW S, IsFiniteSet(S)
    PROVE  IsFiniteSet({x} \X S) /\ Cardinality({x} \X S) = Cardinality(S)
<1> DEFINE f == [s \in S |-> <<x, s>>]
<1>1. f \in Bijection(S, {x} \X S)
  <2>1. f \in [S -> {x} \X S]
    OBVIOUS
  <2>2. \A a, b \in S : f[a] = f[b] => a = b
    OBVIOUS
  <2>3. \A t \in {x} \X S : \E s \in S : f[s] = t
    OBVIOUS
  <2> HIDE DEF f
  <2> QED
    BY <2>1, <2>2, <2>3, Fun_IsBij
<1>2. ExistsBijection(S, {x} \X S)
  BY <1>1 DEF ExistsBijection
<1> QED
  BY <1>2, FS_Bijection

(* Two sets without a common element. *)
LEMMA CardinalityOfSum ==
    ASSUME NEW A, NEW B, IsFiniteSet(A), IsFiniteSet(B)
    PROVE  /\ IsFiniteSet(A \cup B)
           /\ Cardinality(A \cup B) <= Cardinality(A) + Cardinality(B)
           /\ A \cap B = {} => Cardinality(A \cup B) = Cardinality(A) + Cardinality(B)
<1>1. /\ IsFiniteSet(A \cup B)
      /\ Cardinality(A \cup B) = Cardinality(A) + Cardinality(B) - Cardinality(A \cap B)
  BY FS_Union
<1>2. IsFiniteSet(A \cap B) /\ Cardinality(A \cap B) \in Nat
  BY FS_Intersection, FS_CardinalityType
<1>3. Cardinality(A) \in Nat /\ Cardinality(B) \in Nat
  BY FS_CardinalityType
<1> QED
  BY <1>1, <1>2, <1>3, FS_EmptySet

(* The numbers after m up to n. *)
LEMMA NumbersBetween ==
    ASSUME NEW m \in Nat, NEW n \in Nat, m <= n
    PROVE  IsFiniteSet((m + 1) .. n) /\ Cardinality((m + 1) .. n) = n - m
<1>1. /\ IsFiniteSet((m + 1) .. n)
      /\ Cardinality((m + 1) .. n) = IF m + 1 > n THEN 0 ELSE n - (m + 1) + 1
  BY FS_Interval
<1> QED
  BY <1>1

(* The units of one thing, numbered from above m up to n. *)
Units(x, m, n) == {x} \X ((m + 1) .. n)

LEMMA UnitsCounted ==
    ASSUME NEW x, NEW m \in Nat, NEW n \in Nat, m <= n
    PROVE  IsFiniteSet(Units(x, m, n)) /\ Cardinality(Units(x, m, n)) = n - m
<1>1. IsFiniteSet((m + 1) .. n) /\ Cardinality((m + 1) .. n) = n - m
  BY NumbersBetween
<1>2. /\ IsFiniteSet({x} \X ((m + 1) .. n))
      /\ Cardinality({x} \X ((m + 1) .. n)) = Cardinality((m + 1) .. n)
  BY <1>1, PairsOfOne
<1> QED
  BY <1>1, <1>2 DEF Units

(* Some members leave a set, and some others come. *)
LEMMA CardinalityAfter ==
    ASSUME NEW A, NEW B, NEW Out \in SUBSET A, NEW In, IsFiniteSet(A), IsFiniteSet(In),
           B \subseteq (A \ Out) \cup In
    PROVE  /\ IsFiniteSet(B)
           /\ Cardinality(B) <= Cardinality(A) - Cardinality(Out) + Cardinality(In)
<1>1. /\ IsFiniteSet(Out) /\ IsFiniteSet(A \ Out)
      /\ Cardinality(Out) \in Nat /\ Cardinality(A \ Out) \in Nat
      /\ Cardinality(A) \in Nat /\ Cardinality(In) \in Nat
  BY FS_Subset, FS_CardinalityType
<1>2. Cardinality(A) = Cardinality(A \ Out) + Cardinality(Out)
  <2>1. (A \ Out) \cup Out = A /\ (A \ Out) \cap Out = {}
    OBVIOUS
  <2>2. Cardinality((A \ Out) \cup Out) = Cardinality(A \ Out) + Cardinality(Out)
    BY <1>1, <2>1, CardinalityOfSum
  <2> QED
    BY <2>1, <2>2
<1>3. /\ IsFiniteSet((A \ Out) \cup In) /\ Cardinality((A \ Out) \cup In) \in Nat
      /\ Cardinality((A \ Out) \cup In) <= Cardinality(A \ Out) + Cardinality(In)
  BY <1>1, CardinalityOfSum, FS_CardinalityType
<1>4. /\ IsFiniteSet(B) /\ Cardinality(B) \in Nat
      /\ Cardinality(B) <= Cardinality((A \ Out) \cup In)
  BY <1>3, FS_Subset, FS_CardinalityType
<1> QED
  BY <1>1, <1>2, <1>3, <1>4

(* A property of sets that holds of the empty set, and of a set with one   *)
(* member more, holds of a finite set; here it is given as the set of sets *)
(* that have it.                                                           *)
LEMMA SetsGrow ==
    ASSUME NEW S, IsFiniteSet(S), NEW Good, {} \in Good,
           \A T \in SUBSET S : \A x \in S \ T : T \in Good => T \cup {x} \in Good
    PROVE  S \in Good
<1> DEFINE Bad == {T \in SUBSET S : T \notin Good}
           R == StrictSubsetOrdering(S)
<1>1. SUFFICES ASSUME Bad # {} PROVE FALSE
  OBVIOUS
<1>2. IsWellFoundedOn(R, SUBSET S)
  BY FS_StrictSubsetOrderingWellFounded, FS_FiniteSubsetsOfFinite
<1>3. PICK T \in Bad : \A U \in Bad : ~ (<<U, T>> \in R)
  <2> HIDE DEF R
  <2>1. Bad \subseteq SUBSET S
    OBVIOUS
  <2> HIDE DEF Bad
  <2> QED
    BY <1>1, <1>2, <2>1, WFMin
<1>4. T \in SUBSET S /\ T \notin Good /\ T # {}
  BY <1>3
<1>5. PICK x \in T : TRUE
  BY <1>4
<1> DEFINE U == T \ {x}
<1>6. U \in SUBSET S /\ x \in S \ U /\ U \cup {x} = T /\ U # T
  BY <1>4, <1>5
<1>7. <<U, T>> \in R
  BY <1>4, <1>6 DEF StrictSubsetOrdering
<1>8. U \in Good
  BY <1>3, <1>6, <1>7
<1> QED
  BY <1>4, <1>6, <1>8

(* A finite set of finite sets has one with no smaller one in it. *)
LEMMA Smallest ==
    ASSUME NEW S, IsFiniteSet(S), NEW Bad \in SUBSET (SUBSET S), Bad # {}
    PROVE  \E T \in Bad : \A U \in SUBSET T : U # T => U \notin Bad
<1> DEFINE R == StrictSubsetOrdering(S)
<1>1. IsWellFoundedOn(R, SUBSET S)
  BY FS_StrictSubsetOrderingWellFounded, FS_FiniteSubsetsOfFinite
<1>2. PICK T \in Bad : \A U \in Bad : ~ (<<U, T>> \in R)
  <2> HIDE DEF R
  <2> QED
    BY <1>1, WFMin
<1>3. ASSUME NEW U \in SUBSET T, U # T, U \in Bad PROVE FALSE
  <2>1. <<U, T>> \in R
    BY <1>3 DEF StrictSubsetOrdering
  <2> QED
    BY <1>2, <1>3, <2>1
<1> QED
  BY <1>3

(* The member that MapThenSumSet takes first. *)
==============================================================================
