-------------------------------- MODULE Sums --------------------------------
(***************************************************************************)
(* Lemmas on the sums of the community modules (SumFunctionOnSet), which   *)
(* the conservation properties of Lending and Builds are made of, and on   *)
(* what is done step by step: induction, and the function of the steps.    *)
(***************************************************************************)
EXTENDS Integers, FiniteSets, Functions, FiniteSetTheorems, WellFoundedInduction, TLAPS

\* Every set of naturals that is not empty has a least element.
LEMMA LeastElement ==
  ASSUME NEW T, T \subseteq Nat, T # {}
  PROVE  \E n \in T : \A m \in T : n =< m
<1> DEFINE R == {p \in Nat \X Nat : p[1] < p[2]}
<1>1. IsWellFoundedOn(R, Nat)
  BY NatLessThanWellFounded, Zenon DEF OpToRel
<1>2. PICK n \in T : \A m \in T : ~ (<<m, n>> \in R)
  BY <1>1, WFMin
<1>3. ASSUME NEW m \in T PROVE n =< m
  <2>1. <<m, n>> \in Nat \X Nat /\ <<m, n>>[1] = m /\ <<m, n>>[2] = n
    OBVIOUS
  <2>2. ~ (m < n)
    BY <1>2, <2>1
  <2> QED
    BY <2>2
<1> QED
  BY <1>3

\* Induction: what holds of 0, and of n + 1 if of n, holds of all naturals.  It is
\* a statement about a set, where the library's takes an operator.
LEMMA CountUp ==
  ASSUME NEW P, P \subseteq Nat, 0 \in P, \A n \in Nat : n \in P => n + 1 \in P
  PROVE  P = Nat
<1> SUFFICES ASSUME P # Nat PROVE FALSE
  OBVIOUS
<1> DEFINE T == Nat \ P
<1>1. PICK n \in T : \A m \in T : n =< m
  BY LeastElement
<1>2. n # 0 /\ n - 1 \in Nat /\ n - 1 \in P
  BY <1>1
<1> QED
  BY <1>1, <1>2

\* What h is after each step from a to b, when it was x before the first.
Steps(h, a, b, x, next) == h[a] = x /\ \A j \in (a + 1)..b : h[j] = next[<<h[j - 1], j>>]

\* Steps taken one after the other, each from what the one before left: there
\* is a function of all of them.
LEMMA StepsExist ==
  ASSUME NEW a \in Nat, NEW b \in Nat, a =< b, NEW D, NEW x \in D,
         NEW next \in [D \X ((a + 1)..b) -> D]
  PROVE  \E h \in [a..b -> D] : Steps(h, a, b, x, next)
<1> DEFINE Some(c) == \E h \in [a..c -> D] : Steps(h, a, c, x, next)
           P == {m \in Nat : a + m =< b => Some(a + m)}
<1>1. 0 \in P
  <2> DEFINE h == [j \in a..a |-> x]
  <2>1. h \in [a..(a + 0) -> D] /\ Steps(h, a, a + 0, x, next)
    BY DEF Steps
  <2> QED
    BY <2>1
<1>2. ASSUME NEW m \in Nat, m \in P PROVE m + 1 \in P
  <2> DEFINE c == a + m
  <2> SUFFICES ASSUME c + 1 =< b PROVE Some(c + 1)
    OBVIOUS
  <2>1. PICK h \in [a..c -> D] : Steps(h, a, c, x, next)
    BY <1>2
  <2>2. c \in Nat /\ a =< c /\ c + 1 \in (a + 1)..b /\ a + (m + 1) = c + 1
    OBVIOUS
  <2> HIDE DEF c
  <2>3. h \in [a..c -> D] /\ h[c] \in D
    BY <2>1, <2>2
  <2>4. <<h[c], c + 1>> \in D \X ((a + 1)..b)
    BY <2>2, <2>3
  <2>5. next[<<h[c], c + 1>>] \in D
    BY <2>4
  <2> DEFINE y == next[<<h[c], c + 1>>]
             g == [j \in a..(c + 1) |-> IF j = c + 1 THEN y ELSE h[j]]
  <2>6. g \in [a..(c + 1) -> D] /\ g[a] = x
    BY <2>1, <2>2, <2>3, <2>5 DEF Steps
  <2>7. ASSUME NEW j \in (a + 1)..(c + 1) PROVE g[j] = next[<<g[j - 1], j>>]
    <3>1. CASE j = c + 1
      <4>1. g[j - 1] = h[c] /\ g[j] = y
        BY <2>2, <3>1
      <4> QED
        BY <3>1, <4>1
    <3>2. CASE j # c + 1
      <4>1. j \in (a + 1)..c /\ g[j] = h[j] /\ g[j - 1] = h[j - 1]
        BY <2>2, <3>2
      <4> QED
        BY <2>1, <4>1 DEF Steps
    <3> QED
      BY <3>1, <3>2
  <2>8. g \in [a..(c + 1) -> D] /\ Steps(g, a, c + 1, x, next)
    <3> HIDE DEF g
    <3> QED
      BY <2>6, <2>7 DEF Steps
  <2> QED
    BY <2>8
<1>3. P = Nat
  <2> HIDE DEF P
  <2>1. P \subseteq Nat
    BY DEF P
  <2> QED
    BY <1>1, <1>2, <2>1, CountUp
<1>4. b - a \in P /\ a + (b - a) = b
  <2>1. b - a \in Nat /\ a + (b - a) = b
    OBVIOUS
  <2> HIDE DEF P
  <2> QED
    BY <1>3, <2>1
<1>5. Some(b)
  <2> HIDE DEF Some
  <2> QED
    BY <1>4
<1> QED
  BY <1>5

Pick(s) == CHOOSE x \in s : TRUE
Rest(s) == s \ {Pick(s)}

Rule(h, f, D) ==
  h = [s \in D |-> IF s = {} THEN 0 ELSE f[Pick(s)] + h[Rest(s)]]

\* What the community modules define a sum to be.
LEMMA SumRule ==
  ASSUME NEW f, NEW S
  PROVE  SumFunctionOnSet(f, S) = (CHOOSE h : Rule(h, f, SUBSET S))[S]
  BY DEF SumFunctionOnSet, FoldFunctionOnSet, MapThenFoldSet, Rule, Pick, Rest

\* A function that sums f over the subsets of S, whichever element is taken
\* first.
Sums(h, f, S) ==
  /\ h \in [SUBSET S -> Int]
  /\ h[{}] = 0
  /\ \A s \in SUBSET S : \A x \in s : h[s] = f[x] + h[s \ {x}]

Small(S, n) == {s \in SUBSET S : Cardinality(s) =< n}

\* A subset of a finite set, and what is left when its chosen element is taken.
LEMMA SubsetsFinite ==
  ASSUME NEW S, IsFiniteSet(S), NEW s \in SUBSET S
  PROVE  /\ IsFiniteSet(s) /\ Cardinality(s) \in Nat
         /\ s # {} => /\ Pick(s) \in s /\ Rest(s) \in SUBSET S
                      /\ Cardinality(Rest(s)) = Cardinality(s) - 1
         /\ Cardinality(s) = 0 <=> s = {}
<1>1. IsFiniteSet(s)
  BY FS_Subset
<1>2. s # {} => Pick(s) \in s
  BY DEF Pick
<1> QED
  BY <1>1, <1>2, FS_CardinalityType, FS_RemoveElement, FS_EmptySet DEF Rest

\* The recursive definition is satisfied by a function.
LEMMA RuleSatisfied ==
  ASSUME NEW f, NEW S, IsFiniteSet(S)
  PROVE  \E h : Rule(h, f, SUBSET S)
<1> DEFINE P == {n \in Nat : \E h : Rule(h, f, Small(S, n))}
<1>1. 0 \in P
  <2> DEFINE h == [s \in Small(S, 0) |-> 0]
  <2>1. \A s \in Small(S, 0) : s = {}
    BY SubsetsFinite DEF Small
  <2>2. Rule(h, f, Small(S, 0))
    BY <2>1 DEF Rule
  <2> QED
    BY <2>2
<1>2. ASSUME NEW n \in Nat, n \in P PROVE n + 1 \in P
  <2> PICK h : Rule(h, f, Small(S, n))
    BY <1>2
  <2> DEFINE g == [s \in Small(S, n + 1) |-> IF s = {} THEN 0 ELSE f[Pick(s)] + h[Rest(s)]]
  <2>1. \A s \in Small(S, n + 1) : s # {} => Rest(s) \in Small(S, n) /\ Rest(s) \in Small(S, n + 1)
    BY SubsetsFinite DEF Small
  <2>2. \A s \in Small(S, n) : s \in Small(S, n + 1)
    BY SubsetsFinite DEF Small
  <2>3. \A s \in Small(S, n) : h[s] = IF s = {} THEN 0 ELSE f[Pick(s)] + h[Rest(s)]
    BY DEF Rule
  <2>4. \A s \in Small(S, n) : g[s] = h[s]
    BY <2>2, <2>3
  <2>5. g = [s \in Small(S, n + 1) |-> IF s = {} THEN 0 ELSE f[Pick(s)] + g[Rest(s)]]
    BY <2>1, <2>4
  <2>6. Rule(g, f, Small(S, n + 1))
    BY <2>5 DEF Rule
  <2> HIDE DEF g
  <2> QED
    BY <2>6
<1>3. Small(S, Cardinality(S)) = SUBSET S
  BY FS_Subset, FS_CardinalityType DEF Small
<1>4. Cardinality(S) \in P
  BY <1>1, <1>2, CountUp, FS_CardinalityType
<1> QED
  BY <1>3, <1>4

\* Induction over the subsets of a finite set.
LEMMA SubsetInduction ==
  ASSUME NEW S, IsFiniteSet(S), NEW G,
         \A s \in SUBSET S : (\A t \in SUBSET s : t # s => t \in G) => s \in G
  PROVE  \A s \in SUBSET S : s \in G
<1> SUFFICES ASSUME \E s \in SUBSET S : s \notin G PROVE FALSE
  OBVIOUS
<1> DEFINE R == StrictSubsetOrdering(S)
           T == {s \in SUBSET S : s \notin G}
<1>1. IsWellFoundedOn(R, SUBSET S)
  <2>1. FiniteSubsetsOf(S) = SUBSET S
    BY FS_FiniteSubsetsOfFinite
  <2>2. IsWellFoundedOn(StrictSubsetOrdering(S), FiniteSubsetsOf(S))
    BY FS_StrictSubsetOrderingWellFounded, Zenon
  <2> QED
    BY <2>1, <2>2
<1>2. T \subseteq SUBSET S /\ T # {}
  OBVIOUS
<1>3. PICK s \in T : \A t \in T : ~ (<<t, s>> \in R)
  <2> HIDE DEF R, T
  <2> QED
    BY <1>1, <1>2, WFMin
<1>4. ASSUME NEW t \in SUBSET s, t # s PROVE t \in G
  <2>1. t \in SUBSET S /\ s \in SUBSET S
    BY <1>4
  <2>2. <<t, s>> \in R
    BY <1>4, <2>1, Zenon DEF StrictSubsetOrdering
  <2> QED
    BY <1>3, <2>1, <2>2
<1> QED
  BY <1>4

\* That function sums f, whichever element is taken first.
LEMMA RuleSums ==
  ASSUME NEW S, IsFiniteSet(S), NEW f, \A x \in S : f[x] \in Int,
         NEW h, Rule(h, f, SUBSET S)
  PROVE  Sums(h, f, S)
<1>1. h = [s \in SUBSET S |-> h[s]]
  BY DEF Rule
<1>2. \A s \in SUBSET S : h[s] = IF s = {} THEN 0 ELSE f[Pick(s)] + h[Rest(s)]
  BY DEF Rule
<1> DEFINE Good(s) == h[s] \in Int /\ \A x \in s : h[s] = f[x] + h[s \ {x}]
           G == {s \in SUBSET S : Good(s)}
<1>3. ASSUME NEW s \in SUBSET S, \A t \in SUBSET s : t # s => t \in G PROVE Good(s)
  <2>1. CASE s = {}
    <3>1. h[s] = 0
      BY <1>2, <2>1
    <3> QED
      BY <2>1, <3>1
  <2>2. CASE s # {}
    <3> DEFINE y == Pick(s)
    <3>1. y \in s
      BY <2>2 DEF Pick
    <3>2. h[s] = f[y] + h[s \ {y}] /\ f[y] \in Int
      BY <1>2, <2>2, <3>1 DEF Rest
    <3> HIDE DEF y
    <3>3. \A x \in s : Good(s \ {x})
      BY <1>3
    <3>4. h[s] \in Int
      <4>1. h[s \ {y}] \in Int
        BY <3>1, <3>3
      <4> QED
        BY <3>2, <4>1
    <3>5. ASSUME NEW x \in s, x # y PROVE h[s] = f[x] + h[s \ {x}]
      <4> DEFINE t == s \ {x, y}
      <4>1. t = (s \ {y}) \ {x} /\ t = (s \ {x}) \ {y} /\ t \in SUBSET s /\ t # s
        BY <3>5
      <4>2. h[s \ {y}] = f[x] + h[t]
        BY <3>1, <3>3, <3>5, <4>1
      <4>3. h[s \ {x}] = f[y] + h[t]
        BY <3>1, <3>3, <3>5, <4>1
      <4>4. h[t] \in Int /\ f[x] \in Int
        BY <1>3, <4>1
      <4> QED
        BY <3>2, <4>2, <4>3, <4>4
    <3> QED
      BY <3>2, <3>4, <3>5
  <2> QED
    BY <2>1, <2>2
<1>4. \A s \in SUBSET S : s \in G
  BY <1>3, SubsetInduction
<1> QED
  BY <1>1, <1>2, <1>4 DEF Sums

\* Two functions that sum the same agree.
LEMMA SumsUnique ==
  ASSUME NEW S, IsFiniteSet(S), NEW f, NEW g, NEW T, S \subseteq T,
         \A x \in S : f[x] = g[x], NEW h, Sums(h, f, S), NEW k, Sums(k, g, T)
  PROVE  h[S] = k[S]
<1> DEFINE G == {s \in SUBSET S : h[s] = k[s]}
<1>1. ASSUME NEW s \in SUBSET S, \A t \in SUBSET s : t # s => t \in G PROVE h[s] = k[s]
  <2>1. CASE s = {}
    BY <2>1 DEF Sums
  <2>2. CASE s # {}
    <3> PICK x \in s : TRUE
      BY <2>2
    <3>1. h[s \ {x}] = k[s \ {x}]
      BY <1>1
    <3>2. h[s] = f[x] + h[s \ {x}] /\ k[s] = g[x] + k[s \ {x}] /\ f[x] = g[x]
      BY DEF Sums
    <3> QED
      BY <3>1, <3>2
  <2> QED
    BY <2>1, <2>2
<1>2. \A s \in SUBSET S : s \in G
  BY <1>1, SubsetInduction
<1> QED
  BY <1>2

\* So a sum of the community modules sums f.
LEMMA SumOf ==
  ASSUME NEW S, IsFiniteSet(S), NEW f, \A x \in S : f[x] \in Int
  PROVE  \E h : Sums(h, f, S) /\ SumFunctionOnSet(f, S) = h[S]
<1> DEFINE h == CHOOSE h : Rule(h, f, SUBSET S)
<1>1. Rule(h, f, SUBSET S)
  BY RuleSatisfied
<1>2. SumFunctionOnSet(f, S) = h[S]
  BY SumRule
<1> HIDE DEF h
<1> QED
  BY <1>1, <1>2, RuleSums

(***************************************************************************)
(* What sums are used for: the sum over no index, over a set with one      *)
(* index removed or added, of a function changed at one index, of two      *)
(* functions that agree, and that a sum of naturals is one.                *)
(***************************************************************************)
LEMMA SumType ==
  ASSUME NEW S, IsFiniteSet(S), NEW f, \A x \in S : f[x] \in Int
  PROVE  SumFunctionOnSet(f, S) \in Int
<1>1. PICK h : Sums(h, f, S) /\ SumFunctionOnSet(f, S) = h[S]
  BY SumOf
<1> QED
  BY <1>1 DEF Sums

\* The sum over nothing.
LEMMA SumEmpty ==
  ASSUME NEW f
  PROVE  SumFunctionOnSet(f, {}) = 0
<1>1. PICK h : Sums(h, f, {}) /\ SumFunctionOnSet(f, {}) = h[{}]
  BY SumOf, FS_EmptySet
<1> QED
  BY <1>1 DEF Sums

\* Functions that agree have one sum.
LEMMA SumAgree ==
  ASSUME NEW S, IsFiniteSet(S), NEW f, NEW g, \A x \in S : f[x] \in Int /\ g[x] = f[x]
  PROVE  SumFunctionOnSet(g, S) = SumFunctionOnSet(f, S)
<1>1. PICK h : Sums(h, f, S) /\ SumFunctionOnSet(f, S) = h[S]
  BY SumOf
<1>2. PICK k : Sums(k, g, S) /\ SumFunctionOnSet(g, S) = k[S]
  BY SumOf
<1> QED
  BY <1>1, <1>2, SumsUnique

\* Taking one index out.
LEMMA SumRemove ==
  ASSUME NEW S, IsFiniteSet(S), NEW f, \A x \in S : f[x] \in Int, NEW y \in S
  PROVE  SumFunctionOnSet(f, S) = f[y] + SumFunctionOnSet(f, S \ {y})
<1>1. PICK h : Sums(h, f, S) /\ SumFunctionOnSet(f, S) = h[S]
  BY SumOf
<1>2. IsFiniteSet(S \ {y})
  BY FS_RemoveElement
<1>3. PICK k : Sums(k, f, S \ {y}) /\ SumFunctionOnSet(f, S \ {y}) = k[S \ {y}]
  BY <1>2, SumOf
<1>4. k[S \ {y}] = h[S \ {y}]
  BY <1>1, <1>2, <1>3, SumsUnique
<1> QED
  BY <1>1, <1>3, <1>4 DEF Sums

\* Putting one in.
LEMMA SumAdd ==
  ASSUME NEW S, IsFiniteSet(S), NEW f, NEW y, y \notin S, f[y] \in Int,
         \A x \in S : f[x] \in Int
  PROVE  SumFunctionOnSet(f, S \cup {y}) = f[y] + SumFunctionOnSet(f, S)
<1>1. IsFiniteSet(S \cup {y}) /\ (S \cup {y}) \ {y} = S
  BY FS_AddElement
<1> QED
  BY <1>1, SumRemove

\* Changing f at one index.
LEMMA SumChange ==
  ASSUME NEW S, IsFiniteSet(S), NEW f, NEW g, NEW y \in S,
         \A x \in S : f[x] \in Int /\ g[x] \in Int /\ (x # y => g[x] = f[x])
  PROVE  SumFunctionOnSet(g, S) = SumFunctionOnSet(f, S) - f[y] + g[y]
<1>1. IsFiniteSet(S \ {y})
  BY FS_RemoveElement
<1>2. SumFunctionOnSet(g, S \ {y}) = SumFunctionOnSet(f, S \ {y})
  BY <1>1, SumAgree
<1>3. /\ SumFunctionOnSet(f, S) = f[y] + SumFunctionOnSet(f, S \ {y})
      /\ SumFunctionOnSet(g, S) = g[y] + SumFunctionOnSet(g, S \ {y})
  BY SumRemove
<1>4. SumFunctionOnSet(f, S \ {y}) \in Int
  BY <1>1, SumType
<1> QED
  BY <1>2, <1>3, <1>4

\* A sum of naturals is one.
LEMMA SumNat ==
  ASSUME NEW S, IsFiniteSet(S), NEW f, \A x \in S : f[x] \in Nat
  PROVE  SumFunctionOnSet(f, S) \in Nat
<1>1. PICK h : Sums(h, f, S) /\ SumFunctionOnSet(f, S) = h[S]
  BY SumOf
<1> DEFINE G == {s \in SUBSET S : h[s] \in Nat}
<1>2. ASSUME NEW s \in SUBSET S, \A t \in SUBSET s : t # s => t \in G PROVE h[s] \in Nat
  <2>1. CASE s = {}
    BY <1>1, <2>1 DEF Sums
  <2>2. CASE s # {}
    <3> PICK x \in s : TRUE
      BY <2>2
    <3>1. h[s \ {x}] \in Nat /\ h[s] = f[x] + h[s \ {x}]
      BY <1>1, <1>2 DEF Sums
    <3> QED
      BY <3>1
  <2> QED
    BY <2>1, <2>2
<1>3. \A s \in SUBSET S : s \in G
  BY <1>2, SubsetInduction
<1> QED
  BY <1>1, <1>3

\* The sum of all values of a function grows by the value of a new argument,
LEMMA SumGrows ==
  ASSUME NEW f, IsFiniteSet(DOMAIN f), \A x \in DOMAIN f : f[x] \in Int,
         NEW y, y \notin DOMAIN f,
         NEW g, DOMAIN g = DOMAIN f \cup {y}, g[y] \in Int,
         \A x \in DOMAIN f : g[x] = f[x]
  PROVE  SumFunction(g) = SumFunction(f) + g[y]
<1>1. SumFunctionOnSet(g, DOMAIN f \cup {y}) = g[y] + SumFunctionOnSet(g, DOMAIN f)
  BY SumAdd
<1>2. SumFunctionOnSet(g, DOMAIN f) = SumFunctionOnSet(f, DOMAIN f)
  BY SumAgree
<1>3. SumFunctionOnSet(f, DOMAIN f) \in Int
  BY SumType
<1> QED
  BY <1>1, <1>2, <1>3 DEF SumFunction

\* changes with one of its values,
LEMMA SumExcept ==
  ASSUME NEW S, IsFiniteSet(S), NEW f \in [S -> Int], NEW g \in [S -> Int],
         NEW y \in S, \A x \in S : x # y => g[x] = f[x]
  PROVE  SumFunction(g) = SumFunction(f) - f[y] + g[y]
<1>1. DOMAIN f = S /\ DOMAIN g = S
  OBVIOUS
<1>2. \A x \in S : f[x] \in Int /\ g[x] \in Int /\ (x # y => g[x] = f[x])
  OBVIOUS
<1>3. SumFunctionOnSet(g, S) = SumFunctionOnSet(f, S) - f[y] + g[y]
  BY <1>2, SumChange
<1> QED
  BY <1>1, <1>3 DEF SumFunction

\* and is an integer, a natural if all its values are.
LEMMA SumInt ==
  ASSUME NEW f, IsFiniteSet(DOMAIN f), \A x \in DOMAIN f : f[x] \in Int
  PROVE  /\ SumFunction(f) \in Int
         /\ (\A x \in DOMAIN f : f[x] \in Nat) => SumFunction(f) \in Nat
BY SumType, SumNat DEF SumFunction

\* Smaller values have a smaller sum.
LEMMA SumMonotone ==
  ASSUME NEW S, IsFiniteSet(S), NEW f \in [S -> Int], NEW g \in [S -> Int],
         \A x \in S : f[x] =< g[x]
  PROVE  SumFunction(f) =< SumFunction(g)
<1>1. DOMAIN f = S /\ DOMAIN g = S
  OBVIOUS
<1>2. PICK h : Sums(h, f, S) /\ SumFunctionOnSet(f, S) = h[S]
  BY SumOf
<1>3. PICK k : Sums(k, g, S) /\ SumFunctionOnSet(g, S) = k[S]
  BY SumOf
<1> DEFINE G == {s \in SUBSET S : h[s] =< k[s]}
<1>4. ASSUME NEW s \in SUBSET S, \A t \in SUBSET s : t # s => t \in G PROVE h[s] =< k[s]
  <2>1. CASE s = {}
    BY <1>2, <1>3, <2>1 DEF Sums
  <2>2. CASE s # {}
    <3>1. PICK x \in s : TRUE
      BY <2>2
    <3>2. s \ {x} \in G /\ s \ {x} \in SUBSET S
      BY <1>4, <3>1
    <3>3. /\ h[s] = f[x] + h[s \ {x}] /\ k[s] = g[x] + k[s \ {x}]
          /\ h[s \ {x}] \in Int /\ k[s \ {x}] \in Int
      BY <1>2, <1>3, <3>1, <3>2 DEF Sums
    <3>4. f[x] \in Int /\ g[x] \in Int /\ f[x] =< g[x] /\ h[s \ {x}] =< k[s \ {x}]
      BY <3>1, <3>2
    <3> QED
      BY <3>3, <3>4
  <2> QED
    BY <2>1, <2>2
<1>5. \A s \in SUBSET S : s \in G
  <2>1. \A s \in SUBSET S : (\A t \in SUBSET s : t # s => t \in G) => s \in G
    BY <1>4
  <2> HIDE DEF G
  <2> QED
    BY <2>1, SubsetInduction
<1>6. h[S] =< k[S]
  BY <1>5
<1> QED
  BY <1>1, <1>2, <1>3, <1>6 DEF SumFunction

\* A sum of zeros is zero.
LEMMA SumZero ==
  ASSUME NEW f, IsFiniteSet(DOMAIN f), \A x \in DOMAIN f : f[x] = 0
  PROVE  SumFunction(f) = 0
<1>1. PICK h : Sums(h, f, DOMAIN f) /\ SumFunctionOnSet(f, DOMAIN f) = h[DOMAIN f]
  BY SumOf
<1> DEFINE S == DOMAIN f
           G == {s \in SUBSET S : h[s] = 0}
<1>2. ASSUME NEW s \in SUBSET S, \A t \in SUBSET s : t # s => t \in G PROVE h[s] = 0
  <2>1. CASE s = {}
    BY <1>1, <2>1 DEF Sums
  <2>2. CASE s # {}
    <3>1. PICK x \in s : TRUE
      BY <2>2
    <3>2. h[s \ {x}] = 0
      BY <1>2, <3>1
    <3> QED
      BY <1>1, <3>1, <3>2 DEF Sums
  <2> QED
    BY <2>1, <2>2
<1>3. \A s \in SUBSET S : s \in G
  <2>1. \A s \in SUBSET S : (\A t \in SUBSET s : t # s => t \in G) => s \in G
    BY <1>2
  <2> HIDE DEF G, S
  <2> QED
    BY <2>1, SubsetInduction DEF S
<1>4. h[S] = 0
  BY <1>3
<1> QED
  BY <1>1, <1>4 DEF SumFunction
=============================================================================
