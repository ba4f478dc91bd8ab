------------------------------ MODULE ListsProofs ------------------------------
(***************************************************************************)
(* What the proofs need to know about the sums over finite sets and the     *)
(* filtered lists of the modules.  Both are functions defined over the      *)
(* subsets of a set: that such a function exists (SetRecursion), and what   *)
(* it returns, is proved from the least counterexample (Least), since the   *)
(* induction rules of the library cannot be used with a set of cases.       *)
(***************************************************************************)
EXTENDS Lists, Naturals, Functions, FiniteSetTheorems, SequenceTheorems, WellFoundedInduction, TLAPS

\* A set of numbers has a least one.
LEMMA Least == ASSUME NEW T, T \subseteq Nat, T # {} PROVE \E n \in T : \A m \in T : n <= m
  <1> DEFINE LT == {ss \in Nat \X Nat : ss[1] < ss[2]}
  <1>1. IsWellFoundedOn(LT, Nat)
    BY NatLessThanWellFounded DEF OpToRel
  <1> HIDE DEF LT
  <1>2. PICK n \in T : \A m \in T : ~ (<<m, n>> \in LT)
    BY <1>1, WFMin
  <1>3. \A m \in T : ~ (m < n)
    BY <1>2 DEF LT
  <1> QED BY <1>3

\* Induction over the numbers, for a set T of the cases that are proved.
LEMMA Induction ==
    ASSUME NEW T, 0 \in T, \A n \in Nat : n \in T => n + 1 \in T
    PROVE  Nat \subseteq T
  <1> SUFFICES ASSUME Nat \ T # {} PROVE FALSE
    OBVIOUS
  <1> DEFINE U == Nat \ T
  <1>1. U \subseteq Nat /\ U # {}
    OBVIOUS
  <1> HIDE DEF U
  <1>2. PICK n \in U : \A m \in U : n <= m
    BY <1>1, Least
  <1>3. n \in Nat /\ n # 0 /\ n \notin T
    BY <1>2 DEF U
  <1>4. n - 1 \in Nat /\ n - 1 \notin U /\ (n - 1) + 1 = n
    BY <1>2, <1>3
  <1> QED BY <1>3, <1>4 DEF U

\* f is a for no element, and otherwise what h makes of the element that c takes away and of
\* f for the others.
Recursive(f, U, D, c, h, a) ==
    /\ f \in [SUBSET U -> D] /\ f[{}] = a
    /\ \A s \in SUBSET U : s # {} => f[s] = h[<<c[s], f[s \ {c[s]}]>>]

\* c takes an element of each set.
Chooses(c, U) == \A s \in SUBSET U : s # {} => c[s] \in s

\* A function of the subsets of U that is defined by taking one element away exists.
LEMMA SetRecursion ==
    ASSUME NEW U, IsFiniteSet(U), NEW D, NEW a \in D, NEW c, Chooses(c, U), NEW h \in [U \X D -> D]
    PROVE  \E f : Recursive(f, U, D, c, h, a)
  <1> DEFINE Small(m) == {s \in SUBSET U : Cardinality(s) <= m}
             Good(m, f) == /\ f \in [Small(m) -> D] /\ f[{}] = a
                           /\ \A s \in Small(m) : s # {} => f[s] = h[<<c[s], f[s \ {c[s]}]>>]
             T == {m \in Nat : \E f : Good(m, f)}
  <1>1. ASSUME NEW s \in SUBSET U PROVE IsFiniteSet(s) /\ Cardinality(s) \in Nat
    BY FS_Subset, FS_CardinalityType
  <1>2. ASSUME NEW s \in SUBSET U, s # {}
        PROVE  /\ c[s] \in U /\ s \ {c[s]} \in SUBSET U
               /\ Cardinality(s \ {c[s]}) = Cardinality(s) - 1
               /\ Cardinality(s) # 0
    <2>1. IsFiniteSet(s) /\ c[s] \in s
      BY <1>1, <1>2 DEF Chooses
    <2>2. Cardinality(s \ {c[s]}) = Cardinality(s) - 1
      BY <2>1, FS_RemoveElement
    <2>3. Cardinality(s) # 0
      BY <2>1, <1>2, FS_EmptySet
    <2> QED BY <2>1, <2>2, <2>3
  <1>3. {} \in SUBSET U /\ Cardinality({}) = 0
    BY FS_EmptySet
  <1>4. 0 \in T
    <2> DEFINE f == [s \in Small(0) |-> a]
    <2>1. {} \in Small(0) /\ \A s \in Small(0) : s = {}
      <3>1. ASSUME NEW s \in SUBSET U, Cardinality(s) <= 0 PROVE s = {}
        <4>1. Cardinality(s) = 0
          BY <1>1, <3>1
        <4> QED BY <4>1, <1>1, FS_EmptySet
      <3> QED BY <1>3, <3>1
    <2> HIDE DEF Small
    <2>2. Good(0, f)
      BY <2>1
    <2> QED BY <2>2
  <1>5. ASSUME NEW m \in Nat, m \in T PROVE m + 1 \in T
    <2>1. PICK g : Good(m, g)
      BY <1>5
    <2> DEFINE v(s) == h[<<c[s], g[s \ {c[s]}]>>]
               f == [s \in Small(m + 1) |-> IF Cardinality(s) <= m THEN g[s] ELSE v(s)]
    <2>3. \A s \in Small(m) : s \in Small(m + 1) /\ Cardinality(s) <= m
      <3>1. ASSUME NEW s \in SUBSET U, Cardinality(s) <= m PROVE Cardinality(s) <= m + 1
        BY <1>1, <1>2, <3>1
      <3> QED BY <3>1
    <2>2. \A s \in Small(m + 1) :
              s # {} => s \ {c[s]} \in Small(m) /\ s \ {c[s]} \in Small(m + 1) /\ c[s] \in U
      <3>1. ASSUME NEW s \in SUBSET U, Cardinality(s) <= m + 1, s # {}
            PROVE  s \ {c[s]} \in SUBSET U /\ Cardinality(s \ {c[s]}) <= m /\ c[s] \in U
        BY <1>1, <1>2, <3>1
      <3>2. ASSUME NEW s \in Small(m + 1), s # {}
            PROVE  s \ {c[s]} \in Small(m) /\ c[s] \in U
        BY <3>1, <3>2
      <3> HIDE DEF Small
      <3> QED BY <2>3, <3>2
    <2>4. \A s \in Small(m + 1) : Cardinality(s) <= m => s \in Small(m)
      OBVIOUS
    <2>5. {} \in Small(m) /\ {} \in Small(m + 1)
      BY <1>3
    <2>6. \A s \in Small(m + 1) : ~ (Cardinality(s) <= m) => s # {}
      BY <1>3
    <2> HIDE DEF Small
    <2>7. \A s \in Small(m + 1) : s # {} => v(s) \in D
      BY <2>1, <2>2
    <2>8. f \in [Small(m + 1) -> D]
      BY <2>1, <2>4, <2>6, <2>7
    <2>9. \A s \in Small(m + 1) : f[s] = IF Cardinality(s) <= m THEN g[s] ELSE v(s)
      OBVIOUS
    <2>10. \A s \in Small(m) : f[s] = g[s]
      BY <2>3, <2>9
    <2> HIDE DEF f
    <2>11. ASSUME NEW s \in Small(m + 1), s # {} PROVE f[s] = h[<<c[s], f[s \ {c[s]}]>>]
      <3>1. f[s \ {c[s]}] = g[s \ {c[s]}]
        BY <2>2, <2>10, <2>11
      <3>2. f[s] = v(s)
        <4>1. CASE Cardinality(s) <= m
          BY <2>1, <2>4, <2>9, <2>11, <4>1
        <4>2. CASE ~ (Cardinality(s) <= m)
          BY <2>9, <4>2
        <4> QED BY <4>1, <4>2
      <3> QED BY <3>1, <3>2
    <2>12. Good(m + 1, f)
      BY <2>1, <2>5, <2>8, <2>10, <2>11
    <2> QED BY <2>12
  <1>6. Nat \subseteq T
    <2> HIDE DEF T
    <2> QED BY <1>4, <1>5, Induction
  <1>7. \A s \in SUBSET U : s \in Small(Cardinality(U))
    BY FS_Subset
  <1>8. PICK f : Good(Cardinality(U), f)
    BY <1>6, FS_CardinalityType
  <1>9. Small(Cardinality(U)) = SUBSET U
    BY <1>7
  <1> HIDE DEF Small
  <1>10. Recursive(f, U, D, c, h, a)
    BY <1>8, <1>9 DEF Recursive
  <1> QED BY <1>10

\* Induction over the subsets of a finite set.
LEMMA SetInduction ==
    ASSUME NEW S, IsFiniteSet(S), NEW T, {} \in T,
           \A s \in SUBSET S : s # {} /\ (\A x \in s : s \ {x} \in T) => s \in T
    PROVE  SUBSET S \subseteq T
  <1> DEFINE Q == {n \in Nat : \A s \in SUBSET S : Cardinality(s) = n => s \in T}
  <1>1. ASSUME NEW s \in SUBSET S PROVE IsFiniteSet(s) /\ Cardinality(s) \in Nat
    BY FS_Subset, FS_CardinalityType
  <1>2. 0 \in Q
    <2>1. ASSUME NEW s \in SUBSET S, Cardinality(s) = 0 PROVE s \in T
      <3>1. s = {}
        BY <1>1, <2>1, FS_EmptySet
      <3> QED BY <3>1
    <2> QED BY <2>1
  <1>3. ASSUME NEW n \in Nat, n \in Q PROVE n + 1 \in Q
    <2>1. ASSUME NEW s \in SUBSET S, Cardinality(s) = n + 1 PROVE s \in T
      <3>1. s # {}
        BY <1>1, <2>1, FS_EmptySet
      <3>2. ASSUME NEW x \in s PROVE s \ {x} \in T
        <4>1. s \ {x} \in SUBSET S /\ Cardinality(s \ {x}) = n
          BY <1>1, <2>1, FS_RemoveElement
        <4> QED BY <1>3, <4>1
      <3> QED BY <3>1, <3>2
    <2> QED BY <2>1
  <1>4. Nat \subseteq Q
    <2> HIDE DEF Q
    <2> QED BY <1>2, <1>3, Induction
  <1> QED BY <1>1, <1>4

\* The element that FoldFunctionOnSet takes of a set.
Pick(s) == CHOOSE x \in s : TRUE

\* f has the sums over the subsets of S.
PartialSums(fun, S, f) ==
    /\ f \in [SUBSET S -> Nat] /\ f[{}] = 0
    /\ \A s \in SUBSET S : s # {} => f[s] = fun[Pick(s)] + f[s \ {Pick(s)}]

\* A sum is the last of the partial sums: the choice that FoldFunctionOnSet makes exists.
LEMMA SumIsPartial ==
    ASSUME NEW S, IsFiniteSet(S), NEW fun, \A x \in S : fun[x] \in Nat
    PROVE  \E f : PartialSums(fun, S, f) /\ SumFunctionOnSet(fun, S) = f[S]
  <1> DEFINE c == [s \in SUBSET S |-> Pick(s)]
             h == [p \in S \X Nat |-> fun[p[1]] + p[2]]
             Fold(f) == f = [s \in SUBSET S |-> IF s = {} THEN 0
                                                ELSE fun[Pick(s)] + f[s \ {Pick(s)}]]
             g == CHOOSE f : Fold(f)
  <1>1. ASSUME NEW s \in SUBSET S, s # {} PROVE Pick(s) \in s
    BY <1>1 DEF Pick
  <1>2. Chooses(c, S)
    BY <1>1 DEF Chooses
  <1>3. h \in [S \X Nat -> Nat] /\ \A x \in S, n \in Nat : h[<<x, n>>] = fun[x] + n
    OBVIOUS
  <1>4. \A s \in SUBSET S : c[s] = Pick(s)
    OBVIOUS
  <1> HIDE DEF h, c
  <1>5. PICK f : Recursive(f, S, Nat, c, h, 0)
    BY <1>2, <1>3, SetRecursion
  <1>6. ASSUME NEW s \in SUBSET S, s # {}
        PROVE  f[s] = fun[Pick(s)] + f[s \ {Pick(s)}] /\ f[s \ {Pick(s)}] \in Nat
    BY <1>1, <1>3, <1>4, <1>5, <1>6 DEF Recursive
  <1>7. PartialSums(fun, S, f)
    BY <1>5, <1>6 DEF PartialSums, Recursive
  <1>8. Fold(f)
    <2>1. f = [s \in SUBSET S |-> f[s]]
      BY <1>5 DEF Recursive
    <2>2. \A s \in SUBSET S : f[s] = IF s = {} THEN 0 ELSE fun[Pick(s)] + f[s \ {Pick(s)}]
      BY <1>7 DEF PartialSums
    <2> QED BY <2>1, <2>2, Zenon
  <1>9. Fold(g)
    BY <1>8, Zenon
  <1>10. SumFunctionOnSet(fun, S) = g[S]
    BY Zenon DEF SumFunctionOnSet, FoldFunctionOnSet, MapThenFoldSet, Pick
  <1> HIDE DEF g
  <1>11. \A s \in SUBSET S : g[s] = IF s = {} THEN 0 ELSE fun[Pick(s)] + g[s \ {Pick(s)}]
    BY <1>9, Zenon
  <1> DEFINE T == {s \in SUBSET S : g[s] = f[s]}
  <1>12. {} \in T
    BY <1>11, <1>7 DEF PartialSums
  <1>13. ASSUME NEW s \in SUBSET S, s # {}, \A x \in s : s \ {x} \in T PROVE s \in T
    BY <1>1, <1>6, <1>11, <1>13
  <1>14. SUBSET S \subseteq T
    <2> HIDE DEF T
    <2> QED BY <1>12, <1>13, SetInduction
  <1> QED BY <1>7, <1>10, <1>14

\* The sums of two sets agree on what they share.
LEMMA SumOfPart ==
    ASSUME NEW S, IsFiniteSet(S), NEW fun, \A x \in S : fun[x] \in Nat,
           NEW f, PartialSums(fun, S, f), NEW U \in SUBSET S
    PROVE  SumFunctionOnSet(fun, U) = f[U]
  <1>1. IsFiniteSet(U) /\ \A x \in U : fun[x] \in Nat
    BY FS_Subset
  <1>2. PICK g : PartialSums(fun, U, g) /\ SumFunctionOnSet(fun, U) = g[U]
    BY <1>1, SumIsPartial
  <1> DEFINE T == {s \in SUBSET U : g[s] = f[s]}
  <1>3. {} \in T
    BY <1>2 DEF PartialSums
  <1>4. ASSUME NEW s \in SUBSET U, s # {}, \A x \in s : s \ {x} \in T PROVE s \in T
    <2>1. s \in SUBSET S /\ Pick(s) \in s
      BY <1>4 DEF Pick
    <2>2. g[s] = fun[Pick(s)] + g[s \ {Pick(s)}]
      BY <1>2, <1>4 DEF PartialSums
    <2>3. f[s] = fun[Pick(s)] + f[s \ {Pick(s)}]
      BY <2>1, <1>4 DEF PartialSums
    <2> QED BY <2>1, <2>2, <2>3, <1>4
  <1>5. SUBSET U \subseteq T
    <2> HIDE DEF T
    <2> QED BY <1>1, <1>3, <1>4, SetInduction
  <1> QED BY <1>2, <1>5

\* The sum over no element.
LEMMA SumEmpty == ASSUME NEW fun PROVE SumFunctionOnSet(fun, {}) = 0
  <1>1. IsFiniteSet({})
    BY FS_EmptySet
  <1>2. PICK f : PartialSums(fun, {}, f) /\ SumFunctionOnSet(fun, {}) = f[{}]
    BY <1>1, SumIsPartial
  <1> QED BY <1>2 DEF PartialSums

\* The sum of numbers is a number.
LEMMA SumIsNat ==
    ASSUME NEW S, IsFiniteSet(S), NEW fun, \A x \in S : fun[x] \in Nat
    PROVE  SumFunctionOnSet(fun, S) \in Nat
  <1>1. PICK f : PartialSums(fun, S, f) /\ SumFunctionOnSet(fun, S) = f[S]
    BY SumIsPartial
  <1> QED BY <1>1 DEF PartialSums

\* The order in which the elements are chosen does not matter.
LEMMA SumRemove ==
    ASSUME NEW S, IsFiniteSet(S), NEW fun, \A x \in S : fun[x] \in Nat, NEW x \in S
    PROVE  SumFunctionOnSet(fun, S) = fun[x] + SumFunctionOnSet(fun, S \ {x})
  <1>1. PICK f : PartialSums(fun, S, f) /\ SumFunctionOnSet(fun, S) = f[S]
    BY SumIsPartial
  <1> DEFINE T == {s \in SUBSET S : \A y \in s : f[s] = fun[y] + f[s \ {y}]}
  <1>2. {} \in T
    OBVIOUS
  <1>3. ASSUME NEW s \in SUBSET S, s # {}, \A y \in s : s \ {y} \in T PROVE s \in T
    <2> SUFFICES ASSUME NEW y \in s PROVE f[s] = fun[y] + f[s \ {y}]
      OBVIOUS
    <2> DEFINE p == Pick(s)
    <2>1. p \in s
      BY <1>3 DEF Pick
    <2>2. f[s] = fun[p] + f[s \ {p}]
      BY <1>1, <1>3 DEF PartialSums
    <2> HIDE DEF p
    <2>3. CASE p = y
      BY <2>2, <2>3
    <2>4. CASE p # y
      <3>1. y \in s \ {p} /\ p \in s \ {y} /\ (s \ {p}) \ {y} = (s \ {y}) \ {p}
        BY <2>1, <2>4
      <3>2. f[s \ {p}] = fun[y] + f[(s \ {p}) \ {y}]
        BY <2>1, <3>1, <1>3
      <3>3. f[s \ {y}] = fun[p] + f[(s \ {y}) \ {p}]
        BY <3>1, <1>3
      <3>4. f[(s \ {p}) \ {y}] \in Nat /\ fun[y] \in Nat /\ fun[p] \in Nat
        BY <1>1, <2>1 DEF PartialSums
      <3>5. f[s \ {y}] = fun[p] + f[(s \ {p}) \ {y}]
        BY <3>1, <3>3
      <3> QED BY <2>2, <3>2, <3>4, <3>5
    <2> QED BY <2>3, <2>4
  <1>4. SUBSET S \subseteq T
    <2> HIDE DEF T
    <2> QED BY <1>2, <1>3, SetInduction
  <1>5. f[S] = fun[x] + f[S \ {x}]
    BY <1>4
  <1>6. SumFunctionOnSet(fun, S \ {x}) = f[S \ {x}]
    BY <1>1, SumOfPart
  <1> QED BY <1>1, <1>5, <1>6

\* The sum with one element more.
LEMMA SumAdd ==
    ASSUME NEW S, IsFiniteSet(S), NEW fun, \A y \in S : fun[y] \in Nat,
           NEW x, x \notin S, fun[x] \in Nat
    PROVE  SumFunctionOnSet(fun, S \cup {x}) = fun[x] + SumFunctionOnSet(fun, S)
  <1> DEFINE U == S \cup {x}
  <1>1. IsFiniteSet(U) /\ x \in U /\ U \ {x} = S /\ \A y \in U : fun[y] \in Nat
    BY FS_AddElement
  <1> HIDE DEF U
  <1>2. SumFunctionOnSet(fun, U) = fun[x] + SumFunctionOnSet(fun, U \ {x})
    BY <1>1, SumRemove
  <1> QED BY <1>1, <1>2 DEF U

\* Functions that agree on a set have the same sum over it.
LEMMA SumSame ==
    ASSUME NEW S, IsFiniteSet(S), NEW f, NEW g, \A x \in S : f[x] \in Nat /\ g[x] = f[x]
    PROVE  SumFunctionOnSet(f, S) = SumFunctionOnSet(g, S)
  <1> DEFINE T == {s \in SUBSET S : SumFunctionOnSet(f, s) = SumFunctionOnSet(g, s)}
  <1>1. {} \in T
    BY SumEmpty
  <1>2. ASSUME NEW s \in SUBSET S, s # {}, \A y \in s : s \ {y} \in T PROVE s \in T
    <2>1. PICK y : y \in s
      BY <1>2
    <2>2. IsFiniteSet(s) /\ \A x \in s : f[x] \in Nat /\ g[x] \in Nat
      BY FS_Subset
    <2>3. SumFunctionOnSet(f, s) = f[y] + SumFunctionOnSet(f, s \ {y})
      BY <2>1, <2>2, SumRemove
    <2>4. SumFunctionOnSet(g, s) = g[y] + SumFunctionOnSet(g, s \ {y})
      BY <2>1, <2>2, SumRemove
    <2> QED BY <1>2, <2>1, <2>3, <2>4
  <1>3. SUBSET S \subseteq T
    <2> HIDE DEF T
    <2> QED BY <1>1, <1>2, SetInduction
  <1> QED BY <1>3

\* The sum over a set is that over a part of it and that over the rest.
LEMMA SumSplit ==
    ASSUME NEW S, IsFiniteSet(S), NEW fun, \A x \in S : fun[x] \in Nat, NEW U \in SUBSET S
    PROVE  SumFunctionOnSet(fun, S) = SumFunctionOnSet(fun, U) + SumFunctionOnSet(fun, S \ U)
  <1> DEFINE Sum(s) == SumFunctionOnSet(fun, s)
             T == {s \in SUBSET U : Sum(S) = Sum(s) + Sum(S \ s)}
  <1>1. ASSUME NEW s \in SUBSET S PROVE IsFiniteSet(s) /\ Sum(s) \in Nat
    <2>1. IsFiniteSet(s) /\ \A x \in s : fun[x] \in Nat
      BY FS_Subset
    <2> QED BY <2>1, SumIsNat
  <1>2. {} \in T
    <2>1. S \ {} = S /\ Sum({}) = 0 /\ Sum(S) \in Nat
      BY <1>1, SumEmpty
    <2> QED BY <2>1
  <1>3. ASSUME NEW s \in SUBSET U, s # {}, \A y \in s : s \ {y} \in T PROVE s \in T
    <2>1. PICK y : y \in s
      BY <1>3
    <2> DEFINE r == s \ {y}
    <2>2. /\ r \in SUBSET S /\ s \in SUBSET S /\ S \ s \in SUBSET S /\ S \ r \in SUBSET S
          /\ y \in S \ r /\ (S \ r) \ {y} = S \ s /\ fun[y] \in Nat
      BY <2>1
    <2>3. Sum(S) = Sum(r) + Sum(S \ r)
      BY <1>3, <2>1
    <2>4. Sum(s) = fun[y] + Sum(r)
      <3>1. IsFiniteSet(s) /\ \A x \in s : fun[x] \in Nat
        BY <1>1, <2>2
      <3> QED BY <2>1, <3>1, SumRemove
    <2> DEFINE q == S \ r
    <2>5. Sum(q) = fun[y] + Sum(q \ {y})
      <3>1. IsFiniteSet(q) /\ y \in q /\ \A x \in q : fun[x] \in Nat
        BY <1>1, <2>2
      <3> HIDE DEF q
      <3> QED BY <3>1, SumRemove
    <2>6. Sum(r) \in Nat /\ Sum(S \ s) \in Nat
      BY <1>1, <2>2
    <2>7. Sum(S) = Sum(s) + Sum(S \ s)
      <3>1. Sum(q) = fun[y] + Sum(S \ s)
        BY <2>2, <2>5
      <3>2. fun[y] \in Nat
        BY <2>2
      <3> HIDE DEF Sum, r, q
      <3> QED BY <2>3, <2>4, <2>6, <3>1, <3>2 DEF q
    <2> QED BY <2>7
  <1>4. SUBSET U \subseteq T
    <2>1. IsFiniteSet(U)
      BY FS_Subset
    <2> HIDE DEF T
    <2> QED BY <2>1, <1>2, <1>3, SetInduction
  <1> QED BY <1>4

\* A set of positions has a greatest one.
LEMMA Greatest == ASSUME NEW n \in Nat, NEW s \in SUBSET (1 .. n), s # {}
                  PROVE  Max(s) \in s /\ \A i \in s : i <= Max(s)
  <1> DEFINE T == {n - i : i \in s}
  <1>1. T \subseteq Nat /\ T # {}
    <2>1. ASSUME NEW i \in s PROVE i \in 1 .. n
      OBVIOUS
    <2>2. ASSUME NEW i \in 1 .. n PROVE n - i \in Nat
      OBVIOUS
    <2> QED BY <2>1, <2>2
  <1>2. PICK m \in T : \A k \in T : m <= k
    <2> HIDE DEF T
    <2> QED BY <1>1, Least
  <1>3. PICK i \in s : m = n - i
    BY <1>2
  <1>4. ASSUME NEW k \in s PROVE k <= i
    <2>1. m <= n - k
      BY <1>2
    <2> QED BY <1>3, <2>1
  <1>5. \E x \in s : \A y \in s : x >= y
    <2>1. \A y \in s : i >= y
      BY <1>4
    <2> QED BY <2>1
  <1>6. Max(s) \in s /\ \A y \in s : Max(s) >= y
    BY <1>5 DEF Max
  <1> QED BY <1>6

\* f is a at 0, and then what h makes of a position and of f for the one before.
Stepwise(f, n, D, h, a) ==
    f \in [0 .. n -> D] /\ f[0] = a /\ \A j \in 1 .. n : f[j] = h[<<j, f[j - 1]>>]

\* A function of the first numbers that is defined step by step exists.
LEMMA Recursion ==
    ASSUME NEW n \in Nat, NEW D, NEW a \in D, NEW h \in [(1 .. n) \X D -> D]
    PROVE  \E f : Stepwise(f, n, D, h, a)
  <1> DEFINE U == 1 .. n
             c == [s \in SUBSET U |-> Max(s)]
  <1>1. IsFiniteSet(U)
    BY FS_Interval
  <1>2. ASSUME NEW s \in SUBSET U, s # {} PROVE Max(s) \in s /\ \A i \in s : i <= Max(s)
    BY <1>2, Greatest
  <1>3. Chooses(c, U)
    BY <1>2 DEF Chooses
  <1>4. \A s \in SUBSET U : c[s] = Max(s)
    OBVIOUS
  <1>5. \A j \in 1 .. n : (1 .. j) \in SUBSET U /\ 1 .. j # {} /\ (1 .. j) \ {j} = 1 .. j - 1
    OBVIOUS
  <1>6. ASSUME NEW j \in 1 .. n PROVE Max(1 .. j) = j
    <2> DEFINE m == Max(1 .. j)
    <2>1. m \in 1 .. j /\ \A i \in 1 .. j : i <= m
      BY <1>2, <1>5
    <2>2. j \in 1 .. j
      OBVIOUS
    <2> HIDE DEF m
    <2>3. j <= m /\ m <= j /\ m \in Nat
      BY <2>1, <2>2
    <2> QED BY <2>3 DEF m
  <1>7. h \in [U \X D -> D] /\ \A j \in 0 .. n : (1 .. j) \in SUBSET U
    OBVIOUS
  <1>8. 1 .. 0 = {}
    OBVIOUS
  <1> HIDE DEF U, c
  <1>9. PICK g : Recursive(g, U, D, c, h, a)
    BY <1>1, <1>3, <1>7, SetRecursion
  <1> DEFINE f == [j \in 0 .. n |-> g[1 .. j]]
  <1>10. f \in [0 .. n -> D]
    BY <1>7, <1>9 DEF Recursive
  <1>11. f[0] = a
    BY <1>8, <1>9 DEF Recursive
  <1>12. ASSUME NEW j \in 1 .. n PROVE f[j] = h[<<j, f[j - 1]>>]
    <2>1. g[1 .. j] = h[<<j, g[1 .. j - 1]>>]
      BY <1>4, <1>5, <1>6, <1>9 DEF Recursive
    <2>2. j \in 0 .. n /\ j - 1 \in 0 .. n
      OBVIOUS
    <2> QED BY <2>1, <2>2
  <1> HIDE DEF f
  <1>13. Stepwise(f, n, D, h, a)
    BY <1>10, <1>11, <1>12 DEF Stepwise
  <1> QED BY <1>13

\* The sum of a function.
LEMMA SumFunctionIs == ASSUME NEW f PROVE SumFunction(f) = SumFunctionOnSet(f, DOMAIN f)
  BY Zenon DEF SumFunction, SumFunctionOnSet, FoldFunction

\* The sum over the first positions, with one more.
LEMMA SumUpTo ==
    ASSUME NEW k \in Nat, NEW f, \A i \in 1 .. k + 1 : f[i] \in Nat
    PROVE  SumFunctionOnSet(f, 1 .. k + 1) = SumFunctionOnSet(f, 1 .. k) + f[k + 1]
  <1> DEFINE S == 1 .. k
             x == k + 1
  <1>1. IsFiniteSet(S) /\ x \notin S /\ f[x] \in Nat /\ \A y \in S : f[y] \in Nat
    BY FS_Interval
  <1>2. S \cup {x} = 1 .. k + 1
    OBVIOUS
  <1>3. SumFunctionOnSet(f, S) \in Nat
    BY <1>1, SumIsNat
  <1> HIDE DEF S, x
  <1>4. SumFunctionOnSet(f, S \cup {x}) = f[x] + SumFunctionOnSet(f, S)
    BY <1>1, SumAdd
  <1>5. f[x] + SumFunctionOnSet(f, S) = SumFunctionOnSet(f, S) + f[x]
    BY <1>1, <1>3
  <1> QED BY <1>2, <1>4, <1>5 DEF S, x

\* What Filter makes of the i-th element.
Extended(list, K, r, i) == IF list[i] \in K THEN Append(r, list[i]) ELSE r

\* FoldLeft, unfolded: the list is read from its end.
PartialFilters(S, list, K, f) ==
    /\ f \in [SUBSET (1 .. Len(list)) -> Seq(S \cap K)] /\ f[{}] = <<>>
    /\ \A s \in SUBSET (1 .. Len(list)) :
          s # {} => f[s] = Extended(list, K, f[s \ {Max(s)}], Max(s))

\* A filtered list is the last of the partial ones: the choice that FoldLeft makes exists.
LEMMA FilterIsPartial ==
    ASSUME NEW S, NEW list \in Seq(S), NEW K
    PROVE  \E f : PartialFilters(S, list, K, f) /\ Filter(list, K) = f[1 .. Len(list)]
  <1> DEFINE D == Seq(S \cap K)
             N == Len(list)
             U == 1 .. N
             c == [s \in SUBSET U |-> Max(s)]
             h == [p \in U \X D |-> Extended(list, K, p[2], p[1])]
             Fold(f) == f = [s \in SUBSET U |-> IF s = {} THEN <<>>
                                                ELSE Extended(list, K, f[s \ {Max(s)}], Max(s))]
             g == CHOOSE f : Fold(f)
             e == <<>>
  <1>1. Filter(list, K) = g[U]
    <2>1. DOMAIN list = U
      OBVIOUS
    <2> QED BY <2>1, Zenon DEF Filter, FoldLeft, MapThenFoldSet, Extended
  <1>2. \A i \in U, r \in D : Extended(list, K, r, i) \in D
    BY DEF Extended
  <1>3. e \in D /\ N \in Nat /\ IsFiniteSet(U)
    BY FS_Interval
  <1>4. ASSUME NEW s \in SUBSET U, s # {} PROVE Max(s) \in s
    BY <1>3, <1>4, Greatest
  <1> HIDE DEF g, D, N
  <1>5. Chooses(c, U)
    BY <1>4 DEF Chooses
  <1>6. h \in [U \X D -> D] /\ \A i \in U, r \in D : h[<<i, r>>] = Extended(list, K, r, i)
    BY <1>2
  <1>7. \A s \in SUBSET U : c[s] = Max(s)
    OBVIOUS
  <1> HIDE DEF h, c, U, e
  <1>8. PICK f : Recursive(f, U, D, c, h, e)
    BY <1>3, <1>5, <1>6, SetRecursion
  <1>9. ASSUME NEW s \in SUBSET U, s # {}
        PROVE  f[s] = Extended(list, K, f[s \ {Max(s)}], Max(s))
    BY <1>4, <1>6, <1>7, <1>8, <1>9 DEF Recursive
  <1>10. Fold(f)
    <2>1. f = [s \in SUBSET U |-> f[s]]
      BY <1>8 DEF Recursive
    <2>2. \A s \in SUBSET U : f[s] = IF s = {} THEN <<>>
                                    ELSE Extended(list, K, f[s \ {Max(s)}], Max(s))
      BY <1>8, <1>9 DEF Recursive, e
    <2> QED BY <2>1, <2>2, Zenon
  <1>11. Fold(g)
    BY <1>10, Zenon DEF g
  <1>12. \A s \in SUBSET U : g[s] = IF s = {} THEN <<>>
                                    ELSE Extended(list, K, g[s \ {Max(s)}], Max(s))
    BY <1>11, Zenon
  <1> DEFINE T == {s \in SUBSET U : g[s] = f[s]}
  <1>13. {} \in T
    BY <1>8, <1>12 DEF Recursive, e
  <1>14. ASSUME NEW s \in SUBSET U, s # {}, \A x \in s : s \ {x} \in T PROVE s \in T
    BY <1>4, <1>9, <1>12, <1>14
  <1>15. SUBSET U \subseteq T
    <2> HIDE DEF T
    <2> QED BY <1>3, <1>13, <1>14, SetInduction
  <1>16. f \in [SUBSET U -> D] /\ f[{}] = <<>> /\ Filter(list, K) = f[U]
    BY <1>1, <1>8, <1>15 DEF Recursive, e
  <1> QED BY <1>9, <1>16 DEF PartialFilters, U, D, N

\* A filtered list has elements of the list that are kept.
LEMMA FilterType == ASSUME NEW S, NEW list \in Seq(S), NEW K PROVE Filter(list, K) \in Seq(S \cap K)
  <1>1. PICK f : PartialFilters(S, list, K, f) /\ Filter(list, K) = f[1 .. Len(list)]
    BY FilterIsPartial
  <1> QED BY <1>1 DEF PartialFilters

\* The empty list, filtered.
LEMMA FilterEmpty == ASSUME NEW K PROVE Filter(<<>>, K) = <<>>
  <1> DEFINE S == {}
             list == <<>>
  <1>1. list \in Seq(S) /\ Len(list) = 0 /\ 1 .. Len(list) = {}
    OBVIOUS
  <1> HIDE DEF S, list
  <1>2. PICK f : PartialFilters(S, list, K, f) /\ Filter(list, K) = f[1 .. Len(list)]
    BY <1>1, FilterIsPartial
  <1>3. Filter(list, K) = <<>>
    BY <1>1, <1>2 DEF PartialFilters
  <1> QED BY <1>3 DEF list

\* A longer list, filtered.
LEMMA FilterAppend ==
    ASSUME NEW S, NEW list \in Seq(S), NEW e \in S, NEW K
    PROVE  Filter(Append(list, e), K) = IF e \in K THEN Append(Filter(list, K), e)
                                        ELSE Filter(list, K)
  <1> DEFINE N == Len(list)
             more == Append(list, e)
  <1>1. /\ N \in Nat /\ more \in Seq(S) /\ Len(more) = N + 1 /\ more[N + 1] = e
        /\ \A i \in 1 .. N : more[i] = list[i]
    OBVIOUS
  <1> HIDE DEF more
  <1>2. PICK f : PartialFilters(S, list, K, f) /\ Filter(list, K) = f[1 .. Len(list)]
    BY FilterIsPartial
  <1>3. PICK g : PartialFilters(S, more, K, g) /\ Filter(more, K) = g[1 .. Len(more)]
    BY <1>1, FilterIsPartial
  <1> HIDE DEF N
  <1> DEFINE T == {s \in SUBSET (1 .. N) : g[s] = f[s]}
  <1>4. {} \in T
    BY <1>2, <1>3 DEF PartialFilters
  <1>5. ASSUME NEW s \in SUBSET (1 .. N), s # {}, \A x \in s : s \ {x} \in T PROVE s \in T
    <2>1. Max(s) \in s
      BY <1>1, <1>5, Greatest
    <2>2. s \in SUBSET (1 .. Len(more)) /\ s \in SUBSET (1 .. Len(list))
      BY <1>1 DEF N
    <2>3. g[s] = Extended(more, K, g[s \ {Max(s)}], Max(s))
      BY <1>3, <1>5, <2>2 DEF PartialFilters
    <2>4. f[s] = Extended(list, K, f[s \ {Max(s)}], Max(s))
      BY <1>2, <1>5, <2>2 DEF PartialFilters
    <2>5. g[s \ {Max(s)}] = f[s \ {Max(s)}] /\ more[Max(s)] = list[Max(s)]
      BY <1>1, <1>5, <2>1
    <2> QED BY <2>3, <2>4, <2>5 DEF Extended
  <1>6. SUBSET (1 .. N) \subseteq T
    <2> DEFINE U == 1 .. N
    <2>1. IsFiniteSet(U)
      BY <1>1, FS_Interval
    <2>2. \A s \in SUBSET U : s # {} /\ (\A x \in s : s \ {x} \in T) => s \in T
      BY <1>5
    <2> HIDE DEF T, U
    <2>3. SUBSET U \subseteq T
      BY <2>1, <2>2, <1>4, SetInduction
    <2> QED BY <2>3 DEF U
  <1>7. g[1 .. N] = Filter(list, K)
    BY <1>2, <1>6 DEF N
  <1> DEFINE all == 1 .. N + 1
  <1>8. N + 1 \in all /\ N + 1 \in Nat
    BY <1>1
  <1>9. Max(all) \in all /\ \A i \in all : i <= Max(all)
    <2>1. all \in SUBSET (1 .. N + 1)
      OBVIOUS
    <2> HIDE DEF all
    <2> QED BY <1>8, <2>1, Greatest
  <1>10. Max(all) = N + 1
    BY <1>1, <1>8, <1>9
  <1>11. all \ {N + 1} = 1 .. N
    BY <1>1
  <1>12. g[all] = Extended(more, K, g[all \ {Max(all)}], Max(all))
    <2> HIDE DEF all
    <2>1. all \in SUBSET (1 .. Len(more))
      BY <1>1 DEF all
    <2> QED BY <2>1, <1>3, <1>8 DEF PartialFilters
  <1> HIDE DEF all
  <1>13. g[all] = Extended(more, K, Filter(list, K), N + 1)
    BY <1>7, <1>10, <1>11, <1>12
  <1>14. Filter(more, K) = g[all]
    BY <1>1, <1>3 DEF all
  <1> QED BY <1>1, <1>13, <1>14 DEF Extended, more

\* Induction over the lists of S, which grow at their end.
LEMMA SeqInduction ==
    ASSUME NEW S, NEW T, <<>> \in T,
           \A list \in Seq(S) : list \in T => \A e \in S : Append(list, e) \in T
    PROVE  Seq(S) \subseteq T
  <1> DEFINE Q == {n \in Nat : \A list \in Seq(S) : Len(list) = n => list \in T}
  <1>1. 0 \in Q
    <2>1. ASSUME NEW list \in Seq(S), Len(list) = 0 PROVE list \in T
      <3>1. list = <<>>
        BY <2>1
      <3> QED BY <3>1
    <2> QED BY <2>1
  <1>2. ASSUME NEW n \in Nat, n \in Q PROVE n + 1 \in Q
    <2>1. ASSUME NEW list \in Seq(S), Len(list) = n + 1 PROVE list \in T
      <3> DEFINE front == SubSeq(list, 1, n)
                 e == list[n + 1]
      <3>1. e \in S /\ front \in Seq(S) /\ Len(front) = n
        BY <2>1
      <3>2. list = Append(front, e)
        BY <2>1
      <3>3. front \in T
        BY <1>2, <3>1
      <3> HIDE DEF front, e
      <3> QED BY <3>1, <3>2, <3>3
    <2> QED BY <2>1
  <1>3. Nat \subseteq Q
    <2> HIDE DEF Q
    <2> QED BY <1>1, <1>2, Induction
  <1> QED BY <1>3

\* The head of a list that has grown.
LEMMA HeadAppend ==
    ASSUME NEW S, NEW list \in Seq(S), NEW e
    PROVE  /\ Append(list, e) # <<>> /\ Len(Append(list, e)) = Len(list) + 1
           /\ Head(Append(list, e)) = IF list = <<>> THEN e ELSE Head(list)
  <1>1. /\ Append(list, e) \in Seq(S \cup {e}) /\ Len(list) \in Nat
        /\ Len(Append(list, e)) = Len(list) + 1
        /\ \A i \in 1 .. Len(list) : Append(list, e)[i] = list[i]
        /\ Append(list, e)[Len(list) + 1] = e
    <2>1. list \in Seq(S \cup {e}) /\ e \in S \cup {e} /\ Len(list) \in Nat
      OBVIOUS
    <2> QED BY <2>1, AppendProperties
  <1>2. Append(list, e) # <<>> /\ Head(Append(list, e)) = Append(list, e)[1]
    BY <1>1
  <1>3. CASE list = <<>>
    BY <1>1, <1>2, <1>3
  <1>4. CASE list # <<>>
    <2>1. 1 \in 1 .. Len(list) /\ Head(list) = list[1]
      BY <1>4
    <2> QED BY <1>1, <1>2, <1>4, <2>1
  <1> QED BY <1>1, <1>2, <1>3, <1>4

\* The elements of a list that has grown.
LEMMA ToSetAppend ==
    ASSUME NEW S, NEW list \in Seq(S), NEW e
    PROVE  ToSet(Append(list, e)) = ToSet(list) \cup {e}
  <1> DEFINE N == Len(list)
             more == Append(list, e)
  <1>1. /\ N \in Nat /\ DOMAIN list = 1 .. N /\ DOMAIN more = 1 .. N + 1 /\ more[N + 1] = e
        /\ \A i \in 1 .. N : more[i] = list[i]
    OBVIOUS
  <1> HIDE DEF more, N
  <1>2. 1 .. N + 1 = (1 .. N) \cup {N + 1}
    BY <1>1
  <1> QED BY <1>1, <1>2 DEF ToSet, more

\* Filtering keeps the elements of K and no other.
LEMMA FilterElements ==
    ASSUME NEW S, NEW K, NEW list \in Seq(S)
    PROVE  ToSet(Filter(list, K)) = ToSet(list) \cap K
  <1> DEFINE T == {q \in Seq(S) : ToSet(Filter(q, K)) = ToSet(q) \cap K}
  <1>1. <<>> \in T
    BY FilterEmpty DEF ToSet
  <1>2. ASSUME NEW q \in Seq(S), q \in T, NEW e \in S PROVE Append(q, e) \in T
    <2>2. ToSet(Append(q, e)) = ToSet(q) \cup {e}
      BY ToSetAppend
    <2>4. CASE e \in K
      <3>1. Filter(Append(q, e), K) = Append(Filter(q, K), e)
        BY <2>4, FilterAppend
      <3>2. Filter(q, K) \in Seq(S \cap K)
        BY FilterType
      <3>3. ToSet(Filter(Append(q, e), K)) = ToSet(Filter(q, K)) \cup {e}
        BY <3>1, <3>2, ToSetAppend
      <3> QED BY <1>2, <2>2, <2>4, <3>3
    <2>5. CASE e \notin K
      BY <1>2, <2>2, <2>5, FilterAppend
    <2> QED BY <2>4, <2>5
  <1>3. Seq(S) \subseteq T
    <2> HIDE DEF T
    <2> QED BY <1>1, <1>2, SeqInduction
  <1> QED BY <1>3

\* A filtered list is not longer, and shorter when its head is not kept.
LEMMA FilterShortens ==
    ASSUME NEW S, NEW list \in Seq(S), NEW K
    PROVE  /\ Len(Filter(list, K)) <= Len(list)
           /\ list # <<>> /\ Head(list) \notin K => Len(Filter(list, K)) < Len(list)
  <1> DEFINE T == {q \in Seq(S) : /\ Len(Filter(q, K)) <= Len(q)
                                  /\ q # <<>> /\ Head(q) \notin K => Len(Filter(q, K)) < Len(q)}
  <1>1. <<>> \in T
    <2>1. Len(Filter(<<>>, K)) = 0
      BY FilterEmpty
    <2> QED BY <2>1
  <1>2. ASSUME NEW q \in Seq(S), q \in T, NEW e \in S PROVE Append(q, e) \in T
    <2> DEFINE more == Append(q, e)
               old == Filter(q, K)
               new == Filter(more, K)
    <2>1. old \in Seq(S \cap K)
      BY FilterType
    <2>2. new = IF e \in K THEN Append(old, e) ELSE old
      BY FilterAppend
    <2>3. more \in Seq(S) /\ Len(more) = Len(q) + 1 /\ Len(q) \in Nat
      OBVIOUS
    <2>4. Len(old) <= Len(q) /\ (q # <<>> /\ Head(q) \notin K => Len(old) < Len(q))
      BY <1>2
    <2>5. Head(more) = IF q = <<>> THEN e ELSE Head(q)
      OBVIOUS
    <2>6. Len(new) = (IF e \in K THEN Len(old) + 1 ELSE Len(old)) /\ Len(old) \in Nat
      BY <2>1, <2>2
    <2>7. more # <<>> /\ (q = <<>> => Len(q) = 0)
      OBVIOUS
    <2> HIDE DEF more, old, new
    <2>8. Len(new) <= Len(more)
      BY <2>3, <2>4, <2>6
    <2>9. Head(more) \notin K => Len(new) < Len(more)
      <3>1. CASE q = <<>>
        BY <2>3, <2>4, <2>5, <2>6, <2>7, <3>1
      <3>2. CASE q # <<>>
        BY <2>3, <2>4, <2>5, <2>6, <3>2
      <3> QED BY <3>1, <3>2
    <2> QED BY <2>3, <2>8, <2>9 DEF more, new
  <1>3. Seq(S) \subseteq T
    <2> HIDE DEF T
    <2> QED BY <1>1, <1>2, SeqInduction
  <1> QED BY <1>3

\* Every element of a list is related to those that come after it.
Ordered(list, R) == \A i, j \in DOMAIN list : i < j => <<list[i], list[j]>> \in R

\* A list that grows stays ordered when its elements are before the new one.
LEMMA OrderedAppend ==
    ASSUME NEW S, NEW list \in Seq(S), NEW e, NEW R
    PROVE  Ordered(Append(list, e), R) <=> Ordered(list, R) /\ \A x \in ToSet(list) : <<x, e>> \in R
  <1> DEFINE N == Len(list)
             more == Append(list, e)
  <1>1. /\ N \in Nat /\ DOMAIN list = 1 .. N /\ DOMAIN more = 1 .. N + 1 /\ more[N + 1] = e
        /\ \A i \in 1 .. N : more[i] = list[i]
    OBVIOUS
  <1> HIDE DEF more, N
  <1>2. ASSUME Ordered(more, R) PROVE Ordered(list, R) /\ \A x \in ToSet(list) : <<x, e>> \in R
    <2>1. \A i, j \in 1 .. N : i < j => <<list[i], list[j]>> \in R
      <3> SUFFICES ASSUME NEW i \in 1 .. N, NEW j \in 1 .. N, i < j PROVE <<list[i], list[j]>> \in R
        OBVIOUS
      <3>1. i \in 1 .. N + 1 /\ j \in 1 .. N + 1
        BY <1>1
      <3> QED BY <3>1, <1>1, <1>2 DEF Ordered
    <2>2. \A i \in 1 .. N : <<list[i], e>> \in R
      <3> SUFFICES ASSUME NEW i \in 1 .. N PROVE <<list[i], e>> \in R
        OBVIOUS
      <3>1. i \in 1 .. N + 1 /\ N + 1 \in 1 .. N + 1 /\ i < N + 1
        BY <1>1
      <3> QED BY <3>1, <1>1, <1>2 DEF Ordered
    <2> QED BY <1>1, <2>1, <2>2 DEF Ordered, ToSet
  <1>3. ASSUME Ordered(list, R), \A x \in ToSet(list) : <<x, e>> \in R PROVE Ordered(more, R)
    <2> SUFFICES ASSUME NEW i \in 1 .. N + 1, NEW j \in 1 .. N + 1, i < j
                 PROVE  <<more[i], more[j]>> \in R
      BY <1>1 DEF Ordered
    <2>1. i \in 1 .. N /\ (j \in 1 .. N \/ j = N + 1)
      BY <1>1
    <2>2. CASE j \in 1 .. N
      BY <1>1, <1>3, <2>1, <2>2 DEF Ordered
    <2>3. CASE j = N + 1
      BY <1>1, <1>3, <2>1, <2>3 DEF ToSet
    <2> QED BY <2>1, <2>2, <2>3
  <1> QED BY <1>2, <1>3 DEF more

\* Filtering keeps the order.
LEMMA FilterOrdered ==
    ASSUME NEW S, NEW list \in Seq(S), NEW K, NEW R, Ordered(list, R)
    PROVE  Ordered(Filter(list, K), R)
  <1> DEFINE T == {q \in Seq(S) : Ordered(q, R) => Ordered(Filter(q, K), R)}
  <1>1. <<>> \in T
    BY FilterEmpty DEF Ordered
  <1>2. ASSUME NEW q \in Seq(S), q \in T, NEW e \in S PROVE Append(q, e) \in T
    <2> SUFFICES ASSUME Ordered(Append(q, e), R) PROVE Ordered(Filter(Append(q, e), K), R)
      OBVIOUS
    <2>1. Ordered(q, R) /\ \A x \in ToSet(q) : <<x, e>> \in R
      BY OrderedAppend
    <2>2. Ordered(Filter(q, K), R) /\ Filter(q, K) \in Seq(S \cap K)
      BY <1>2, <2>1, FilterType
    <2>3. \A x \in ToSet(Filter(q, K)) : <<x, e>> \in R
      BY <2>1, FilterElements
    <2>4. Ordered(Append(Filter(q, K), e), R)
      BY <2>2, <2>3, OrderedAppend
    <2> QED BY <2>2, <2>4, FilterAppend
  <1>3. Seq(S) \subseteq T
    <2> HIDE DEF T
    <2> QED BY <1>1, <1>2, SeqInduction
  <1> QED BY <1>3

\* A list of growing numbers.
Increasing(list) == Ordered(list, {p \in Nat \X Nat : p[1] < p[2]})

\* The tail of an ordered list is ordered, and comes after its head.
LEMMA OrderedTail ==
    ASSUME NEW S, NEW list \in Seq(S), list # <<>>, NEW R, Ordered(list, R)
    PROVE  /\ Ordered(Tail(list), R) /\ \A x \in ToSet(Tail(list)) : <<Head(list), x>> \in R
           /\ ToSet(list) = ToSet(Tail(list)) \cup {Head(list)}
  <1> DEFINE N == Len(list)
             rest == Tail(list)
  <1>1. /\ N \in Nat /\ N # 0 /\ DOMAIN list = 1 .. N /\ DOMAIN rest = 1 .. N - 1
        /\ Head(list) = list[1]
        /\ \A i \in 1 .. N - 1 : rest[i] = list[i + 1]
    OBVIOUS
  <1> HIDE DEF rest, N
  <1>2. ASSUME NEW i \in 1 .. N - 1 PROVE i + 1 \in 1 .. N /\ 1 \in 1 .. N /\ 1 < i + 1
    BY <1>1
  <1>3. Ordered(rest, R)
    <2> SUFFICES ASSUME NEW i \in 1 .. N - 1, NEW j \in 1 .. N - 1, i < j
                 PROVE  <<rest[i], rest[j]>> \in R
      BY <1>1 DEF Ordered
    <2>1. i + 1 < j + 1
      OBVIOUS
    <2> QED BY <1>1, <1>2, <2>1 DEF Ordered
  <1>4. \A x \in ToSet(rest) : <<Head(list), x>> \in R
    <2> SUFFICES ASSUME NEW i \in 1 .. N - 1 PROVE <<list[1], rest[i]>> \in R
      BY <1>1 DEF ToSet
    <2> QED BY <1>1, <1>2 DEF Ordered
  <1>5. ToSet(list) = ToSet(rest) \cup {Head(list)}
    <2>1. \A i \in 1 .. N : i = 1 \/ (i - 1 \in 1 .. N - 1 /\ (i - 1) + 1 = i)
      BY <1>1
    <2>2. \A x : x \in ToSet(list) <=> \E i \in 1 .. N : x = list[i]
      BY <1>1 DEF ToSet
    <2>3. \A x : x \in ToSet(rest) <=> \E i \in 1 .. N - 1 : x = rest[i]
      BY <1>1 DEF ToSet
    <2>4. ASSUME NEW i \in 1 .. N PROVE list[i] \in ToSet(rest) \cup {Head(list)}
      BY <1>1, <2>1, <2>3
    <2>5. ASSUME NEW i \in 1 .. N - 1 PROVE rest[i] \in ToSet(list)
      BY <1>1, <1>2, <2>2
    <2>6. Head(list) \in ToSet(list)
      BY <1>1, <2>2
    <2> QED BY <2>2, <2>3, <2>4, <2>5, <2>6
  <1> QED BY <1>3, <1>4, <1>5 DEF rest
\* Lists with the same elements kept are filtered alike.
LEMMA FilterSame ==
    ASSUME NEW S, NEW list \in Seq(S), NEW K, NEW L, \A x \in S : x \in K <=> x \in L
    PROVE  Filter(list, K) = Filter(list, L)
  <1> DEFINE T == {q \in Seq(S) : Filter(q, K) = Filter(q, L)}
  <1>1. <<>> \in T
    BY FilterEmpty
  <1>2. ASSUME NEW q \in Seq(S), q \in T, NEW e \in S PROVE Append(q, e) \in T
    <2>1. Filter(Append(q, e), K) = IF e \in K THEN Append(Filter(q, K), e) ELSE Filter(q, K)
      BY FilterAppend
    <2>2. Filter(Append(q, e), L) = IF e \in L THEN Append(Filter(q, L), e) ELSE Filter(q, L)
      BY FilterAppend
    <2>3. Filter(q, K) = Filter(q, L) /\ (e \in K <=> e \in L)
      BY <1>2
    <2>4. Filter(Append(q, e), K) = Filter(Append(q, e), L)
      <3>1. CASE e \in K
        BY <2>1, <2>2, <2>3, <3>1
      <3>2. CASE e \notin K
        BY <2>1, <2>2, <2>3, <3>2
      <3> QED BY <3>1, <3>2
    <2>5. Append(q, e) \in Seq(S)
      OBVIOUS
    <2> QED BY <2>4, <2>5
  <1>3. Seq(S) \subseteq T
    <2> HIDE DEF T
    <2> QED BY <1>1, <1>2, SeqInduction
  <1> QED BY <1>3

\* A concatenation is filtered part by part.
LEMMA FilterConcat ==
    ASSUME NEW S, NEW a \in Seq(S), NEW b \in Seq(S), NEW K
    PROVE  Filter(a \o b, K) = Filter(a, K) \o Filter(b, K)
  <1> DEFINE T == {q \in Seq(S) : Filter(a \o q, K) = Filter(a, K) \o Filter(q, K)}
  <1>1. Filter(a, K) \in Seq(S)
    <2>1. Filter(a, K) \in Seq(S \cap K)
      BY FilterType
    <2> QED BY <2>1
  <1>2. <<>> \in T
    <2>1. a \o <<>> = a /\ Filter(a, K) \o <<>> = Filter(a, K)
      BY <1>1
    <2>2. Filter(<<>>, K) = <<>>
      BY FilterEmpty
    <2>3. Filter(a \o <<>>, K) = Filter(a, K) \o Filter(<<>>, K)
      BY <2>1, <2>2, Zenon
    <2> QED BY <2>3
  <1>3. ASSUME NEW q \in Seq(S), q \in T, NEW e \in S PROVE Append(q, e) \in T
    <2>1. a \o Append(q, e) = Append(a \o q, e) /\ a \o q \in Seq(S) /\ Append(q, e) \in Seq(S)
      OBVIOUS
    <2>2. Filter(q, K) \in Seq(S)
      <3>1. Filter(q, K) \in Seq(S \cap K)
        BY FilterType
      <3> QED BY <3>1
    <2>3. Filter(Append(a \o q, e), K) = IF e \in K THEN Append(Filter(a \o q, K), e)
                                         ELSE Filter(a \o q, K)
      BY <2>1, FilterAppend
    <2>4. Filter(Append(q, e), K) = IF e \in K THEN Append(Filter(q, K), e) ELSE Filter(q, K)
      BY FilterAppend
    <2>5. Filter(a \o q, K) = Filter(a, K) \o Filter(q, K)
      BY <1>3
    <2>6. Filter(a, K) \o Append(Filter(q, K), e) = Append(Filter(a, K) \o Filter(q, K), e)
      BY <1>1, <2>2
    <2>7. Filter(a \o Append(q, e), K) = Filter(a, K) \o Filter(Append(q, e), K)
      BY <2>1, <2>3, <2>4, <2>5, <2>6
    <2> QED BY <2>1, <2>7
  <1>4. Seq(S) \subseteq T
    <2> HIDE DEF T
    <2> QED BY <1>2, <1>3, SeqInduction
  <1> QED BY <1>4

\* A list of one element, filtered.
LEMMA FilterOne == ASSUME NEW e, NEW K PROVE Filter(<<e>>, K) = IF e \in K THEN <<e>> ELSE <<>>
  <1> DEFINE none == <<>>
  <1>1. none \in Seq({e}) /\ e \in {e} /\ Append(none, e) = <<e>>
    OBVIOUS
  <1>2. Filter(none, K) = none
    BY FilterEmpty
  <1> HIDE DEF none
  <1>3. Filter(Append(none, e), K) = IF e \in K THEN Append(Filter(none, K), e) ELSE Filter(none, K)
    BY <1>1, FilterAppend
  <1> QED BY <1>1, <1>2, <1>3 DEF none

\* The sum over the first positions, without the first of them.
LEMMA SumShift ==
    ASSUME NEW n \in Nat, NEW f, NEW g, \A i \in 1 .. n + 1 : f[i] \in Nat,
           \A i \in 1 .. n : g[i] = f[i + 1]
    PROVE  SumFunctionOnSet(f, 1 .. n + 1) = f[1] + SumFunctionOnSet(g, 1 .. n)
  <1> DEFINE F(k) == SumFunctionOnSet(f, 1 .. k)
             G(k) == SumFunctionOnSet(g, 1 .. k)
             T == {k \in Nat : k <= n => F(k + 1) = f[1] + G(k) /\ G(k) \in Nat}
  <1>1. F(0) = 0 /\ G(0) = 0
    <2>1. 1 .. 0 = {}
      OBVIOUS
    <2> QED BY <2>1, SumEmpty
  <1>2. ASSUME NEW k \in Nat, k <= n PROVE F(k + 1) = F(k) + f[k + 1]
    <2>1. \A i \in 1 .. k + 1 : f[i] \in Nat
      BY <1>2
    <2> QED BY <2>1, SumUpTo
  <1>3. ASSUME NEW k \in Nat, k + 1 <= n PROVE G(k + 1) = G(k) + g[k + 1]
    <2>1. \A i \in 1 .. k + 1 : g[i] \in Nat
      <3>1. ASSUME NEW i \in 1 .. k + 1 PROVE i \in 1 .. n /\ i + 1 \in 1 .. n + 1
        BY <1>3
      <3> QED BY <3>1
    <2> QED BY <2>1, SumUpTo
  <1> HIDE DEF F, G
  <1>4. 0 \in T
    <2>1. 0 <= n /\ 1 \in 1 .. n + 1 /\ 0 + 1 = 1
      OBVIOUS
    <2>2. F(0 + 1) = F(0) + f[0 + 1]
      BY <1>2, <2>1
    <2> QED BY <1>1, <2>1, <2>2
  <1>5. ASSUME NEW k \in Nat, k \in T PROVE k + 1 \in T
    <2> SUFFICES ASSUME k + 1 <= n PROVE F((k + 1) + 1) = f[1] + G(k + 1) /\ G(k + 1) \in Nat
      OBVIOUS
    <2>1. F(k + 1) = f[1] + G(k) /\ G(k) \in Nat
      BY <1>5
    <2>2. F((k + 1) + 1) = F(k + 1) + f[(k + 1) + 1]
      BY <1>2
    <2>3. G(k + 1) = G(k) + g[k + 1]
      BY <1>3
    <2>4. g[k + 1] = f[(k + 1) + 1] /\ f[(k + 1) + 1] \in Nat /\ f[1] \in Nat
      OBVIOUS
    <2> QED BY <2>1, <2>2, <2>3, <2>4
  <1>6. n \in T
    <2> HIDE DEF T
    <2>1. Nat \subseteq T
      BY <1>4, <1>5, Induction
    <2> QED BY <2>1
  <1> QED BY <1>6 DEF F, G

\* What the elements of a list weigh together.
Weight(w, list) == SumFunction([k \in DOMAIN list |-> w[list[k]]])

\* The weight of a list that has grown.
LEMMA WeightAppend ==
    ASSUME NEW S, NEW w, \A x \in S : w[x] \in Nat, NEW list \in Seq(S), NEW e \in S
    PROVE  Weight(w, Append(list, e)) = Weight(w, list) + w[e]
  <1> DEFINE n == Len(list)
             more == Append(list, e)
             f == [k \in DOMAIN list |-> w[list[k]]]
             g == [k \in DOMAIN more |-> w[more[k]]]
  <1>1. /\ n \in Nat /\ DOMAIN list = 1 .. n /\ DOMAIN more = 1 .. n + 1 /\ more[n + 1] = e
        /\ \A i \in 1 .. n : more[i] = list[i] /\ list[i] \in S
    OBVIOUS
  <1> HIDE DEF n, more
  <1>2. /\ DOMAIN f = 1 .. n /\ DOMAIN g = 1 .. n + 1 /\ g[n + 1] = w[e]
        /\ \A i \in 1 .. n : f[i] \in Nat /\ g[i] = f[i]
    <2>1. \A i \in 1 .. n : i \in 1 .. n + 1
      BY <1>1
    <2>2. n + 1 \in 1 .. n + 1
      BY <1>1
    <2> QED BY <1>1, <2>1, <2>2
  <1>3. /\ Weight(w, list) = SumFunctionOnSet(f, 1 .. n)
        /\ Weight(w, more) = SumFunctionOnSet(g, 1 .. n + 1)
    <2>1. Weight(w, list) = SumFunction(f) /\ Weight(w, more) = SumFunction(g)
      BY Zenon DEF Weight
    <2> HIDE DEF f, g
    <2> QED BY <1>2, <2>1, SumFunctionIs, Zenon
  <1> HIDE DEF f, g
  <1>4. \A i \in 1 .. n + 1 : g[i] \in Nat
    <2>1. \A i \in 1 .. n + 1 : i \in 1 .. n \/ i = n + 1
      BY <1>1
    <2> QED BY <1>2, <2>1
  <1>5. SumFunctionOnSet(g, 1 .. n + 1) = SumFunctionOnSet(g, 1 .. n) + g[n + 1]
    BY <1>1, <1>4, SumUpTo
  <1>6. SumFunctionOnSet(g, 1 .. n) = SumFunctionOnSet(f, 1 .. n)
    <2> DEFINE U == 1 .. n
    <2>1. IsFiniteSet(U) /\ \A i \in U : f[i] \in Nat /\ g[i] = f[i]
      BY <1>1, <1>2, FS_Interval
    <2> HIDE DEF U
    <2>2. SumFunctionOnSet(f, U) = SumFunctionOnSet(g, U)
      BY <2>1, SumSame
    <2> QED BY <2>2 DEF U
  <1> QED BY <1>2, <1>3, <1>5, <1>6 DEF more

\* The weight of a list without its head.
LEMMA WeightTail ==
    ASSUME NEW S, NEW w, \A x \in S : w[x] \in Nat, NEW list \in Seq(S), list # <<>>
    PROVE  /\ Weight(w, list) = w[Head(list)] + Weight(w, Tail(list))
           /\ Weight(w, Tail(list)) \in Nat
  <1> DEFINE n == Len(list) - 1
             rest == Tail(list)
             f == [k \in DOMAIN list |-> w[list[k]]]
             g == [k \in DOMAIN rest |-> w[rest[k]]]
  <1>1. /\ n \in Nat /\ DOMAIN list = 1 .. n + 1 /\ DOMAIN rest = 1 .. n /\ Head(list) = list[1]
        /\ \A i \in 1 .. n : rest[i] = list[i + 1]
        /\ \A i \in 1 .. n + 1 : list[i] \in S
    OBVIOUS
  <1> HIDE DEF n, rest
  <1>2. /\ DOMAIN f = 1 .. n + 1 /\ DOMAIN g = 1 .. n
        /\ \A i \in 1 .. n + 1 : f[i] = w[list[i]] /\ f[i] \in Nat
        /\ \A i \in 1 .. n : g[i] = w[list[i + 1]]
    BY <1>1
  <1>3. \A i \in 1 .. n : i + 1 \in 1 .. n + 1 /\ g[i] = f[i + 1] /\ g[i] \in Nat
    BY <1>1, <1>2
  <1>4. /\ Weight(w, list) = SumFunctionOnSet(f, 1 .. n + 1)
        /\ Weight(w, rest) = SumFunctionOnSet(g, 1 .. n)
    <2>1. Weight(w, list) = SumFunction(f) /\ Weight(w, rest) = SumFunction(g)
      BY Zenon DEF Weight
    <2> HIDE DEF f, g
    <2> QED BY <1>2, <2>1, SumFunctionIs, Zenon
  <1> HIDE DEF f, g
  <1>5. SumFunctionOnSet(f, 1 .. n + 1) = f[1] + SumFunctionOnSet(g, 1 .. n)
    BY <1>1, <1>2, <1>3, SumShift
  <1>6. SumFunctionOnSet(g, 1 .. n) \in Nat
    <2> DEFINE U == 1 .. n
    <2>1. IsFiniteSet(U) /\ \A i \in U : g[i] \in Nat
      BY <1>1, <1>3, FS_Interval
    <2> HIDE DEF U
    <2>2. SumFunctionOnSet(g, U) \in Nat
      BY <2>1, SumIsNat
    <2> QED BY <2>2 DEF U
  <1>7. f[1] = w[Head(list)]
    BY <1>1, <1>2
  <1> QED BY <1>4, <1>5, <1>6, <1>7 DEF rest

\* No element, no weight.
LEMMA WeightEmpty == ASSUME NEW w PROVE Weight(w, <<>>) = 0
  <1> DEFINE list == <<>>
             f == [k \in DOMAIN list |-> w[list[k]]]
  <1>1. DOMAIN f = {}
    OBVIOUS
  <1>2. Weight(w, list) = SumFunction(f)
    BY Zenon DEF Weight
  <1> HIDE DEF f
  <1> QED BY <1>1, <1>2, SumFunctionIs, SumEmpty
===============================================================================
