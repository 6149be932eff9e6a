------------------------------ MODULE SumLemmas ------------------------------
(***************************************************************************)
(* Sums of functions with integer values over finite sets: what the sums   *)
(* of amounts in SQL and in Go loops come to when rows are added, changed  *)
(* or split.                                                               *)
(*                                                                         *)
(* The community modules define a sum by a recursive function on subsets.  *)
(* The provers cannot instantiate the library's induction theorems, so its *)
(* equation is proved from a least counterexample: first that the function *)
(* exists, by the size of the subsets, and then that the functions of two  *)
(* sets agree on what they share.                                          *)
(***************************************************************************)
EXTENDS Integers, Functions, FiniteSets, FiniteSetTheorems, WellFoundedInduction, TLAPS

First(s) == CHOOSE x \in s : TRUE

SumsOn(g, f, D) ==
  g = [s \in D |-> IF s = {} THEN 0 ELSE f[First(s)] + g[s \ {First(s)}]]

Small(S, n) == {s \in SUBSET S : Cardinality(s) <= n}

SumsAll(g, f, S) == SumsOn(g, f, SUBSET S)

LEMMA SumIsChosen ==
  ASSUME NEW f, NEW S
  PROVE  SumFunctionOnSet(f, S) = (CHOOSE g : SumsAll(g, f, S))[S]
BY DEF SumFunctionOnSet, FoldFunctionOnSet, MapThenFoldSet, SumsAll, SumsOn, First

(* A set of numbers with 0 that is closed under successor is Nat.          *)
LEMMA NatInductive ==
  ASSUME NEW G, 0 \in G, \A n \in Nat : n \in G => n + 1 \in G
  PROVE  \A n \in Nat : n \in G
<1> DEFINE R   == {nn \in Nat \X Nat : nn[1] < nn[2]}
           Bad == Nat \ G
<1> SUFFICES ASSUME Bad # {} PROVE FALSE
  OBVIOUS
<1>1. PICK x \in Bad : \A y \in Bad : ~(<<y, x>> \in R)
  <2>1. IsWellFoundedOn(R, Nat) /\ Bad \subseteq Nat
    BY NatLessThanWellFounded DEF OpToRel
  <2> HIDE DEF R, Bad
  <2> QED BY <2>1, WFMin
<1>2. x \in Nat /\ x # 0
  OBVIOUS
<1>3. x - 1 \in Bad
  OBVIOUS
<1>4. <<x - 1, x>> \in R
  BY <1>2
<1> QED BY <1>1, <1>3, <1>4

LEMMA FirstIn == ASSUME NEW s, s # {} PROVE First(s) \in s
BY DEF First

LEMMA SmallRest ==
  ASSUME NEW S, IsFiniteSet(S), NEW n \in Nat, NEW s \in Small(S, n + 1), s # {}
  PROVE  s \ {First(s)} \in Small(S, n)
<1>1. IsFiniteSet(s)
  BY FS_Subset DEF Small
<1>2. Cardinality(s \ {First(s)}) = Cardinality(s) - 1 /\ Cardinality(s) \in Nat
  BY <1>1, FirstIn, FS_RemoveElement, FS_CardinalityType
<1> QED BY <1>2 DEF Small

LEMMA SumsExtend ==
  ASSUME NEW S, IsFiniteSet(S), NEW f, NEW n \in Nat, \E g : SumsOn(g, f, Small(S, n))
  PROVE  \E g : SumsOn(g, f, Small(S, n + 1))
<1>1. PICK g : SumsOn(g, f, Small(S, n))
  OBVIOUS
<1> DEFINE h == [s \in Small(S, n + 1) |->
                   IF s = {} THEN 0 ELSE f[First(s)] + g[s \ {First(s)}]]
<1>2. ASSUME NEW s \in Small(S, n) PROVE s \in Small(S, n + 1) /\ h[s] = g[s]
  <2>1. s \in Small(S, n + 1)
    BY FS_Subset, FS_CardinalityType DEF Small
  <2> QED BY <1>1, <2>1 DEF SumsAll, SumsOn
<1>3. SumsOn(h, f, Small(S, n + 1))
  <2>1. \A s \in Small(S, n + 1) : s # {} => h[s \ {First(s)}] = g[s \ {First(s)}]
    BY <1>2, SmallRest
  <2> HIDE DEF Small
  <2> QED BY <2>1 DEF SumsAll, SumsOn
<1> QED BY <1>3

LEMMA SumsExist ==
  ASSUME NEW S, IsFiniteSet(S), NEW f
  PROVE  \E g : SumsAll(g, f, S)
<1> DEFINE G == {n \in Nat : \E g : SumsOn(g, f, Small(S, n))}
<1>1. 0 \in G
  <2>1. \A s \in Small(S, 0) : s = {}
    <3>1. \A s \in Small(S, 0) : IsFiniteSet(s) /\ Cardinality(s) <= 0
      BY FS_Subset DEF Small
    <3> QED BY <3>1, FS_EmptySet, FS_CardinalityType
  <2>2. SumsOn([s \in Small(S, 0) |-> 0], f, Small(S, 0))
    <3> HIDE DEF Small
    <3> QED BY <2>1 DEF SumsAll, SumsOn
  <2> QED BY <2>2
<1>2. \A n \in Nat : n \in G => n + 1 \in G
  BY SumsExtend
<1>3. Cardinality(S) \in G
  <2> HIDE DEF G
  <2> QED BY <1>1, <1>2, NatInductive, FS_CardinalityType
<1>4. Small(S, Cardinality(S)) = SUBSET S
  BY FS_Subset DEF Small
<1> QED BY <1>3, <1>4 DEF SumsAll

(* Sums on two domains agree where both are closed.                        *)
LEMMA SumsAgree ==
  ASSUME NEW f, NEW S, IsFiniteSet(S), NEW T, T \subseteq S,
         NEW g, SumsAll(g, f, S), NEW h, SumsAll(h, f, T)
  PROVE  g[T] = h[T]
<1> DEFINE G == {n \in Nat : \A s \in SUBSET T : Cardinality(s) = n => g[s] = h[s]}
<1>1. 0 \in G
  <2>1. \A s \in SUBSET T : Cardinality(s) = 0 => s = {}
    BY FS_Subset, FS_EmptySet
  <2>2. g[{}] = 0 /\ h[{}] = 0
    BY DEF SumsAll, SumsOn
  <2> QED BY <2>1, <2>2
<1>2. ASSUME NEW n \in Nat, n \in G PROVE n + 1 \in G
  <2>1. ASSUME NEW s \in SUBSET T, Cardinality(s) = n + 1 PROVE g[s] = h[s]
    <3> DEFINE r == s \ {First(s)}
    <3>1. IsFiniteSet(s) /\ s # {}
      BY <2>1, FS_Subset, FS_EmptySet
    <3>2. r \in SUBSET T /\ Cardinality(r) = n
      <4>1. Cardinality(r) = Cardinality(s) - 1
        BY <3>1, FirstIn, FS_RemoveElement
      <4> QED BY <2>1, <4>1
    <3>3. g[r] = h[r]
      BY <1>2, <3>2
    <3> QED BY <3>1, <3>3 DEF SumsAll, SumsOn
  <2> QED BY <2>1
<1>3. IsFiniteSet(T) /\ Cardinality(T) \in Nat
  BY FS_Subset, FS_CardinalityType
<1>4. Cardinality(T) \in G
  <2> HIDE DEF G
  <2> QED BY <1>1, <1>2, <1>3, NatInductive
<1> QED BY <1>4

LEMMA SumEmpty ==
  ASSUME NEW f
  PROVE  SumFunctionOnSet(f, {}) = 0
<1> DEFINE g == CHOOSE h : SumsAll(h, f, {})
<1>1. \E h : SumsAll(h, f, {})
  BY SumsExist, FS_EmptySet
<1>2. SumsAll(g, f, {})
  BY <1>1
<1>3. SumFunctionOnSet(f, {}) = g[{}]
  BY SumIsChosen
<1> HIDE DEF g
<1> QED BY <1>2, <1>3 DEF SumsAll, SumsOn

(* The equation of a sum.                                                  *)
LEMMA SumStep ==
  ASSUME NEW f, NEW S, IsFiniteSet(S), S # {}
  PROVE  SumFunctionOnSet(f, S) = f[First(S)] + SumFunctionOnSet(f, S \ {First(S)})
<1> DEFINE T == S \ {First(S)}
           g == CHOOSE k : SumsAll(k, f, S)
           h == CHOOSE k : SumsAll(k, f, T)
<1>1. IsFiniteSet(T)
  BY FS_Subset
<1>2. SumsAll(g, f, S) /\ SumsAll(h, f, T)
  <2>1. (\E k : SumsAll(k, f, S)) /\ \E k : SumsAll(k, f, T)
    <3> HIDE DEF T
    <3> QED BY <1>1, SumsExist
  <2> QED BY <2>1
<1>3. SumFunctionOnSet(f, S) = g[S] /\ SumFunctionOnSet(f, T) = h[T]
  BY SumIsChosen
<1> HIDE DEF g, h
<1>4. g[T] = h[T]
  <2>1. T \subseteq S
    OBVIOUS
  <2> HIDE DEF T
  <2> QED BY <1>2, <2>1, SumsAgree
<1>5. g[S] = f[First(S)] + g[T]
  BY <1>2 DEF SumsAll, SumsOn
<1> QED BY <1>3, <1>4, <1>5

-----------------------------------------------------------------------------
(* A family of sets that holds {} and, with T, every T \cup {x} holds S.   *)
LEMMA SubsetInduction ==
  ASSUME NEW S, IsFiniteSet(S), NEW G, {} \in G,
         \A T \in SUBSET S : \A x \in S \ T : T \in G => T \cup {x} \in G
  PROVE  S \in G
<1> DEFINE N == {n \in Nat : \A T \in SUBSET S : Cardinality(T) = n => T \in G}
<1>1. 0 \in N
  BY FS_Subset, FS_EmptySet
<1>2. ASSUME NEW n \in Nat, n \in N PROVE n + 1 \in N
  <2>1. ASSUME NEW T \in SUBSET S, Cardinality(T) = n + 1 PROVE T \in G
    <3>1. IsFiniteSet(T) /\ T # {}
      BY <2>1, FS_Subset, FS_EmptySet
    <3>2. PICK x \in T : TRUE
      BY <3>1
    <3>3. Cardinality(T \ {x}) = Cardinality(T) - 1
      BY <3>1, <3>2, FS_RemoveElement
    <3>4. T \ {x} \in G
      BY <1>2, <2>1, <3>3
    <3>5. (T \ {x}) \cup {x} = T
      BY <3>2
    <3> QED BY <3>2, <3>4, <3>5
  <2> QED BY <2>1
<1>3. Cardinality(S) \in N
  <2>1. Cardinality(S) \in Nat
    BY FS_CardinalityType
  <2> HIDE DEF N
  <2> QED BY <1>1, <1>2, <2>1, NatInductive
<1> QED BY <1>3

IntOn(f, S) == \A x \in S : f[x] \in Int
NatOn(f, S) == \A x \in S : f[x] \in Nat

LEMMA SumInt ==
  ASSUME NEW f, NEW S, IsFiniteSet(S), IntOn(f, S)
  PROVE  SumFunctionOnSet(f, S) \in Int
<1> DEFINE N == {n \in Nat : \A T \in SUBSET S : Cardinality(T) = n => SumFunctionOnSet(f, T) \in Int}
<1>1. 0 \in N
  <2>1. \A T \in SUBSET S : Cardinality(T) = 0 => T = {}
    BY FS_Subset, FS_EmptySet
  <2> QED BY <2>1, SumEmpty
<1>2. ASSUME NEW n \in Nat, n \in N PROVE n + 1 \in N
  <2>1. ASSUME NEW T \in SUBSET S, Cardinality(T) = n + 1 PROVE SumFunctionOnSet(f, T) \in Int
    <3>1. IsFiniteSet(T) /\ T # {}
      BY <2>1, FS_Subset, FS_EmptySet
    <3>2. First(T) \in T
      BY <3>1, FirstIn
    <3>3. Cardinality(T \ {First(T)}) = Cardinality(T) - 1
      BY <3>1, <3>2, FS_RemoveElement
    <3>4. SumFunctionOnSet(f, T \ {First(T)}) \in Int
      BY <1>2, <2>1, <3>3
    <3> QED BY <3>1, <3>2, <3>4, SumStep DEF IntOn
  <2> QED BY <2>1
<1>3. Cardinality(S) \in N
  <2>1. Cardinality(S) \in Nat
    BY FS_CardinalityType
  <2> HIDE DEF N
  <2> QED BY <1>1, <1>2, <2>1, NatInductive
<1> QED BY <1>3

(* The order of the terms does not matter: any of them may come first.     *)
LEMMA SumTake ==
  ASSUME NEW f, NEW S, IsFiniteSet(S), IntOn(f, S), NEW x \in S
  PROVE  SumFunctionOnSet(f, S) = f[x] + SumFunctionOnSet(f, S \ {x})
<1> DEFINE N == {n \in Nat : \A T \in SUBSET S : \A y \in T :
                   Cardinality(T) = n =>
                     SumFunctionOnSet(f, T) = f[y] + SumFunctionOnSet(f, T \ {y})}
<1>1. 0 \in N
  <2>1. \A T \in SUBSET S : Cardinality(T) = 0 => T = {}
    BY FS_Subset, FS_EmptySet
  <2> QED BY <2>1
<1>2. ASSUME NEW n \in Nat, n \in N PROVE n + 1 \in N
  <2>1. ASSUME NEW T \in SUBSET S, NEW y \in T, Cardinality(T) = n + 1
        PROVE  SumFunctionOnSet(f, T) = f[y] + SumFunctionOnSet(f, T \ {y})
    <3> DEFINE z == First(T)
    <3>1. IsFiniteSet(T) /\ T # {}
      BY FS_Subset
    <3>2. z \in T /\ f[z] \in Int /\ f[y] \in Int
      BY <3>1, FirstIn DEF IntOn
    <3>3. SumFunctionOnSet(f, T) = f[z] + SumFunctionOnSet(f, T \ {z})
      BY <3>1, SumStep
    <3> HIDE DEF z
    <3>4. CASE y = z
      BY <3>3, <3>4
    <3>5. CASE y # z
      <4> DEFINE U == (T \ {z}) \ {y}
      <4>1. Cardinality(T \ {z}) = n /\ Cardinality(T \ {y}) = n
        <5>1. Cardinality(T \ {z}) = Cardinality(T) - 1
          BY <3>1, <3>2, FS_RemoveElement
        <5>2. Cardinality(T \ {y}) = Cardinality(T) - 1
          BY <3>1, FS_RemoveElement
        <5> QED BY <2>1, <5>1, <5>2
      <4>2. /\ y \in T \ {z} /\ T \ {z} \in SUBSET S
            /\ z \in T \ {y} /\ T \ {y} \in SUBSET S /\ (T \ {y}) \ {z} = U
        BY <3>2, <3>5
      <4>3. SumFunctionOnSet(f, T \ {z}) = f[y] + SumFunctionOnSet(f, U)
        BY <1>2, <4>1, <4>2
      <4>4. SumFunctionOnSet(f, T \ {y}) = f[z] + SumFunctionOnSet(f, U)
        BY <1>2, <4>1, <4>2
      <4>5. SumFunctionOnSet(f, U) \in Int
        <5>1. IsFiniteSet(U) /\ IntOn(f, U)
          BY <3>1, FS_Subset DEF IntOn
        <5> HIDE DEF U
        <5> QED BY <5>1, SumInt
      <4> QED BY <3>2, <3>3, <4>3, <4>4, <4>5
    <3> QED BY <3>4, <3>5
  <2> QED BY <2>1
<1>3. Cardinality(S) \in N
  <2>1. Cardinality(S) \in Nat
    BY FS_CardinalityType
  <2> HIDE DEF N
  <2> QED BY <1>1, <1>2, <2>1, NatInductive
<1> QED BY <1>3

LEMMA SumAdd ==
  ASSUME NEW f, NEW S, IsFiniteSet(S), IntOn(f, S), NEW x, x \notin S, f[x] \in Int
  PROVE  SumFunctionOnSet(f, S \cup {x}) = f[x] + SumFunctionOnSet(f, S)
<1> DEFINE T == S \cup {x}
<1>1. IsFiniteSet(T) /\ IntOn(f, T) /\ x \in T /\ T \ {x} = S
  BY FS_AddElement DEF IntOn
<1> HIDE DEF T
<1>2. SumFunctionOnSet(f, T) = f[x] + SumFunctionOnSet(f, T \ {x})
  BY <1>1, SumTake
<1> QED BY <1>1, <1>2 DEF T

(* Only the terms of the set count.                                        *)
LEMMA SumSame ==
  ASSUME NEW S, IsFiniteSet(S), NEW f, NEW g, IntOn(f, S), \A x \in S : f[x] = g[x]
  PROVE  SumFunctionOnSet(f, S) = SumFunctionOnSet(g, S)
<1> DEFINE G == {T \in SUBSET S : SumFunctionOnSet(f, T) = SumFunctionOnSet(g, T)}
<1>1. {} \in G
  BY SumEmpty
<1>2. ASSUME NEW T \in SUBSET S, NEW x \in S \ T, T \in G PROVE T \cup {x} \in G
  <2>1. IsFiniteSet(T) /\ IntOn(f, T) /\ IntOn(g, T) /\ f[x] \in Int /\ f[x] = g[x]
    BY FS_Subset DEF IntOn
  <2>2. /\ SumFunctionOnSet(f, T \cup {x}) = f[x] + SumFunctionOnSet(f, T)
        /\ SumFunctionOnSet(g, T \cup {x}) = g[x] + SumFunctionOnSet(g, T)
    BY <2>1, SumAdd
  <2> QED BY <1>2, <2>1, <2>2
<1>3. S \in G
  <2> HIDE DEF G
  <2> QED BY <1>1, <1>2, SubsetInduction
<1> QED BY <1>3

LEMMA SumNat ==
  ASSUME NEW f, NEW S, IsFiniteSet(S), NatOn(f, S)
  PROVE  SumFunctionOnSet(f, S) \in Nat
<1> DEFINE G == {T \in SUBSET S : SumFunctionOnSet(f, T) \in Nat}
<1>1. {} \in G
  BY SumEmpty
<1>2. ASSUME NEW T \in SUBSET S, NEW x \in S \ T, T \in G PROVE T \cup {x} \in G
  <2>1. IsFiniteSet(T) /\ IntOn(f, T) /\ f[x] \in Nat
    BY FS_Subset DEF IntOn, NatOn
  <2>2. SumFunctionOnSet(f, T \cup {x}) = f[x] + SumFunctionOnSet(f, T)
    BY <2>1, SumAdd
  <2> QED BY <1>2, <2>1, <2>2
<1>3. S \in G
  <2> HIDE DEF G
  <2> QED BY <1>1, <1>2, SubsetInduction
<1> QED BY <1>3

(* No term of a sum of naturals is larger than the sum.                    *)
LEMMA SumCovers ==
  ASSUME NEW f, NEW S, IsFiniteSet(S), NatOn(f, S), NEW x \in S
  PROVE  f[x] <= SumFunctionOnSet(f, S)
<1>1. IsFiniteSet(S \ {x}) /\ NatOn(f, S \ {x}) /\ IntOn(f, S)
  BY FS_Subset DEF IntOn, NatOn
<1>2. SumFunctionOnSet(f, S) = f[x] + SumFunctionOnSet(f, S \ {x})
  BY <1>1, SumTake
<1>3. SumFunctionOnSet(f, S \ {x}) \in Nat /\ f[x] \in Nat
  BY <1>1, SumNat DEF NatOn
<1> QED BY <1>2, <1>3

(* A sum in which one term changes.                                        *)
LEMMA SumChange ==
  ASSUME NEW S, IsFiniteSet(S), NEW f, NEW g, IntOn(f, S), IntOn(g, S),
         NEW x \in S, \A y \in S \ {x} : g[y] = f[y]
  PROVE  SumFunctionOnSet(g, S) = SumFunctionOnSet(f, S) - f[x] + g[x]
<1> DEFINE T == S \ {x}
<1>1. IsFiniteSet(T) /\ IntOn(f, T) /\ IntOn(g, T) /\ f[x] \in Int /\ g[x] \in Int
  BY FS_Subset DEF IntOn
<1>2. /\ SumFunctionOnSet(f, S) = f[x] + SumFunctionOnSet(f, T)
      /\ SumFunctionOnSet(g, S) = g[x] + SumFunctionOnSet(g, T)
  BY SumTake
<1>3. SumFunctionOnSet(f, T) = SumFunctionOnSet(g, T) /\ SumFunctionOnSet(f, T) \in Int
  <2>1. \A y \in T : f[y] = g[y]
    OBVIOUS
  <2> HIDE DEF T
  <2> QED BY <1>1, <2>1, SumSame, SumInt
<1> QED BY <1>1, <1>2, <1>3

LEMMA SumUnion ==
  ASSUME NEW f, NEW S, IsFiniteSet(S), NEW U, IsFiniteSet(U), S \cap U = {},
         IntOn(f, S), IntOn(f, U), NEW V, V = S \cup U
  PROVE  SumFunctionOnSet(f, V) = SumFunctionOnSet(f, S) + SumFunctionOnSet(f, U)
<1> DEFINE G == {T \in SUBSET S :
                   SumFunctionOnSet(f, T \cup U) = SumFunctionOnSet(f, T) + SumFunctionOnSet(f, U)}
<1>0. SumFunctionOnSet(f, U) \in Int
  BY SumInt
<1>1. {} \in G
  <2>1. {} \cup U = U
    OBVIOUS
  <2> QED BY <1>0, <2>1, SumEmpty
<1>2. ASSUME NEW T \in SUBSET S, NEW x \in S \ T, T \in G PROVE T \cup {x} \in G
  <2>1. IsFiniteSet(T) /\ IntOn(f, T) /\ f[x] \in Int
    BY FS_Subset DEF IntOn
  <2>2. IsFiniteSet(T \cup U) /\ IntOn(f, T \cup U) /\ x \notin T \cup U
    BY <2>1, FS_Union DEF IntOn
  <2>3. SumFunctionOnSet(f, T \cup {x}) = f[x] + SumFunctionOnSet(f, T)
    BY <2>1, SumAdd
  <2>4. SumFunctionOnSet(f, (T \cup U) \cup {x}) = f[x] + SumFunctionOnSet(f, T \cup U)
    BY <2>1, <2>2, SumAdd
  <2>5. SumFunctionOnSet(f, T) \in Int
    BY <2>1, SumInt
  <2>6. SumFunctionOnSet(f, T \cup U) = SumFunctionOnSet(f, T) + SumFunctionOnSet(f, U)
    BY <1>2
  <2>7. SumFunctionOnSet(f, (T \cup U) \cup {x})
          = SumFunctionOnSet(f, T \cup {x}) + SumFunctionOnSet(f, U)
    BY <1>0, <2>1, <2>3, <2>4, <2>5, <2>6
  <2>8. (T \cup U) \cup {x} = (T \cup {x}) \cup U
    OBVIOUS
  <2> QED BY <2>7, <2>8, Zenon
<1>3. S \in G
  <2> HIDE DEF G
  <2> QED BY <1>1, <1>2, SubsetInduction
<1> QED BY <1>3

LEMMA SumPlus ==
  ASSUME NEW S, IsFiniteSet(S), NEW f, NEW g, NEW h, IntOn(f, S), IntOn(g, S),
         \A x \in S : h[x] = f[x] + g[x]
  PROVE  SumFunctionOnSet(h, S) = SumFunctionOnSet(f, S) + SumFunctionOnSet(g, S)
<1> DEFINE G == {T \in SUBSET S :
                   SumFunctionOnSet(h, T) = SumFunctionOnSet(f, T) + SumFunctionOnSet(g, T)}
<1>1. {} \in G
  BY SumEmpty
<1>2. ASSUME NEW T \in SUBSET S, NEW x \in S \ T, T \in G PROVE T \cup {x} \in G
  <2>1. /\ IsFiniteSet(T) /\ IntOn(f, T) /\ IntOn(g, T) /\ IntOn(h, T)
        /\ f[x] \in Int /\ g[x] \in Int /\ h[x] = f[x] + g[x]
    BY FS_Subset DEF IntOn
  <2>2. /\ SumFunctionOnSet(f, T \cup {x}) = f[x] + SumFunctionOnSet(f, T)
        /\ SumFunctionOnSet(g, T \cup {x}) = g[x] + SumFunctionOnSet(g, T)
        /\ SumFunctionOnSet(h, T \cup {x}) = h[x] + SumFunctionOnSet(h, T)
    BY <2>1, SumAdd
  <2>3. SumFunctionOnSet(f, T) \in Int /\ SumFunctionOnSet(g, T) \in Int
    BY <2>1, SumInt
  <2>4. SumFunctionOnSet(h, T) = SumFunctionOnSet(f, T) + SumFunctionOnSet(g, T)
    BY <1>2
  <2>5. SumFunctionOnSet(h, T \cup {x})
          = SumFunctionOnSet(f, T \cup {x}) + SumFunctionOnSet(g, T \cup {x})
    BY <2>1, <2>2, <2>3, <2>4
  <2> QED BY <2>5
<1>3. S \in G
  <2> HIDE DEF G
  <2> QED BY <1>1, <1>2, SubsetInduction
<1> QED BY <1>3

LEMMA SumMonotone ==
  ASSUME NEW S, IsFiniteSet(S), NEW f, NEW g, IntOn(f, S), IntOn(g, S),
         \A x \in S : f[x] <= g[x]
  PROVE  SumFunctionOnSet(f, S) <= SumFunctionOnSet(g, S)
<1> DEFINE G == {T \in SUBSET S : SumFunctionOnSet(f, T) <= SumFunctionOnSet(g, T)}
<1>1. {} \in G
  BY SumEmpty
<1>2. ASSUME NEW T \in SUBSET S, NEW x \in S \ T, T \in G PROVE T \cup {x} \in G
  <2>1. /\ IsFiniteSet(T) /\ IntOn(f, T) /\ IntOn(g, T)
        /\ f[x] \in Int /\ g[x] \in Int /\ f[x] <= g[x]
    BY FS_Subset DEF IntOn
  <2>2. /\ SumFunctionOnSet(f, T \cup {x}) = f[x] + SumFunctionOnSet(f, T)
        /\ SumFunctionOnSet(g, T \cup {x}) = g[x] + SumFunctionOnSet(g, T)
    BY <2>1, SumAdd
  <2>3. SumFunctionOnSet(f, T) \in Int /\ SumFunctionOnSet(g, T) \in Int
    BY <2>1, SumInt
  <2> QED BY <1>2, <2>1, <2>2, <2>3
<1>3. S \in G
  <2> HIDE DEF G
  <2> QED BY <1>1, <1>2, SubsetInduction
<1> QED BY <1>3

LEMMA SumZero ==
  ASSUME NEW f, NEW S, IsFiniteSet(S), \A x \in S : f[x] = 0
  PROVE  SumFunctionOnSet(f, S) = 0
<1> DEFINE G == {T \in SUBSET S : SumFunctionOnSet(f, T) = 0}
<1>1. {} \in G
  BY SumEmpty
<1>2. ASSUME NEW T \in SUBSET S, NEW x \in S \ T, T \in G PROVE T \cup {x} \in G
  <2>1. IsFiniteSet(T) /\ IntOn(f, T) /\ f[x] = 0
    BY FS_Subset DEF IntOn
  <2>2. SumFunctionOnSet(f, T \cup {x}) = f[x] + SumFunctionOnSet(f, T)
    BY <2>1, SumAdd
  <2> QED BY <1>2, <2>1, <2>2
<1>3. S \in G
  <2> HIDE DEF G
  <2> QED BY <1>1, <1>2, SubsetInduction
<1> QED BY <1>3

(* Terms that are zero may be left out.                                    *)
LEMMA SumSupport ==
  ASSUME NEW f, NEW S, IsFiniteSet(S), NEW T \in SUBSET S, IntOn(f, T),
         \A x \in S \ T : f[x] = 0
  PROVE  SumFunctionOnSet(f, S) = SumFunctionOnSet(f, T)
<1> DEFINE U == S \ T
<1>1. IsFiniteSet(T) /\ IsFiniteSet(U) /\ IntOn(f, U) /\ T \cap U = {} /\ T \cup U = S
  BY FS_Subset DEF IntOn
<1> HIDE DEF U
<1>2. SumFunctionOnSet(f, U) = 0 /\ SumFunctionOnSet(f, T) \in Int
  BY <1>1, SumZero, SumInt DEF U
<1>3. SumFunctionOnSet(f, S) = SumFunctionOnSet(f, T) + SumFunctionOnSet(f, U)
  BY <1>1, SumUnion
<1> QED BY <1>2, <1>3

(* The same terms under other names.                                       *)
LEMMA SumRenamed ==
  ASSUME NEW S, IsFiniteSet(S), NEW U, NEW b \in Bijection(S, U),
         NEW f, NEW g, IntOn(f, S), \A x \in S : g[b[x]] = f[x]
  PROVE  SumFunctionOnSet(g, U) = SumFunctionOnSet(f, S)
<1> DEFINE Image(T) == {b[x] : x \in T}
           G == {T \in SUBSET S : /\ IsFiniteSet(Image(T))
                                  /\ SumFunctionOnSet(g, Image(T)) = SumFunctionOnSet(f, T)}
<1>0. /\ b \in [S -> U] /\ \A x, y \in S : b[x] = b[y] => x = y
      /\ \A u \in U : \E x \in S : b[x] = u
  BY DEF Bijection, Injection, Surjection, IsInjective
<1>1. {} \in G
  <2>1. Image({}) = {}
    OBVIOUS
  <2> QED BY <2>1, SumEmpty, FS_EmptySet
<1>2. ASSUME NEW T \in SUBSET S, NEW x \in S \ T, T \in G PROVE T \cup {x} \in G
  <2>1. /\ IsFiniteSet(T) /\ IntOn(f, T) /\ f[x] \in Int /\ g[b[x]] = f[x]
        /\ IntOn(g, Image(T)) /\ b[x] \notin Image(T)
        /\ Image(T \cup {x}) = Image(T) \cup {b[x]}
    BY <1>0, FS_Subset DEF IntOn
  <2>2. SumFunctionOnSet(f, T \cup {x}) = f[x] + SumFunctionOnSet(f, T)
    BY <2>1, SumAdd
  <2>3. IsFiniteSet(Image(T) \cup {b[x]})
    BY <1>2, FS_AddElement
  <2>4. SumFunctionOnSet(g, Image(T) \cup {b[x]}) = g[b[x]] + SumFunctionOnSet(g, Image(T))
    <3> DEFINE I == Image(T)
    <3>1. IsFiniteSet(I) /\ IntOn(g, I) /\ b[x] \notin I /\ g[b[x]] \in Int
      BY <1>2, <2>1
    <3> HIDE DEF I
    <3>2. SumFunctionOnSet(g, I \cup {b[x]}) = g[b[x]] + SumFunctionOnSet(g, I)
      BY <3>1, SumAdd
    <3> QED BY <3>2 DEF I
  <2> QED BY <1>2, <2>1, <2>2, <2>3, <2>4
<1>3. S \in G
  <2> HIDE DEF G
  <2> QED BY <1>1, <1>2, SubsetInduction
<1>4. Image(S) = U
  BY <1>0
<1> QED BY <1>3, <1>4

-----------------------------------------------------------------------------
LEMMA SumFunctionIs ==
  ASSUME NEW f, NEW S, DOMAIN f = S
  PROVE  SumFunction(f) = SumFunctionOnSet(f, S)
BY DEF SumFunction, SumFunctionOnSet, FoldFunction

(* The sum of one sequence after another.                                  *)
LEMMA SumConcat ==
  ASSUME NEW m \in Nat, NEW n \in Nat, NEW f, NEW g, NEW h,
         IntOn(f, 1..m), IntOn(g, 1..n),
         \A k \in 1..m : h[k] = f[k],
         \A k \in 1..n : h[m + k] = g[k]
  PROVE  SumFunctionOnSet(h, 1..(m + n))
           = SumFunctionOnSet(f, 1..m) + SumFunctionOnSet(g, 1..n)
<1> DEFINE S == 1..m
           R == 1..n
           U == (m + 1)..(m + n)
           V == 1..(m + n)
           b == [k \in R |-> m + k]
<1>1. IsFiniteSet(S) /\ IsFiniteSet(R) /\ IsFiniteSet(U)
  BY FS_Interval
<1>2. IntOn(h, S) /\ IntOn(h, U) /\ V = S \cup U /\ S \cap U = {}
  <2>1. ASSUME NEW k \in U PROVE h[k] \in Int
    <3>1. k - m \in R /\ k = m + (k - m)
      OBVIOUS
    <3> QED BY <3>1 DEF IntOn
  <2> QED BY <2>1 DEF IntOn
<1>3. b \in Bijection(R, U)
  <2>1. b \in [R -> U] /\ \A x, y \in R : b[x] = b[y] => x = y
    OBVIOUS
  <2>2. ASSUME NEW u \in U PROVE \E x \in R : b[x] = u
    <3>1. u - m \in R /\ b[u - m] = u
      OBVIOUS
    <3> QED BY <3>1
  <2> QED BY <2>1, <2>2 DEF Bijection, Injection, Surjection, IsInjective
<1>4. \A x \in R : h[b[x]] = g[x]
  OBVIOUS
<1> HIDE DEF S, R, U, V, b
<1>5. SumFunctionOnSet(h, U) = SumFunctionOnSet(g, R)
  <2>1. IntOn(g, R)
    BY DEF R
  <2> QED BY <1>1, <1>3, <1>4, <2>1, SumRenamed
<1>6. SumFunctionOnSet(h, S) = SumFunctionOnSet(f, S)
  <2>1. \A k \in S : h[k] = f[k]
    BY DEF S
  <2> QED BY <1>1, <1>2, <2>1, SumSame
<1>7. SumFunctionOnSet(h, V) = SumFunctionOnSet(h, S) + SumFunctionOnSet(h, U)
  BY <1>1, <1>2, SumUnion
<1> QED BY <1>5, <1>6, <1>7 DEF S, R, V

(* Rows grouped by a key, and the groups' sums added up.                   *)
Group(a, R, k) == {r \in R : a[r] = k}
GroupSums(f, a, R, K) == [k \in K |-> SumFunctionOnSet(f, Group(a, R, k))]

LEMMA SumGroups ==
  ASSUME NEW R, IsFiniteSet(R), NEW K, IsFiniteSet(K), NEW f, IntOn(f, R),
         NEW a, \A r \in R : a[r] \in K
  PROVE  SumFunctionOnSet(GroupSums(f, a, R, K), K) = SumFunctionOnSet(f, R)
<1> DEFINE G == {T \in SUBSET R :
                   SumFunctionOnSet(GroupSums(f, a, T, K), K) = SumFunctionOnSet(f, T)}
<1>1. {} \in G
  <2> DEFINE g == GroupSums(f, a, {}, K)
  <2>1. \A k \in K : g[k] = 0
    BY SumEmpty DEF GroupSums, Group
  <2> HIDE DEF g
  <2>2. SumFunctionOnSet(g, K) = 0
    BY <2>1, SumZero
  <2> QED BY <2>2, SumEmpty DEF g
<1>2. ASSUME NEW T \in SUBSET R, NEW x \in R \ T, T \in G PROVE T \cup {x} \in G
  <2> DEFINE U == T \cup {x}
             g == GroupSums(f, a, T, K)
             h == GroupSums(f, a, U, K)
  <2>1. /\ IsFiniteSet(T) /\ IntOn(f, T) /\ f[x] \in Int /\ a[x] \in K /\ IsFiniteSet(U)
        /\ IntOn(f, U)
    BY FS_Subset DEF IntOn
  <2>2. ASSUME NEW k \in K
        PROVE  g[k] \in Int /\ h[k] \in Int /\ (k # a[x] => h[k] = g[k])
    <3> DEFINE A == Group(a, T, k)
               B == Group(a, U, k)
    <3>1. IsFiniteSet(A) /\ IntOn(f, A) /\ IsFiniteSet(B) /\ IntOn(f, B)
      BY <2>1, FS_Subset DEF Group, IntOn
    <3>2. k # a[x] => A = B
      BY DEF Group
    <3>3. g[k] = SumFunctionOnSet(f, A) /\ h[k] = SumFunctionOnSet(f, B)
      BY DEF GroupSums
    <3> HIDE DEF A, B, g, h
    <3> QED BY <3>1, <3>2, <3>3, SumInt
  <2>3. h[a[x]] = g[a[x]] + f[x]
    <3> DEFINE A == Group(a, T, a[x])
               B == Group(a, U, a[x])
    <3>1. IsFiniteSet(A) /\ IntOn(f, A) /\ x \notin A /\ B = A \cup {x}
      BY <2>1, FS_Subset DEF Group, IntOn
    <3>2. g[a[x]] = SumFunctionOnSet(f, A) /\ h[a[x]] = SumFunctionOnSet(f, B)
      BY <2>1 DEF GroupSums
    <3> HIDE DEF A, B, g, h
    <3>3. SumFunctionOnSet(f, A \cup {x}) = f[x] + SumFunctionOnSet(f, A)
      BY <2>1, <3>1, SumAdd
    <3>4. SumFunctionOnSet(f, A) \in Int
      BY <3>1, SumInt
    <3> QED BY <2>1, <3>1, <3>2, <3>3, <3>4
  <2>4. SumFunctionOnSet(f, U) = f[x] + SumFunctionOnSet(f, T)
    BY <2>1, SumAdd
  <2>5. SumFunctionOnSet(g, K) = SumFunctionOnSet(f, T) /\ SumFunctionOnSet(f, T) \in Int
    BY <1>2, <2>1, SumInt
  <2> HIDE DEF g, h
  <2>6. IntOn(g, K) /\ IntOn(h, K) /\ \A k \in K \ {a[x]} : h[k] = g[k]
    BY <2>2 DEF IntOn
  <2>7. SumFunctionOnSet(h, K) = SumFunctionOnSet(g, K) - g[a[x]] + h[a[x]]
    BY <2>1, <2>6, SumChange
  <2>8. SumFunctionOnSet(h, K) = SumFunctionOnSet(f, U)
    BY <2>1, <2>2, <2>3, <2>4, <2>5, <2>7
  <2> QED BY <2>8 DEF h
<1>3. R \in G
  <2> HIDE DEF G
  <2> QED BY <1>1, <1>2, SubsetInduction
<1> QED BY <1>3

(* A sum over a set, from the function that is summed.                     *)
LEMMA SumOfIs ==
  ASSUME NEW S, IsFiniteSet(S), NEW g, DOMAIN g = S, NEW f, IntOn(f, S),
         \A x \in S : g[x] = f[x]
  PROVE  SumFunction(g) = SumFunctionOnSet(f, S)
<1>1. SumFunction(g) = SumFunctionOnSet(g, S)
  BY SumFunctionIs
<1>2. SumFunctionOnSet(f, S) = SumFunctionOnSet(g, S)
  BY SumSame
<1> QED BY <1>1, <1>2

(* One more term, the others as they were.                                 *)
LEMMA SumGrows ==
  ASSUME NEW S, IsFiniteSet(S), NEW x, x \notin S, NEW T, T = S \cup {x},
         NEW f, NEW g, IntOn(f, S), \A y \in S : g[y] = f[y], g[x] \in Int
  PROVE  /\ IsFiniteSet(T) /\ IntOn(g, T)
         /\ SumFunctionOnSet(g, T) = SumFunctionOnSet(f, S) + g[x]
<1>1. IntOn(g, S) /\ IntOn(g, T) /\ IsFiniteSet(T)
  BY FS_AddElement DEF IntOn
<1>2. SumFunctionOnSet(g, S \cup {x}) = g[x] + SumFunctionOnSet(g, S)
  BY <1>1, SumAdd
<1>3. SumFunctionOnSet(f, S) = SumFunctionOnSet(g, S) /\ SumFunctionOnSet(f, S) \in Int
  BY SumSame, SumInt
<1> QED BY <1>1, <1>2, <1>3
=============================================================================
