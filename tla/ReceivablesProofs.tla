-------------------------- MODULE ReceivablesProofs --------------------------
(* Proofs about Receivables.                                               *)
EXTENDS Receivables, SumLemmas

-----------------------------------------------------------------------------
(* Journal entries: each has the four accounts and comes out at nothing.   *)

Accounts == {"bank", "ar", "deposits", "revenue"}

Balanced(e) ==
  /\ DOMAIN e = Accounts /\ \A account \in Accounts : e[account] \in Int
  /\ e["bank"] + e["ar"] + e["deposits"] + e["revenue"] = 0

LedgerOk == IsFiniteSet(DOMAIN entries) /\ \A s \in DOMAIN entries : Balanced(entries[s])

Both(e, f) == [account \in DOMAIN f |-> e[account] + f[account]]

LEMMA EntryBalances ==
  ASSUME NEW a \in Int, NEW b \in Int, NEW c \in Int, NEW d \in Int, a + b + c + d = 0
  PROVE  Balanced(Entry(a, b, c, d))
BY DEF Balanced, Entry, Accounts

LEMMA ReversalBalances ==
  ASSUME NEW e, Balanced(e)
  PROVE  Balanced(Reversal(e))
<1>1. /\ e["bank"] \in Int /\ e["ar"] \in Int /\ e["deposits"] \in Int /\ e["revenue"] \in Int
      /\ e["bank"] + e["ar"] + e["deposits"] + e["revenue"] = 0
      /\ DOMAIN e = Accounts
  BY DEF Balanced, Accounts
<1>2. DOMAIN Reversal(e) = Accounts /\ \A account \in Accounts : Reversal(e)[account] = -e[account]
  BY <1>1 DEF Reversal
<1> QED BY <1>1, <1>2 DEF Balanced, Accounts

LEMMA BothBalance ==
  ASSUME NEW e, NEW f, Balanced(e), Balanced(f)
  PROVE  Balanced(Both(e, f))
<1>1. /\ e["bank"] \in Int /\ e["ar"] \in Int /\ e["deposits"] \in Int /\ e["revenue"] \in Int
      /\ e["bank"] + e["ar"] + e["deposits"] + e["revenue"] = 0
  BY DEF Balanced, Accounts
<1>2. /\ f["bank"] \in Int /\ f["ar"] \in Int /\ f["deposits"] \in Int /\ f["revenue"] \in Int
      /\ f["bank"] + f["ar"] + f["deposits"] + f["revenue"] = 0
      /\ DOMAIN f = Accounts
  BY DEF Balanced, Accounts
<1>3. /\ DOMAIN Both(e, f) = Accounts
      /\ \A account \in Accounts : Both(e, f)[account] = e[account] + f[account]
  BY <1>2 DEF Both
<1> QED BY <1>1, <1>2, <1>3 DEF Balanced, Accounts

(* An entry written twice under one source adds up.                        *)
LEMMA LedgerGrows ==
  ASSUME LedgerOk, NEW source, NEW e, Balanced(e), entries' = WithEntry(source, e)
  PROVE  LedgerOk' /\ DOMAIN entries' = DOMAIN entries \cup {source}
<1>1. /\ DOMAIN entries' = DOMAIN entries \cup {source}
      /\ \A s \in DOMAIN entries \cup {source} :
           entries'[s] = IF s # source THEN entries[s]
                         ELSE IF s \notin DOMAIN entries THEN e ELSE Both(entries[s], e)
  BY DEF WithEntry, Both
<1>2. IsFiniteSet(DOMAIN entries')
  BY <1>1, FS_AddElement DEF LedgerOk
<1>3. ASSUME NEW s \in DOMAIN entries' PROVE Balanced(entries'[s])
  BY <1>1, BothBalance DEF LedgerOk
<1> QED BY <1>1, <1>2, <1>3 DEF LedgerOk

(* A ledger of balanced entries balances.                                  *)
LEMMA BalancedLedger ==
  ASSUME LedgerOk
  PROVE  LedgerBalances
<1> DEFINE S == DOMAIN entries
           of(account) == [s \in S |-> entries[s][account]]
           two == [s \in S |-> of("bank")[s] + of("ar")[s]]
           three == [s \in S |-> two[s] + of("deposits")[s]]
           four == [s \in S |-> three[s] + of("revenue")[s]]
<1>1. \A account \in Accounts : Balance(account) = SumFunctionOnSet(of(account), S)
  BY DEF Balance, SumFunction
<1>2. IsFiniteSet(S)
  BY DEF LedgerOk
<1>3. IntOn(of("bank"), S) /\ IntOn(of("ar"), S) /\ IntOn(of("deposits"), S) /\ IntOn(of("revenue"), S)
  BY DEF LedgerOk, Balanced, Accounts, IntOn
<1>4. \A s \in S : two[s] = of("bank")[s] + of("ar")[s]
  OBVIOUS
<1>5. \A s \in S : three[s] = two[s] + of("deposits")[s]
  OBVIOUS
<1>6. \A s \in S : four[s] = three[s] + of("revenue")[s]
  OBVIOUS
<1>7. \A s \in S : four[s] = 0
  <2>1. ASSUME NEW s \in S PROVE four[s] = 0
    <3>1. Balanced(entries[s])
      BY DEF LedgerOk
    <3> QED BY <3>1 DEF Balanced, Accounts
  <2> QED BY <2>1
<1> HIDE DEF of, two, three, four, S
<1>8. IntOn(two, S)
  BY <1>3, <1>4 DEF IntOn
<1>9. IntOn(three, S)
  BY <1>3, <1>5, <1>8 DEF IntOn
<1>10. SumFunctionOnSet(two, S) = SumFunctionOnSet(of("bank"), S) + SumFunctionOnSet(of("ar"), S)
  BY <1>2, <1>3, <1>4, SumPlus
<1>11. SumFunctionOnSet(three, S) = SumFunctionOnSet(two, S) + SumFunctionOnSet(of("deposits"), S)
  BY <1>2, <1>3, <1>5, <1>8, SumPlus
<1>12. SumFunctionOnSet(four, S) = SumFunctionOnSet(three, S) + SumFunctionOnSet(of("revenue"), S)
  BY <1>2, <1>3, <1>6, <1>9, SumPlus
<1>13. SumFunctionOnSet(four, S) = 0
  BY <1>2, <1>7, SumZero
<1> QED BY <1>1, <1>10, <1>11, <1>12, <1>13 DEF LedgerBalances, Accounts

-----------------------------------------------------------------------------
(* A total over some lines, as invoiceProRata spreads it.                  *)

Below(D, n) == {j \in D : j < n}
Upto(D, n) == {j \in D : j <= n}

GivenOf(D, r, T, S) == IF S = D THEN T ELSE Smaller(T, SumFunctionOnSet(r, S))

SpreadOf(D, r, T) == [i \in D |-> GivenOf(D, r, T, Upto(D, i)) - GivenOf(D, r, T, Below(D, i))]

(* Lines, what each settles, the rounded shares of T in proportion.        *)
Shares(D, s, r, T) ==
  /\ IsFiniteSet(D) /\ D \subseteq Nat /\ NatOn(s, D) /\ T \in Nat
  /\ SumFunctionOnSet(s, D) # 0 /\ T <= SumFunctionOnSet(s, D)
  /\ \A i \in D : r[i] = Rounded(T * s[i], SumFunctionOnSet(s, D))

LEMMA RoundedBounds ==
  ASSUME NEW n \in Nat, NEW d \in Nat, d # 0
  PROVE  /\ Rounded(n, d) \in Nat
         /\ 2 * d * Rounded(n, d) >= 2 * n - d + 1 /\ 2 * d * Rounded(n, d) <= 2 * n + d
<1> DEFINE m == 2 * n + d
           e == 2 * d
<1>1. m \in Int /\ e \in Int /\ e > 0 /\ m >= 0
  OBVIOUS
<1>2. /\ m \div e \in Int
      /\ m = e * (m \div e) + (m % e) /\ m % e \in 0..(e - 1)
  <2> HIDE DEF m, e
  <2> QED BY <1>1
<1>3. Rounded(n, d) = m \div e
  BY DEF Rounded
<1> DEFINE x == m \div e
           y == m % e
<1>4. x \in Int /\ y \in Int /\ y >= 0 /\ y <= e - 1 /\ m = e * x + y
  BY <1>1, <1>2
<1> HIDE DEF x, y
<1>5. x >= 0
  <2>1. CASE x < 0
    <3>1. e * x <= -e
      BY <1>1, <1>4, <2>1
    <3> QED BY <1>1, <1>4, <3>1
  <2> QED BY <1>4, <2>1
<1>6. 2 * d * x = e * x
  BY <1>4
<1>7. Rounded(n, d) = x
  BY <1>3 DEF x
<1> QED BY <1>1, <1>4, <1>5, <1>6, <1>7

LEMMA ShareBounds ==
  ASSUME NEW D, NEW s, NEW r, NEW T, Shares(D, s, r, T), NEW i \in D
  PROVE  /\ r[i] \in Nat /\ r[i] <= s[i]
         /\ 2 * SumFunctionOnSet(s, D) * r[i] >= 2 * (T * s[i]) - SumFunctionOnSet(s, D) + 1
<1> DEFINE d == SumFunctionOnSet(s, D)
           a == s[i]
<1>1. d \in Nat /\ d # 0 /\ T \in Nat /\ T <= d /\ a \in Nat /\ r[i] = Rounded(T * a, d)
  BY SumNat DEF Shares, NatOn
<1> HIDE DEF d, a
<1>2. T * a \in Nat /\ T * a <= d * a
  BY <1>1
<1> DEFINE x == Rounded(T * a, d)
<1>3. x \in Nat /\ 2 * d * x >= 2 * (T * a) - d + 1 /\ 2 * d * x <= 2 * (T * a) + d
  BY <1>1, <1>2, RoundedBounds
<1> HIDE DEF x
<1>4. x <= a
  <2>1. CASE x >= a + 1
    <3>1. d * x >= d * (a + 1)
      BY <1>1, <1>3, <2>1
    <3>2. d * (a + 1) = d * a + d
      BY <1>1
    <3>3. 2 * d * x = 2 * (d * x)
      BY <1>1, <1>3
    <3> QED BY <1>1, <1>2, <1>3, <3>1, <3>2, <3>3
  <2> QED BY <1>1, <1>3, <2>1
<1>5. r[i] = x
  BY <1>1 DEF x
<1> QED BY <1>1, <1>3, <1>4, <1>5 DEF d, a

(* The first lines, one by one.                                            *)
LEMMA FirstLines ==
  ASSUME NEW D, IsFiniteSet(D), D \subseteq Nat
  PROVE  /\ \E n \in Nat : Below(D, n) = D
         /\ \A n \in Nat : IsFiniteSet(Below(D, n)) /\ IsFiniteSet(Upto(D, n))
         /\ \A n \in Nat : Upto(D, n) = Below(D, n + 1)
<1> DEFINE id == [j \in D |-> j]
           N == SumFunctionOnSet(id, D)
<1>1. NatOn(id, D) /\ \A j \in D : id[j] = j
  BY DEF NatOn
<1> HIDE DEF id
<1>2. N \in Nat /\ \A j \in D : id[j] <= N
  BY <1>1, SumNat, SumCovers
<1>3. Below(D, N + 1) = D
  <2>1. ASSUME NEW j \in D PROVE j < N + 1
    <3>1. j \in Nat /\ j <= N
      BY <1>1, <1>2
    <3> QED BY <1>2, <3>1
  <2> QED BY <2>1 DEF Below
<1>4. \A n \in Nat : IsFiniteSet(Below(D, n)) /\ IsFiniteSet(Upto(D, n))
  <2>1. ASSUME NEW n \in Nat PROVE IsFiniteSet(Below(D, n)) /\ IsFiniteSet(Upto(D, n))
    <3>1. Below(D, n) \in SUBSET D /\ Upto(D, n) \in SUBSET D
      BY DEF Below, Upto
    <3> QED BY <3>1, FS_Subset
  <2> QED BY <2>1
<1>5. ASSUME NEW n \in Nat PROVE Upto(D, n) = Below(D, n + 1)
  <2>1. \A j \in D : j \in Nat
    OBVIOUS
  <2>2. \A j \in D : j <= n <=> j < n + 1
    BY <2>1
  <2> QED BY <2>2 DEF Upto, Below
<1>6. N + 1 \in Nat
  BY <1>2
<1> QED BY <1>3, <1>4, <1>5, <1>6

LEMMA SharesAre ==
  ASSUME NEW D, NEW s, NEW r, NEW T, Shares(D, s, r, T)
  PROVE  /\ IsFiniteSet(D) /\ D \subseteq Nat /\ D # {} /\ T \in Nat
         /\ NatOn(r, D) /\ IntOn(r, D) /\ NatOn(s, D) /\ IntOn(s, D)
<1>1. IsFiniteSet(D) /\ D \subseteq Nat /\ T \in Nat /\ NatOn(s, D) /\ SumFunctionOnSet(s, D) # 0
  BY DEF Shares
<1>2. \A i \in D : r[i] \in Nat
  BY ShareBounds
<1>3. D # {}
  BY <1>1, SumEmpty
<1> QED BY <1>1, <1>2, <1>3 DEF NatOn, IntOn

(* What the first lines are given is a number of the total, the more the   *)
(* more lines there are.                                                   *)
LEMMA GivenStep ==
  ASSUME NEW D, NEW s, NEW r, NEW T, Shares(D, s, r, T), NEW i \in D
  PROVE  /\ GivenOf(D, r, T, Below(D, i)) \in 0..T /\ GivenOf(D, r, T, Upto(D, i)) \in 0..T
         /\ GivenOf(D, r, T, Below(D, i)) <= GivenOf(D, r, T, Upto(D, i))
         /\ Upto(D, i) # D =>
              GivenOf(D, r, T, Upto(D, i)) <= GivenOf(D, r, T, Below(D, i)) + r[i]
         /\ Upto(D, i) = D =>
              /\ GivenOf(D, r, T, Upto(D, i)) = T
              /\ \/ GivenOf(D, r, T, Below(D, i)) = T
                 \/ GivenOf(D, r, T, Below(D, i)) = SumFunctionOnSet(r, D \ {i})
<1> DEFINE L == Below(D, i)
           U == Upto(D, i)
<1>1. /\ IsFiniteSet(D) /\ D \subseteq Nat /\ T \in Nat /\ NatOn(r, D) /\ IntOn(r, D)
      /\ i \in Nat /\ r[i] \in Nat
  BY SharesAre DEF NatOn
<1>2. IsFiniteSet(L) /\ i \notin L /\ U = L \cup {i} /\ L \subseteq D /\ L # D
  <2>1. \A j \in D : (j <= i <=> j < i \/ j = i) /\ ~(i < i)
    BY <1>1
  <2>2. IsFiniteSet(L)
    BY <1>1, FirstLines
  <2> QED BY <2>1, <2>2 DEF Below, Upto
<1>3. NatOn(r, L) /\ IntOn(r, L) /\ (U = D => L = D \ {i})
  BY <1>1, <1>2 DEF NatOn, IntOn
<1> HIDE DEF L, U
<1> DEFINE a == SumFunctionOnSet(r, L)
           b == SumFunctionOnSet(r, U)
<1>4. a \in Nat
  BY <1>2, <1>3, SumNat
<1>5. b = r[i] + a
  BY <1>1, <1>2, <1>3, SumAdd
<1>6. GivenOf(D, r, T, L) = Smaller(T, a)
  BY <1>2 DEF GivenOf
<1>7. GivenOf(D, r, T, U) = IF U = D THEN T ELSE Smaller(T, b)
  BY DEF GivenOf
<1>8. U = D => a = SumFunctionOnSet(r, D \ {i})
  BY <1>3
<1> HIDE DEF a, b
<1> QED BY <1>1, <1>4, <1>5, <1>6, <1>7, <1>8 DEF Smaller, L, U

(* The shares add up to the total.                                         *)
LEMMA SpreadAddsUp ==
  ASSUME NEW D, NEW s, NEW r, NEW T, Shares(D, s, r, T)
  PROVE  SumFunctionOnSet(SpreadOf(D, r, T), D) = T
<1> DEFINE w == SpreadOf(D, r, T)
           N == {n \in Nat : SumFunctionOnSet(w, Below(D, n)) = GivenOf(D, r, T, Below(D, n))}
<1>1. IsFiniteSet(D) /\ D \subseteq Nat /\ D # {} /\ T \in Nat
  BY SharesAre
<1>2. ASSUME NEW i \in D
      PROVE  /\ w[i] = GivenOf(D, r, T, Upto(D, i)) - GivenOf(D, r, T, Below(D, i))
             /\ GivenOf(D, r, T, Upto(D, i)) \in Int /\ GivenOf(D, r, T, Below(D, i)) \in Int
             /\ w[i] \in Int
  <2>1. GivenOf(D, r, T, Upto(D, i)) \in 0..T /\ GivenOf(D, r, T, Below(D, i)) \in 0..T
    BY GivenStep
  <2>2. w[i] = GivenOf(D, r, T, Upto(D, i)) - GivenOf(D, r, T, Below(D, i))
    BY DEF SpreadOf
  <2> QED BY <1>1, <2>1, <2>2
<1> HIDE DEF w
<1>3. 0 \in N
  <2>1. Below(D, 0) = {}
    <3>1. \A j \in D : ~(j < 0)
      BY <1>1
    <3> QED BY <3>1 DEF Below
  <2>2. GivenOf(D, r, T, {}) = 0
    <3>1. PICK none : none = {}
      OBVIOUS
    <3>2. SumFunctionOnSet(r, none) = 0 /\ none # D
      BY <1>1, <3>1, SumEmpty
    <3>3. GivenOf(D, r, T, none) = 0
      BY <1>1, <3>2 DEF GivenOf, Smaller
    <3> QED BY <3>1, <3>3
  <2> QED BY <2>1, <2>2, SumEmpty
<1>4. ASSUME NEW n \in Nat, n \in N PROVE n + 1 \in N
  <2>1. CASE n \in D
    <3>1. /\ IsFiniteSet(Below(D, n)) /\ n \notin Below(D, n) /\ Upto(D, n) = Below(D, n + 1)
          /\ Below(D, n + 1) = Below(D, n) \cup {n}
      <4>1. \A j \in D : (j < n + 1 <=> j < n \/ j = n) /\ ~(n < n)
        BY <1>1
      <4>2. IsFiniteSet(Below(D, n)) /\ Upto(D, n) = Below(D, n + 1)
        BY <1>1, FirstLines
      <4> QED BY <2>1, <4>1, <4>2 DEF Below
    <3>2. IntOn(w, Below(D, n)) /\ w[n] \in Int
      BY <1>2, <2>1 DEF IntOn, Below
    <3>3. SumFunctionOnSet(w, Below(D, n) \cup {n}) = w[n] + SumFunctionOnSet(w, Below(D, n))
      BY <3>1, <3>2, SumAdd
    <3>4. SumFunctionOnSet(w, Below(D, n)) = GivenOf(D, r, T, Below(D, n))
      BY <1>4
    <3>5. w[n] = GivenOf(D, r, T, Below(D, n + 1)) - GivenOf(D, r, T, Below(D, n))
      BY <1>2, <2>1, <3>1
    <3>6. GivenOf(D, r, T, Below(D, n + 1)) \in Int /\ GivenOf(D, r, T, Below(D, n)) \in Int
      BY <1>2, <2>1, <3>1
    <3>7. SumFunctionOnSet(w, Below(D, n + 1)) = w[n] + SumFunctionOnSet(w, Below(D, n))
      BY <3>1, <3>3
    <3>8. SumFunctionOnSet(w, Below(D, n + 1)) = GivenOf(D, r, T, Below(D, n + 1))
      <4> DEFINE a == GivenOf(D, r, T, Below(D, n + 1))
                 b == GivenOf(D, r, T, Below(D, n))
      <4>1. a \in Int /\ b \in Int /\ w[n] = a - b
            /\ SumFunctionOnSet(w, Below(D, n + 1)) = w[n] + b
        BY <3>4, <3>5, <3>6, <3>7
      <4> HIDE DEF a, b
      <4>2. SumFunctionOnSet(w, Below(D, n + 1)) = a
        BY <4>1
      <4> QED BY <4>2 DEF a
    <3> QED BY <3>8
  <2>2. CASE n \notin D
    <3>1. \A j \in D : j < n + 1 <=> j < n
      BY <1>1, <2>2
    <3>2. Below(D, n + 1) = Below(D, n)
      BY <3>1 DEF Below
    <3> QED BY <1>4, <3>2
  <2> QED BY <2>1, <2>2
<1>5. N = N /\ \A n \in Nat : n \in N
  <2> HIDE DEF N
  <2> QED BY <1>3, <1>4, NatInductive
<1>6. PICK n \in Nat : Below(D, n) = D
  BY <1>1, FirstLines
<1>7. SumFunctionOnSet(w, D) = GivenOf(D, r, T, D)
  BY <1>5, <1>6
<1> QED BY <1>7 DEF GivenOf, w

(* No line is given a negative part.                                       *)
LEMMA SpreadIsNat ==
  ASSUME NEW D, NEW s, NEW r, NEW T, Shares(D, s, r, T), NEW i \in D
  PROVE  SpreadOf(D, r, T)[i] \in Nat
<1>1. SpreadOf(D, r, T)[i] = GivenOf(D, r, T, Upto(D, i)) - GivenOf(D, r, T, Below(D, i))
  BY DEF SpreadOf
<1> DEFINE a == GivenOf(D, r, T, Upto(D, i))
           b == GivenOf(D, r, T, Below(D, i))
<1>2. T \in Nat
  BY DEF Shares
<1>3. a \in 0..T /\ b \in 0..T /\ b <= a
  BY GivenStep
<1>4. SpreadOf(D, r, T)[i] = a - b
  BY <1>1
<1> HIDE DEF a, b
<1> QED BY <1>2, <1>3, <1>4

(* Rounding takes less than half a cent from each share.                   *)
LEMMA SharesAlmost ==
  ASSUME NEW D, NEW s, NEW r, NEW T, Shares(D, s, r, T), NEW S \in SUBSET D
  PROVE  /\ IsFiniteSet(S) /\ SumFunctionOnSet(r, S) \in Nat /\ SumFunctionOnSet(s, S) \in Nat
         /\ 2 * SumFunctionOnSet(s, D) * SumFunctionOnSet(r, S)
              >= 2 * (T * SumFunctionOnSet(s, S)) - Cardinality(S) * (SumFunctionOnSet(s, D) - 1)
<1> DEFINE d == SumFunctionOnSet(s, D)
           G == {U \in SUBSET D :
                   2 * d * SumFunctionOnSet(r, U)
                     >= 2 * (T * SumFunctionOnSet(s, U)) - Cardinality(U) * (d - 1)}
<1>1. /\ IsFiniteSet(D) /\ NatOn(r, D) /\ NatOn(s, D) /\ T \in Nat
      /\ \A i \in D : 2 * d * r[i] >= 2 * (T * s[i]) - d + 1
  BY SharesAre, ShareBounds
<1>2. d \in Nat
  BY <1>1, SumNat
<1> HIDE DEF d
<1>3. \A U \in SUBSET D : /\ IsFiniteSet(U) /\ NatOn(r, U) /\ NatOn(s, U)
                          /\ IntOn(r, U) /\ IntOn(s, U)
  BY <1>1, FS_Subset DEF NatOn, IntOn
<1>4. \A U \in SUBSET D : SumFunctionOnSet(r, U) \in Nat /\ SumFunctionOnSet(s, U) \in Nat
  BY <1>3, SumNat
<1>5. {} \in G
  BY <1>1, <1>2, SumEmpty, FS_EmptySet
<1>6. ASSUME NEW U \in SUBSET S, NEW x \in S \ U, U \in G PROVE U \cup {x} \in G
  <2>1. x \in D /\ U \cup {x} \in SUBSET D /\ U \in SUBSET D
    OBVIOUS
  <2>2. r[x] \in Nat /\ s[x] \in Nat /\ 2 * d * r[x] >= 2 * (T * s[x]) - d + 1
    BY <1>1, <2>1 DEF NatOn
  <2>3. /\ SumFunctionOnSet(r, U \cup {x}) = r[x] + SumFunctionOnSet(r, U)
        /\ SumFunctionOnSet(s, U \cup {x}) = s[x] + SumFunctionOnSet(s, U)
    BY <1>3, <2>1, <2>2, SumAdd
  <2>4. Cardinality(U \cup {x}) = Cardinality(U) + 1 /\ Cardinality(U) \in Nat
    BY <1>3, <2>1, FS_AddElement, FS_CardinalityType
  <2> DEFINE a == SumFunctionOnSet(r, U)
             b == SumFunctionOnSet(s, U)
             n == Cardinality(U)
             y == r[x]
             z == s[x]
  <2>5. /\ a \in Nat /\ b \in Nat /\ n \in Nat /\ y \in Nat /\ z \in Nat
        /\ 2 * d * a >= 2 * (T * b) - n * (d - 1)
        /\ 2 * d * y >= 2 * (T * z) - d + 1
    BY <1>4, <1>6, <2>1, <2>2, <2>4
  <2> HIDE DEF a, b, n, y, z
  <2>6. /\ 2 * d * (y + a) = 2 * d * y + 2 * d * a /\ T * (z + b) = T * z + T * b
        /\ (n + 1) * (d - 1) = n * (d - 1) + (d - 1)
    BY <1>1, <1>2, <2>5
  <2>7. 2 * d * (y + a) >= 2 * (T * (z + b)) - (n + 1) * (d - 1)
    <3>1. PICK e \in Int, f \in Int, g \in Int, h \in Int, k \in Int :
            e = 2 * d * y /\ f = 2 * d * a /\ g = T * z /\ h = T * b /\ k = n * (d - 1)
      BY <1>1, <1>2, <2>5
    <3> QED BY <1>2, <2>5, <2>6, <3>1
  <2> QED BY <2>1, <2>3, <2>4, <2>7 DEF a, b, n, y, z
<1>7. S \in G
  <2>1. IsFiniteSet(S)
    BY <1>3
  <2> HIDE DEF G
  <2> QED BY <1>5, <1>6, <2>1, SubsetInduction
<1> QED BY <1>3, <1>4, <1>7 DEF d

(* With three lines the last one is given no more than it settles.  With   *)
(* four the rounding of the others may leave it more.                      *)
LEMMA SpreadFits ==
  ASSUME NEW D, NEW s, NEW r, NEW T, Shares(D, s, r, T), Cardinality(D) <= 3, NEW i \in D
  PROVE  SpreadOf(D, r, T)[i] <= s[i]
<1> DEFINE d == SumFunctionOnSet(s, D)
           w == SpreadOf(D, r, T)[i]
           R == SumFunctionOnSet(r, D \ {i})
           O == SumFunctionOnSet(s, D \ {i})
<1>1. w = GivenOf(D, r, T, Upto(D, i)) - GivenOf(D, r, T, Below(D, i)) /\ w \in Nat
  BY SpreadIsNat DEF SpreadOf
<1>2. /\ IsFiniteSet(D) /\ T \in Nat /\ NatOn(s, D) /\ IntOn(s, D)
      /\ r[i] \in Nat /\ r[i] <= s[i] /\ s[i] \in Nat
  BY SharesAre, ShareBounds DEF NatOn
<1>3. CASE Upto(D, i) # D
  <2> DEFINE x == GivenOf(D, r, T, Upto(D, i))
             y == GivenOf(D, r, T, Below(D, i))
  <2>1. x \in 0..T /\ y \in 0..T /\ x <= y + r[i] /\ w = x - y
    BY <1>1, <1>3, GivenStep
  <2>2. w <= s[i]
    <3> HIDE DEF x, y, w
    <3> QED BY <1>2, <2>1
  <2> QED BY <2>2
<1>4. CASE Upto(D, i) = D
  <2>1. d \in Nat /\ d # 0 /\ T <= d
    BY <1>2, SumNat DEF Shares
  <2>2. d = s[i] + O
    BY <1>2, SumTake
  <2> DEFINE n == Cardinality(D \ {i})
  <2>3. D \ {i} \in SUBSET D /\ IsFiniteSet(D \ {i}) /\ n \in Nat /\ n <= 2
    <3>1. Cardinality(D \ {i}) = Cardinality(D) - 1 /\ Cardinality(D) \in Nat
      BY <1>2, FS_RemoveElement, FS_CardinalityType
    <3>2. IsFiniteSet(D \ {i}) /\ Cardinality(D \ {i}) \in Nat
      BY <1>2, FS_Subset, FS_CardinalityType
    <3> QED BY <3>1, <3>2
  <2>4. R \in Nat /\ O \in Nat /\ 2 * d * R >= 2 * (T * O) - n * (d - 1)
    BY <2>3, SharesAlmost
  <2>5. w = 0 \/ w = T - R
    BY <1>1, <1>2, <1>4, GivenStep
  <2> DEFINE a == s[i]
  <2>6. a \in Nat /\ d = a + O
    BY <1>2, <2>2
  <2> HIDE DEF d, w, R, O, n, a
  <2>7. CASE w = T - R
    <3>1. n * (d - 1) <= 2 * (d - 1)
      BY <2>1, <2>3
    <3>2. 2 * (T * O) = 2 * (T * d) - 2 * (T * a)
      BY <1>2, <2>1, <2>4, <2>6
    <3>3. 2 * d * w = 2 * (T * d) - 2 * d * R
      <4>1. w \in Int /\ T \in Int /\ d \in Int /\ R \in Int /\ w = T - R
        BY <1>1, <1>2, <2>1, <2>4, <2>7
      <4>2. 2 * d * (T - R) = 2 * (T * d) - 2 * d * R
        BY <4>1
      <4> QED BY <4>1, <4>2
    <3>4. PICK e \in Int, f \in Int, g \in Int, h \in Int, k \in Int, l \in Int :
            e = T * O /\ f = T * d /\ g = T * a /\ h = d * R /\ k = d * w /\ l = n * (d - 1)
      BY <1>1, <1>2, <2>1, <2>3, <2>4, <2>6
    <3>5. 2 * d * R = 2 * h /\ 2 * d * w = 2 * k
      BY <1>1, <2>1, <2>4, <3>4
    <3>6. 2 * k <= 2 * g + 2 * (d - 1)
      BY <2>1, <2>4, <3>1, <3>2, <3>3, <3>4, <3>5
    <3>7. g <= d * a
      BY <1>2, <2>1, <2>6, <3>4
    <3>8. CASE w >= a + 1
      <4>1. d * w >= d * (a + 1) /\ d * (a + 1) = d * a + d
        <5>1. w \in Nat /\ d \in Nat /\ a \in Nat
          BY <1>1, <2>1, <2>6
        <5>2. d * (a + 1) = d * a + d
          BY <5>1
        <5>3. PICK v \in Nat : w = a + 1 + v
          <6>1. w - (a + 1) \in Nat /\ w = a + 1 + (w - (a + 1))
            BY <5>1, <3>8
          <6> QED BY <6>1
        <5>4. d * (a + 1 + v) = d * (a + 1) + d * v /\ d * v >= 0
          BY <5>1
        <5>5. d * w = d * (a + 1 + v)
          BY <5>3
        <5>6. d * v \in Int /\ d * (a + 1) \in Int
          BY <5>1
        <5> QED BY <5>2, <5>4, <5>5, <5>6
      <4>2. PICK m \in Int : m = d * a
        BY <2>1, <2>6
      <4> QED BY <2>1, <3>4, <3>6, <3>7, <4>1, <4>2
    <3> QED BY <1>1, <2>6, <3>8 DEF a, w
  <2>8. CASE w = 0
    BY <1>1, <2>6, <2>8 DEF a, w
  <2> QED BY <2>5, <2>7, <2>8 DEF w
<1> QED BY <1>3, <1>4

-----------------------------------------------------------------------------
(* Payments.                                                               *)

IsPayment(q) ==
  /\ IsFunctionOn(q.lines, Invoices, Positive) /\ IsFunctionOn(q.uses, Usable, Positive)
  /\ q.extra \in Nat

RowsKnown(q, rows) == \A i \in DOMAIN q.lines : rows[i].left \in Int /\ rows[i].amount \in Nat

SettledOf(q, rows) == [i \in DOMAIN q.lines |-> Settles(q, rows, i)]
SharesOf(q, rows, T) == [i \in DOMAIN q.lines |-> Share(q, rows, T, i)]

(* Credit notes are spread over at most three invoices.                    *)
FewLines ==
  \A r \in DOMAIN Request :
    Request[r].kind = "pay" /\ (\E c \in DOMAIN Request[r].uses : Kind[c] = "note")
      => Cardinality(DOMAIN Request[r].lines) <= 3

LEMMA LinesAre ==
  ASSUME ReceivablesAssumption, NEW q, IsPayment(q)
  PROVE  /\ IsFiniteSet(DOMAIN q.lines) /\ DOMAIN q.lines \subseteq Nat
         /\ DOMAIN q.lines \subseteq Invoices /\ NatOn(q.lines, DOMAIN q.lines)
         /\ IsFiniteSet(DOMAIN q.uses) /\ DOMAIN q.uses \subseteq Credits
         /\ NatOn(q.uses, DOMAIN q.uses) /\ \A c \in DOMAIN q.uses : q.uses[c] \in Nat /\ q.uses[c] > 0
         /\ \A c \in DOMAIN q.uses : Kind[c] = "note" \/ Kind[c] = "deposit"
<1>1. /\ DOMAIN q.lines \subseteq Invoices /\ DOMAIN q.uses \subseteq Usable
      /\ q.lines \in [DOMAIN q.lines -> Positive] /\ q.uses \in [DOMAIN q.uses -> Positive]
  BY DEF IsPayment, IsFunctionOn
<1>2. /\ Invoices \subseteq Nat /\ IsFiniteSet(Docs)
      /\ Invoices \in SUBSET Docs /\ Credits \in SUBSET Docs /\ Usable \in SUBSET Credits
  BY DEF ReceivablesAssumption, Docs, Usable
<1>3. DOMAIN q.lines \in SUBSET Docs /\ DOMAIN q.uses \in SUBSET Docs
  BY <1>1, <1>2
<1>4. IsFiniteSet(DOMAIN q.lines) /\ IsFiniteSet(DOMAIN q.uses)
  BY <1>2, <1>3, FS_Subset
<1>5. \A i \in DOMAIN q.lines : q.lines[i] \in Nat
  BY <1>1 DEF Positive
<1>6. \A c \in DOMAIN q.uses : q.uses[c] \in Nat /\ q.uses[c] > 0
  BY <1>1 DEF Positive
<1>7. \A c \in DOMAIN q.uses : Kind[c] = "note" \/ Kind[c] = "deposit"
  BY <1>1 DEF Usable
<1> QED BY <1>1, <1>2, <1>4, <1>5, <1>6, <1>7 DEF NatOn

LEMMA SettlesIs ==
  ASSUME ReceivablesAssumption, NEW q, IsPayment(q), NEW rows, RowsKnown(q, rows)
  PROVE  /\ \A i \in DOMAIN q.lines : Settles(q, rows, i) \in Nat /\ Settles(q, rows, i) <= q.lines[i]
         /\ NatOn(SettledOf(q, rows), DOMAIN q.lines) /\ IntOn(SettledOf(q, rows), DOMAIN q.lines)
         /\ TotalSettled(q, rows) = SumFunctionOnSet(SettledOf(q, rows), DOMAIN q.lines)
         /\ TotalSettled(q, rows) \in Nat
<1>1. ASSUME NEW i \in DOMAIN q.lines
      PROVE  Settles(q, rows, i) \in Nat /\ Settles(q, rows, i) <= q.lines[i]
  <2>1. q.lines[i] \in Nat
    BY LinesAre DEF NatOn
  <2>2. rows[i].left \in Int /\ rows[i].amount \in Nat
    BY DEF RowsKnown
  <2>3. EffectiveBalance(rows[i]) \in Nat
    BY <2>2 DEF EffectiveBalance
  <2> QED BY <2>1, <2>3 DEF Settles, Smaller
<1>2. NatOn(SettledOf(q, rows), DOMAIN q.lines) /\ IntOn(SettledOf(q, rows), DOMAIN q.lines)
  BY <1>1 DEF NatOn, IntOn, SettledOf
<1>3. TotalSettled(q, rows) = SumFunctionOnSet(SettledOf(q, rows), DOMAIN q.lines)
  BY DEF TotalSettled, SettledOf, SumFunction
<1> QED BY <1>1, <1>2, <1>3, LinesAre, SumNat

LEMMA UsedIs ==
  ASSUME ReceivablesAssumption, NEW q, IsPayment(q), NEW kind
  PROVE  /\ Used(q, kind) \in Nat
         /\ ~(\E c \in DOMAIN q.uses : Kind[c] = kind) => Used(q, kind) = 0
         /\ \A c \in DOMAIN q.uses : Kind[c] = kind => q.uses[c] <= Used(q, kind)
<1> DEFINE C == {c \in DOMAIN q.uses : Kind[c] = kind}
<1>1. IsFiniteSet(C) /\ NatOn(q.uses, C)
  <2>1. C \in SUBSET DOMAIN q.uses
    OBVIOUS
  <2> QED BY <2>1, LinesAre, FS_Subset DEF NatOn
<1>2. Used(q, kind) = SumFunctionOnSet(q.uses, C)
  BY DEF Used
<1>3. ~(\E c \in DOMAIN q.uses : Kind[c] = kind) => C = {}
  OBVIOUS
<1>4. \A c \in DOMAIN q.uses : Kind[c] = kind => c \in C
  OBVIOUS
<1> HIDE DEF C
<1>5. SumFunctionOnSet(q.uses, C) \in Nat
  BY <1>1, SumNat
<1>6. C = {} => SumFunctionOnSet(q.uses, C) = 0
  BY SumEmpty
<1>7. \A c \in C : q.uses[c] <= SumFunctionOnSet(q.uses, C)
  BY <1>1, SumCovers
<1> QED BY <1>2, <1>3, <1>4, <1>5, <1>6, <1>7

(* ProRata is the spread of the total.                                     *)
LEMMA ProRataIs ==
  ASSUME ReceivablesAssumption, NEW q, IsPayment(q), NEW rows, RowsKnown(q, rows),
         NEW T \in Nat, T <= TotalSettled(q, rows), T # 0
  PROVE  /\ Shares(DOMAIN q.lines, SettledOf(q, rows), SharesOf(q, rows, T), T)
         /\ \A i \in DOMAIN q.lines :
              ProRata(q, rows, T)[i] = SpreadOf(DOMAIN q.lines, SharesOf(q, rows, T), T)[i]
<1> DEFINE D == DOMAIN q.lines
           s == SettledOf(q, rows)
           r == SharesOf(q, rows, T)
<1>1. IsFiniteSet(D) /\ D \subseteq Nat
  BY LinesAre
<1>2. NatOn(s, D) /\ TotalSettled(q, rows) = SumFunctionOnSet(s, D) /\ TotalSettled(q, rows) \in Nat
  BY SettlesIs
<1>3. \A i \in D : r[i] = Rounded(T * s[i], SumFunctionOnSet(s, D))
  BY <1>2 DEF SharesOf, SettledOf, Share
<1>4. SumFunctionOnSet(s, D) # 0 /\ T <= SumFunctionOnSet(s, D)
  BY <1>2
<1>5. Shares(D, s, r, T)
  BY <1>1, <1>2, <1>3, <1>4 DEF Shares
<1>6. IntOn(r, D)
  BY <1>5, SharesAre
<1>7. ASSUME NEW S, S \in SUBSET D PROVE Given(q, rows, T, S) = GivenOf(D, r, T, S)
  <2>1. IsFiniteSet(S) /\ IntOn(r, S)
    BY <1>1, <1>6, <1>7, FS_Subset DEF IntOn
  <2> DEFINE g == [j \in S |-> Share(q, rows, T, j)]
  <2>2. DOMAIN g = S /\ \A j \in S : g[j] = r[j]
    BY <1>7 DEF SharesOf
  <2> HIDE DEF g, r, D
  <2>3. SumFunction(g) = SumFunctionOnSet(r, S)
    BY <2>1, <2>2, SumOfIs
  <2>4. Given(q, rows, T, S) = IF S = D THEN T ELSE Smaller(T, SumFunction(g))
    BY DEF Given, g, D
  <2> QED BY <2>3, <2>4 DEF GivenOf
<1>8. ASSUME NEW i \in D PROVE ProRata(q, rows, T)[i] = SpreadOf(D, r, T)[i]
  <2>1. Upto(D, i) \in SUBSET D /\ Below(D, i) \in SUBSET D
    BY DEF Upto, Below
  <2>2. /\ Given(q, rows, T, Upto(D, i)) = GivenOf(D, r, T, Upto(D, i))
        /\ Given(q, rows, T, Below(D, i)) = GivenOf(D, r, T, Below(D, i))
    BY <1>7, <2>1
  <2>3. ProRata(q, rows, T)[i]
          = Given(q, rows, T, Upto(D, i)) - Given(q, rows, T, Below(D, i))
    BY <1>2, <1>4 DEF ProRata, Upto, Below
  <2>4. SpreadOf(D, r, T)[i] = GivenOf(D, r, T, Upto(D, i)) - GivenOf(D, r, T, Below(D, i))
    BY DEF SpreadOf
  <2> QED BY <2>2, <2>3, <2>4
<1> QED BY <1>5, <1>8

(* The entry of a payment: what it credits to AR is what it settles less   *)
(* what credit notes paid.                                                 *)
LEMMA PaymentBalances ==
  ASSUME ReceivablesAssumption, NEW q, IsPayment(q), NEW rows, RowsKnown(q, rows), CanPay(q, rows),
         (\E c \in DOMAIN q.uses : Kind[c] = "note") => Cardinality(DOMAIN q.lines) <= 3
  PROVE  Balanced(PaymentEntry(q, rows))
<1> DEFINE D == DOMAIN q.lines
           T == Used(q, "note")
           s == SettledOf(q, rows)
           w == [i \in D |-> ProRata(q, rows, T)[i]]
           credited == [i \in D |->
                          LET net == Settles(q, rows, i) - ProRata(q, rows, T)[i]
                          IN IF net < 0 THEN 0 ELSE net]
<1>1. /\ IsFiniteSet(D) /\ NatOn(s, D) /\ IntOn(s, D) /\ T \in Nat /\ T <= TotalSettled(q, rows)
      /\ TotalSettled(q, rows) = SumFunctionOnSet(s, D) /\ TotalSettled(q, rows) \in Nat
  BY LinesAre, SettlesIs, UsedIs DEF CanPay
<1>2. \A i \in D : s[i] = Settles(q, rows, i) /\ s[i] \in Nat
  BY SettlesIs DEF SettledOf
<1>3. /\ \A i \in D : w[i] \in Nat /\ w[i] <= s[i]
      /\ SumFunctionOnSet(w, D) = T
  <2>1. CASE T = 0
    <3>1. \A i \in D : w[i] = 0
      BY <2>1 DEF ProRata
    <3>2. SumFunctionOnSet(w, D) = 0
      <4> HIDE DEF w
      <4> QED BY <1>1, <3>1, SumZero
    <3> QED BY <1>2, <2>1, <3>1, <3>2
  <2>2. CASE T # 0
    <3> DEFINE r == SharesOf(q, rows, T)
               v == SpreadOf(D, r, T)
    <3>1. Shares(D, s, r, T) /\ \A i \in D : w[i] = v[i]
      BY <1>1, <2>2, ProRataIs
    <3>2. Cardinality(D) <= 3
      BY <2>2, UsedIs
    <3>3. \A i \in D : v[i] \in Nat /\ v[i] <= s[i]
      BY <3>1, <3>2, SpreadIsNat, SpreadFits
    <3>4. SumFunctionOnSet(v, D) = T
      BY <3>1, SpreadAddsUp
    <3>5. IntOn(v, D)
      BY <3>3 DEF IntOn
    <3> HIDE DEF v, w, s, D, T, r
    <3>6. SumFunctionOnSet(v, D) = SumFunctionOnSet(w, D)
      <4>1. \A i \in D : v[i] = w[i]
        BY <3>1
      <4> QED BY <1>1, <3>5, <4>1, SumSame
    <3> QED BY <3>1, <3>3, <3>4, <3>6
  <2> QED BY <2>1, <2>2
<1>4. \A i \in D : credited[i] = s[i] - w[i] /\ credited[i] \in Nat
  <2>1. ASSUME NEW i \in D PROVE credited[i] = s[i] - w[i] /\ credited[i] \in Nat
    <3>1. PICK a \in Nat, b \in Nat : a = s[i] /\ b = w[i] /\ b <= a
      BY <1>2, <1>3
    <3>2. credited[i] = IF a - b < 0 THEN 0 ELSE a - b
      BY <1>2, <3>1
    <3> QED BY <3>1, <3>2
  <2> QED BY <2>1
<1>5. SumFunction(credited) = SumFunctionOnSet(credited, D)
  BY DEF SumFunction
<1>6. PaymentEntry(q, rows)
        = Entry(Bank(q, rows), -SumFunction(credited), Used(q, "deposit") - NewDeposit(q, rows), 0)
  BY DEF PaymentEntry
<1> HIDE DEF D, T, s, w, credited
<1>7. SumFunctionOnSet(s, D) = SumFunctionOnSet(credited, D) + SumFunctionOnSet(w, D)
  <2>1. IntOn(credited, D) /\ IntOn(w, D)
    BY <1>3, <1>4 DEF IntOn
  <2>2. \A i \in D : s[i] = credited[i] + w[i]
    <3>1. ASSUME NEW i \in D PROVE s[i] = credited[i] + w[i]
      <4>1. s[i] \in Nat /\ w[i] \in Nat /\ credited[i] = s[i] - w[i]
        BY <1>2, <1>3, <1>4
      <4> QED BY <4>1
    <3> QED BY <3>1
  <2> QED BY <1>1, <2>1, <2>2, SumPlus
<1>8. SumFunctionOnSet(credited, D) \in Nat
  BY <1>1, <1>4, SumNat DEF NatOn
<1> DEFINE t == TotalSettled(q, rows)
           raw == SumFunction(q.lines)
           d == Used(q, "deposit")
           c == SumFunction(credited)
           x == q.extra
<1>9. t \in Int /\ raw \in Int /\ d \in Int /\ c \in Int /\ x \in Int /\ T \in Int /\ t = c + T
  <2>1. raw \in Nat
    BY LinesAre, SumNat DEF SumFunction
  <2>2. d \in Nat /\ x \in Nat
    BY UsedIs DEF IsPayment
  <2> QED BY <1>1, <1>3, <1>5, <1>7, <1>8, <2>1, <2>2
<1>10. /\ Bank(q, rows) = t + (raw - t) - T - d + x
       /\ NewDeposit(q, rows) = x + (raw - t)
  BY DEF Bank, NewDeposit, Overage, T
<1>11. PaymentEntry(q, rows) = Entry(t + (raw - t) - T - d + x, -c, d - (x + (raw - t)), 0)
  BY <1>6, <1>10
<1> HIDE DEF t, raw, d, c, x
<1>12. /\ t + (raw - t) - T - d + x \in Int /\ -c \in Int /\ d - (x + (raw - t)) \in Int /\ 0 \in Int
       /\ (t + (raw - t) - T - d + x) + (-c) + (d - (x + (raw - t))) + 0 = 0
  BY <1>9
<1> DEFINE e1 == t + (raw - t) - T - d + x
           e2 == -c
           e3 == d - (x + (raw - t))
<1> HIDE DEF e1, e2, e3
<1>13. \A z \in Int : z = 0 => Balanced(Entry(e1, e2, e3, z))
  BY <1>12, EntryBalances DEF e1, e2, e3
<1> QED BY <1>11, <1>13 DEF e1, e2, e3

-----------------------------------------------------------------------------
(* Rows.  E stands for the sources that have an entry.                     *)

Fields == {"status", "amount", "left", "entry"}
OffBooks == {"none", "draft", "voided"}

(* A row on the books has an entry; an invoice, voided or not, keeps it.   *)
Written(E, x, row) ==
  /\ DOMAIN row = Fields /\ row.amount \in Nat /\ row.left \in Int
  /\ x \in Invoices \/ row.status \notin OffBooks => row.entry \in E

Kept(E, x, row) == Written(E, x, row) /\ row.entry \in E

LEMMA WrittenStays ==
  ASSUME NEW E, NEW F, E \subseteq F, NEW x, NEW row, Written(E, x, row)
  PROVE  Written(F, x, row) /\ (row.entry \in E => row.entry \in F)
BY DEF Written

LEMMA DrawnKept ==
  ASSUME NEW E, NEW x, NEW row, Kept(E, x, row), NEW a \in Int
  PROVE  Kept(E, x, Drawn(row, a)) /\ Kept(E, x, DrawnByNote(row, a))
BY DEF Kept, Written, Drawn, DrawnByNote, Fields

LEMMA GivenBackKept ==
  ASSUME NEW E, NEW x, NEW row, Kept(E, x, row), NEW a \in Int
  PROVE  Kept(E, x, GivenBack(row, a))
BY DEF Kept, Written, GivenBack, Fields

LEMMA PaidDownKept ==
  ASSUME NEW E, NEW x, NEW row, Kept(E, x, row), NEW a \in Int
  PROVE  Kept(E, x, PaidDown(row, a))
BY DEF Kept, Written, PaidDown, EffectiveBalance, Fields

LEMMA NoteAppliedKept ==
  ASSUME NEW E, NEW x, NEW row, Kept(E, x, row), NEW a \in Int
  PROVE  Kept(E, x, NoteApplied(row, a)) /\ Smaller(a, row.left) \in Int
<1>1. Smaller(a, row.left) \in Int
  BY DEF Kept, Written, Smaller
<1> DEFINE b == Smaller(a, row.left)
<1>2. NoteApplied(row, a) =
        IF row.left - b <= 0 THEN [row EXCEPT !.left = 0, !.status = "paid"]
        ELSE [row EXCEPT !.left = row.left - b,
                         !.status = IF b > 0 /\ row.status = "issued" THEN "partially_paid" ELSE row.status]
  BY DEF NoteApplied
<1> HIDE DEF b
<1> QED BY <1>1, <1>2 DEF Kept, Written, Fields, b

LEMMA PostedKept ==
  ASSUME ReceivablesAssumption, NEW E, NEW c \in Credits, <<"post", c>> \in E
  PROVE  Kept(E, c, PostedRow(c))
<1>1. Amount[c] \in Nat
  BY DEF ReceivablesAssumption, Docs
<1> QED BY <1>1 DEF Kept, Written, PostedRow, Fields

LEMMA PostingBalances ==
  ASSUME ReceivablesAssumption, NEW c \in Credits
  PROVE  Balanced(PostingEntry(c))
<1>1. Amount[c] \in Nat /\ Kind[c] \in {"deposit", "receipt", "note"}
  BY DEF ReceivablesAssumption, Docs
<1> QED BY <1>1 DEF PostingEntry, Balanced, Entry, Accounts

-----------------------------------------------------------------------------
(* The state.                                                              *)

Sources == DOMAIN entries

Books == FewLines => LedgerOk

LEMMA BooksGrow ==
  ASSUME Books, NEW source, NEW e, FewLines => Balanced(e), entries' = WithEntry(source, e)
  PROVE  Books' /\ DOMAIN entries' = DOMAIN entries \cup {source}
<1>1. DOMAIN entries' = DOMAIN entries \cup {source}
  BY DEF WithEntry
<1>2. CASE FewLines
  BY <1>2, LedgerGrows DEF Books
<1>3. CASE ~FewLines
  BY <1>1, <1>3 DEF Books
<1> QED BY <1>2, <1>3

DocsOk == DOMAIN doc = Docs /\ \A x \in Docs : Written(Sources, x, doc[x])

AppsOk ==
  /\ IsFiniteSet(DOMAIN applications)
  /\ \A k \in DOMAIN applications :
       /\ k.credit \in Credits /\ doc[k.credit].entry \in Sources
       /\ DOMAIN applications[k] = {"amount", "live"} /\ applications[k].amount \in Int

(* The rows a request names, whatever the applications.                    *)
Named(q) ==
  CASE q.kind = "post"        -> {q.credit} \cup Linked(q.credit)
    [] q.kind = "void"        -> {q.credit}
    [] q.kind = "pay"         -> DOMAIN q.lines \cup DOMAIN q.uses
    [] q.kind = "send"        -> {q.invoice}
    [] q.kind = "voidInvoice" -> {q.invoice}
    [] OTHER                  -> {q.credit, q.invoice}

Asks(p) == Request[job[p].req]

(* The credit that a request draws on or gives back to has been posted.    *)
JobOk(p) ==
  job[p] # Idle =>
    /\ job[p].req \in DOMAIN Request /\ DOMAIN job[p] = {"req", "stage", "app"}
    /\ DOMAIN seen[p] \subseteq Docs /\ Named(Asks(p)) \subseteq DOMAIN seen[p]
    /\ \A x \in DOMAIN seen[p] : Written(Sources, x, seen[p][x])
    /\ Asks(p).kind \in {"apply", "unapply"} =>
         seen[p][Asks(p).credit].entry \in Sources /\ doc[Asks(p).credit].entry \in Sources
    /\ Asks(p).kind = "voidInvoice" => \A x \in DOMAIN seen[p] : seen[p][x].entry \in Sources
    /\ Asks(p).kind = "unapply" => job[p].app \in DOMAIN applications

JobsOk == DOMAIN job = Procs /\ DOMAIN seen = Procs /\ \A p \in Procs : JobOk(p)

LedgerInv == Books /\ DocsOk /\ AppsOk /\ JobsOk /\ todo \subseteq DOMAIN Request

LEMMA RequestIs ==
  ASSUME ReceivablesAssumption, NEW r \in DOMAIN Request, NEW q, q = Request[r]
  PROVE  /\ q.kind \in Kinds
         /\ q.kind \in {"post", "apply", "unapply", "void"} => q.credit \in Credits
         /\ q.kind \in {"apply", "unapply", "voidInvoice", "send"} => q.invoice \in Invoices
         /\ q.kind = "apply" => q.amount \in Nat /\ q.amount > 0
         /\ q.kind = "pay" => IsPayment(q)
BY DEF ReceivablesAssumption, IsPayment, Positive

LEMMA LinkedIs ==
  ASSUME ReceivablesAssumption, NEW c \in Credits
  PROVE  Linked(c) \subseteq Invoices /\ (Linked(c) # {} => Kind[c] = "note" /\ Linked(c) = {Link[c]})
BY DEF ReceivablesAssumption, Linked

LEMMA NamedIs ==
  ASSUME ReceivablesAssumption, AppsOk, NEW r \in DOMAIN Request, NEW q, q = Request[r]
  PROVE  /\ Named(q) \subseteq Touched(q) /\ Touched(q) \subseteq Docs
         /\ q.kind # "voidInvoice" => Touched(q) = Named(q)
         /\ q.kind = "voidInvoice" =>
              \A x \in Touched(q) : x = q.invoice \/ (x \in Credits /\ doc[x].entry \in Sources)
<1>1. /\ q.kind \in Kinds
      /\ q.kind \in {"post", "apply", "unapply", "void"} => q.credit \in Credits
      /\ q.kind \in {"apply", "unapply", "voidInvoice", "send"} => q.invoice \in Invoices
      /\ q.kind = "pay" => IsPayment(q)
  BY RequestIs
<1>2. CASE q.kind = "voidInvoice"
  <2>1. \A k \in NotesOn(q.invoice) : k.credit \in Credits /\ doc[k.credit].entry \in Sources
    BY DEF NotesOn, AppsOk
  <2>2. Touched(q) = {q.invoice} \cup {k.credit : k \in NotesOn(q.invoice)} /\ Named(q) = {q.invoice}
    BY <1>2 DEF Touched, Named
  <2> QED BY <1>1, <1>2, <2>1, <2>2 DEF Docs
<1>3. CASE q.kind = "pay"
  <2>1. DOMAIN q.lines \subseteq Invoices /\ DOMAIN q.uses \subseteq Credits
    BY <1>1, <1>3, LinesAre
  <2> QED BY <1>3, <2>1 DEF Touched, Named, Docs
<1>4. CASE q.kind = "post"
  <2>1. Linked(q.credit) \subseteq Invoices /\ q.credit \in Credits
    BY <1>1, <1>4, LinkedIs
  <2> QED BY <1>4, <2>1 DEF Touched, Named, Docs
<1>5. CASE q.kind \in {"apply", "unapply", "void", "send"}
  BY <1>1, <1>5 DEF Touched, Named, Docs
<1> QED BY <1>1, <1>2, <1>3, <1>4, <1>5 DEF Kinds

LEMMA LedgerInit ==
  ASSUME ReceivablesAssumption, Init
  PROVE  LedgerInv
<1>1. Invoices \subseteq Docs /\ IsFiniteSet(Docs) /\ \A x \in Docs : Amount[x] \in Nat
  BY DEF ReceivablesAssumption, Docs
<1> DEFINE source(i) == <<"post", i>>
           S == {source(i) : i \in Invoices}
<1>2. entries = [s \in S |-> Entry(0, Amount[s[2]], 0, -Amount[s[2]])]
  BY DEF Init
<1>3. Books
  <2>1. IsFiniteSet(S)
    <3>1. IsFiniteSet(Invoices)
      BY <1>1, FS_Subset
    <3> DEFINE f == [i \in Invoices |-> source(i)]
    <3>2. f \in Surjection(Invoices, S)
      BY DEF Surjection
    <3> QED BY <3>1, <3>2, FS_Surjection
  <2>2. ASSUME NEW s \in S PROVE Balanced(entries[s])
    <3>1. PICK i \in Invoices : s = <<"post", i>>
      OBVIOUS
    <3>2. s[2] = i
      BY <3>1
    <3>3. entries[s] = Entry(0, Amount[i], 0, -Amount[i]) /\ Amount[i] \in Nat
      BY <1>1, <1>2, <3>2
    <3> DEFINE a == Amount[i]
    <3>4. a \in Int /\ -a \in Int /\ 0 + a + 0 + (-a) = 0
      BY <3>3
    <3> HIDE DEF a
    <3>5. \A z \in Int : z = 0 => Balanced(Entry(z, a, z, -a))
      BY <3>4, EntryBalances
    <3> QED BY <3>3, <3>5 DEF a
  <2> QED BY <1>2, <2>1, <2>2 DEF Books, LedgerOk
<1>4. DocsOk
  <2>1. DOMAIN doc = Docs
    BY DEF Init
  <2>2. ASSUME NEW x \in Docs PROVE Written(Sources, x, doc[x])
    <3>1. doc[x] = [status |-> IF x \in Invoices THEN "issued"
                               ELSE IF x \in Created THEN "none" ELSE "draft",
                    amount |-> Amount[x], left |-> Amount[x],
                    entry  |-> IF x \in Invoices THEN <<"post", x>> ELSE None]
      BY DEF Init
    <3>2. x \in Invoices => <<"post", x>> \in Sources
      BY <1>2 DEF Sources
    <3> QED BY <1>1, <3>1, <3>2 DEF Written, Fields, OffBooks
  <2> QED BY <2>1, <2>2 DEF DocsOk
<1>5. AppsOk
  <2>1. DOMAIN applications = {}
    BY DEF Init
  <2> QED BY <2>1, FS_EmptySet DEF AppsOk
<1>6. JobsOk
  BY DEF Init, JobsOk, JobOk
<1>7. todo \subseteq DOMAIN Request
  BY DEF Init, ReceivablesAssumption
<1> QED BY <1>3, <1>4, <1>5, <1>6, <1>7 DEF LedgerInv

LEMMA LedgerBegin ==
  ASSUME ReceivablesAssumption, LedgerInv, NEW p \in Procs, NEW r \in todo, NEW app, Begin(p, r, app),
         Request[r].kind = "apply" => Open(doc[Request[r].credit]),
         Request[r].kind = "unapply" => app \in DOMAIN applications /\ app.credit = Request[r].credit
  PROVE  LedgerInv'
<1> DEFINE q == Request[r]
<1>1. r \in DOMAIN Request /\ UNCHANGED <<doc, applications, settled, entries, lock, todo>>
  BY DEF LedgerInv, Begin, tables
<1>2. /\ q.kind \in {"post", "apply", "unapply", "void"} => q.credit \in Credits
      /\ Named(q) \subseteq Touched(q) /\ Touched(q) \subseteq Docs
      /\ q.kind # "voidInvoice" => Touched(q) = Named(q)
      /\ q.kind = "voidInvoice" =>
           \A x \in Touched(q) : x = q.invoice \/ (x \in Credits /\ doc[x].entry \in Sources)
  BY <1>1, RequestIs, NamedIs DEF LedgerInv
<1>3. Books' /\ DocsOk' /\ AppsOk' /\ todo' \subseteq DOMAIN Request /\ Sources' = Sources
  BY <1>1 DEF LedgerInv, Books, LedgerOk, DocsOk, AppsOk, Sources
<1>4. \A x \in Docs : Written(Sources, x, doc[x])
  BY DEF LedgerInv, DocsOk
<1>5. DOMAIN job = Procs /\ DOMAIN seen = Procs /\ \A o \in Procs : JobOk(o)
  BY DEF LedgerInv, JobsOk
<1>6. /\ DOMAIN job' = Procs /\ DOMAIN seen' = Procs
      /\ job'[p].req = r /\ job'[p].app = app /\ DOMAIN job'[p] = {"req", "stage", "app"}
      /\ seen'[p] = [x \in Touched(q) |-> doc[x]]
      /\ \A o \in Procs \ {p} : job'[o] = job[o] /\ seen'[o] = seen[o]
  BY <1>5 DEF Begin
<1>7. JobOk(p)'
  <2>1. q.kind = "apply" \/ q.kind = "unapply" => doc[q.credit].entry \in Sources
    <3>1. q.kind = "apply" => doc[q.credit].entry \in Sources
      BY <1>2, <1>4 DEF Open, Written, Docs, OffBooks
    <3>2. q.kind = "unapply" => doc[q.credit].entry \in Sources
      BY DEF LedgerInv, AppsOk
    <3> QED BY <3>1, <3>2
  <2>2. q.kind \in {"apply", "unapply"} => q.credit \in Touched(q)
    BY DEF Touched
  <2>3. q.kind = "voidInvoice" => \A x \in Touched(q) : doc[x].entry \in Sources
    <3>1. q.kind = "voidInvoice" => q.invoice \in Invoices
      BY <1>1, RequestIs
    <3> QED BY <1>2, <1>4, <3>1 DEF Written, Docs
  <2> QED BY <1>1, <1>2, <1>3, <1>4, <1>6, <2>1, <2>2, <2>3 DEF JobOk, Asks
<1>8. ASSUME NEW o \in Procs \ {p} PROVE JobOk(o)'
  BY <1>1, <1>3, <1>5, <1>6 DEF JobOk, Asks
<1> QED BY <1>3, <1>6, <1>7, <1>8 DEF LedgerInv, JobsOk

LEMMA LedgerEnter ==
  ASSUME ReceivablesAssumption, LedgerInv, NEW p \in Procs, Enter(p)
  PROVE  LedgerInv'
<1> DEFINE q == Asks(p)
<1>1. UNCHANGED <<doc, applications, settled, entries, todo>> /\ job[p] # Idle
  BY DEF Enter, tables, Idle
<1>2. DOMAIN job = Procs /\ DOMAIN seen = Procs /\ \A o \in Procs : JobOk(o)
  BY DEF LedgerInv, JobsOk
<1>3. JobOk(p) /\ job[p].req \in DOMAIN Request
  BY <1>1, <1>2 DEF JobOk
<1>4. /\ q.kind \in {"post", "apply", "unapply", "void"} => q.credit \in Credits
      /\ q.kind = "voidInvoice" => q.invoice \in Invoices
      /\ Named(q) \subseteq Touched(q) /\ Touched(q) \subseteq Docs
      /\ q.kind = "voidInvoice" =>
           \A x \in Touched(q) : x = q.invoice \/ (x \in Credits /\ doc[x].entry \in Sources)
  BY <1>3, RequestIs, NamedIs DEF LedgerInv, Asks
<1>5. Books' /\ DocsOk' /\ AppsOk' /\ todo' \subseteq DOMAIN Request /\ Sources' = Sources
  BY <1>1 DEF LedgerInv, Books, LedgerOk, DocsOk, AppsOk, Sources
<1>6. \A x \in Docs : Written(Sources, x, doc[x])
  BY DEF LedgerInv, DocsOk
<1>7. /\ DOMAIN job' = Procs /\ DOMAIN seen' = Procs
      /\ job'[p].req = job[p].req /\ job'[p].app = job[p].app /\ DOMAIN job'[p] = {"req", "stage", "app"}
      /\ DOMAIN seen'[p] = Touched(q)
      /\ \A x \in Touched(q) : seen'[p][x] = doc[x] \/ (x \in DOMAIN seen[p] /\ seen'[p][x] = seen[p][x])
      /\ \A o \in Procs \ {p} : job'[o] = job[o] /\ seen'[o] = seen[o]
  <2>1. DOMAIN job[p] = {"req", "stage", "app"}
    BY <1>1, <1>3 DEF JobOk
  <2>2. job' = [job EXCEPT ![p].stage = "entered"]
    BY DEF Enter
  <2>3. seen' = [seen EXCEPT ![p] = [x \in Touched(q) |->
                   IF x \in ReadsInside(q) \/ x \notin DOMAIN seen[p] THEN doc[x] ELSE seen[p][x]]]
    BY DEF Enter, Asks
  <2> HIDE DEF q
  <2> QED BY <1>2, <2>1, <2>2, <2>3
<1>8. JobOk(p)'
  <2>1. \A x \in Touched(q) : Written(Sources, x, seen'[p][x])
    BY <1>1, <1>3, <1>4, <1>6, <1>7 DEF JobOk
  <2>2. q.kind \in {"apply", "unapply"} =>
          seen'[p][q.credit].entry \in Sources /\ doc[q.credit].entry \in Sources
    <3>1. q.kind \in {"apply", "unapply"} => q.credit \in Touched(q)
      BY DEF Touched
    <3> QED BY <1>1, <1>3, <1>7, <3>1 DEF JobOk
  <2>3. q.kind = "voidInvoice" => \A x \in Touched(q) : seen'[p][x].entry \in Sources
    <3>1. q.kind = "voidInvoice" => \A x \in Touched(q) : doc[x].entry \in Sources
      BY <1>4, <1>6 DEF Written, Docs
    <3> QED BY <1>1, <1>3, <1>7, <3>1 DEF JobOk
  <2>4. q.kind = "unapply" => job[p].app \in DOMAIN applications
    BY <1>1, <1>3 DEF JobOk
  <2> QED BY <1>1, <1>3, <1>4, <1>5, <1>7, <2>1, <2>2, <2>3, <2>4 DEF JobOk, Asks
<1>9. ASSUME NEW o \in Procs \ {p} PROVE JobOk(o)'
  BY <1>1, <1>2, <1>5, <1>7 DEF JobOk, Asks
<1> QED BY <1>5, <1>7, <1>8, <1>9 DEF LedgerInv, JobsOk

(* What a commit leaves: the entries grow, and so do the applications; a   *)
(* document that has an entry keeps one.                                   *)
Commits(p) ==
  /\ End(p) /\ todo' \subseteq todo
  /\ Books' /\ Sources \subseteq Sources' /\ DOMAIN doc' = Docs
  /\ \A x \in Docs : /\ Written(Sources', x, doc'[x])
                     /\ doc[x].entry \in Sources => doc'[x].entry \in Sources'
  /\ DOMAIN applications \subseteq DOMAIN applications' /\ IsFiniteSet(DOMAIN applications')
  /\ \A k \in DOMAIN applications' :
       /\ k.credit \in Credits
       /\ k \in DOMAIN applications \/ doc'[k.credit].entry \in Sources'
       /\ DOMAIN applications'[k] = {"amount", "live"} /\ applications'[k].amount \in Int

LEMMA LedgerCommits ==
  ASSUME ReceivablesAssumption, LedgerInv, NEW p \in Procs, Commits(p)
  PROVE  LedgerInv'
<1>1. DocsOk' /\ Books' /\ todo' \subseteq DOMAIN Request
  BY DEF Commits, DocsOk, LedgerInv
<1>2. AppsOk'
  <2>1. ASSUME NEW k \in DOMAIN applications' PROVE doc'[k.credit].entry \in Sources'
    <3>1. k.credit \in Docs
      BY DEF Commits, Docs
    <3>2. CASE k \in DOMAIN applications
      <4>1. doc[k.credit].entry \in Sources
        BY <3>2 DEF LedgerInv, AppsOk
      <4> QED BY <3>1, <4>1 DEF Commits
    <3>3. CASE k \notin DOMAIN applications
      BY <3>3 DEF Commits
    <3> QED BY <3>2, <3>3
  <2> QED BY <2>1 DEF Commits, AppsOk
<1>3. DOMAIN job = Procs /\ DOMAIN seen = Procs /\ \A o \in Procs : JobOk(o)
  BY DEF LedgerInv, JobsOk
<1>4. /\ DOMAIN job' = Procs /\ DOMAIN seen' = Procs /\ job'[p] = Idle
      /\ \A o \in Procs \ {p} : job'[o] = job[o] /\ seen'[o] = seen[o]
  BY <1>3 DEF Commits, End
<1>5. JobOk(p)'
  BY <1>4 DEF JobOk
<1>6. ASSUME NEW o \in Procs \ {p} PROVE JobOk(o)'
  <2>1. CASE job[o] = Idle
    BY <1>4, <2>1 DEF JobOk
  <2>2. CASE job[o] # Idle
    <3> DEFINE q == Asks(o)
    <3>1. /\ job[o].req \in DOMAIN Request /\ DOMAIN job[o] = {"req", "stage", "app"}
          /\ DOMAIN seen[o] \subseteq Docs /\ Named(q) \subseteq DOMAIN seen[o]
          /\ \A x \in DOMAIN seen[o] : Written(Sources, x, seen[o][x])
          /\ q.kind \in {"apply", "unapply"} =>
               seen[o][q.credit].entry \in Sources /\ doc[q.credit].entry \in Sources
          /\ q.kind = "voidInvoice" => \A x \in DOMAIN seen[o] : seen[o][x].entry \in Sources
          /\ q.kind = "unapply" => job[o].app \in DOMAIN applications
      BY <1>3, <2>2 DEF JobOk
    <3>2. Sources \subseteq Sources' /\ DOMAIN applications \subseteq DOMAIN applications'
      BY DEF Commits
    <3>3. \A x \in DOMAIN seen[o] : Written(Sources', x, seen[o][x])
      BY <3>1, <3>2, WrittenStays
    <3>4. q.kind \in {"apply", "unapply"} => doc'[q.credit].entry \in Sources'
      <4>1. q.kind \in {"apply", "unapply"} => q.credit \in Docs
        BY <3>1, RequestIs DEF Docs, Asks
      <4> QED BY <3>1, <4>1 DEF Commits
    <3>5. job'[o] = job[o] /\ seen'[o] = seen[o] /\ Asks(o)' = q
      BY <1>4 DEF Asks
    <3> HIDE DEF q
    <3> QED BY <3>1, <3>2, <3>3, <3>4, <3>5 DEF JobOk
  <2> QED BY <2>1, <2>2
<1> QED BY <1>1, <1>2, <1>4, <1>5, <1>6 DEF LedgerInv, JobsOk

(* What a commit may rely on.                                              *)
Ready(p, q) ==
  /\ End(p) /\ todo' \subseteq todo /\ job[p].req \in DOMAIN Request /\ q = Request[job[p].req]
  /\ DOMAIN seen[p] \subseteq Docs /\ Named(q) \subseteq DOMAIN seen[p]
  /\ \A x \in DOMAIN seen[p] : Written(Sources, x, seen[p][x])
  /\ q.kind \in {"apply", "unapply"} =>
       seen[p][q.credit].entry \in Sources /\ doc[q.credit].entry \in Sources
  /\ q.kind = "voidInvoice" => \A x \in DOMAIN seen[p] : seen[p][x].entry \in Sources
  /\ q.kind = "unapply" => job[p].app \in DOMAIN applications

LEMMA ReadyToCommit ==
  ASSUME LedgerInv, NEW p \in Procs, NEW kind, Committing(p, kind)
  PROVE  Ready(p, Asks(p)) /\ Asks(p).kind = kind
<1>1. job[p] # Idle /\ End(p) /\ todo' \subseteq todo /\ Asks(p).kind = kind
  BY DEF Committing, Idle, Asks
<1>2. JobOk(p)
  BY DEF LedgerInv, JobsOk
<1> QED BY <1>1, <1>2 DEF JobOk, Ready, Asks

(* The applications a commit leaves when it adds none.                     *)
SameApplications ==
  /\ DOMAIN applications' = DOMAIN applications
  /\ \A k \in DOMAIN applications :
       DOMAIN applications'[k] = {"amount", "live"} /\ applications'[k].amount \in Int

(* When it adds one, to a credit that has an entry.                        *)
LEMMA RowAdded ==
  ASSUME LedgerInv, NEW row, NEW amount \in Int, applications' = WithRow(row, amount),
         row.credit \in Credits, doc'[row.credit].entry \in Sources'
  PROVE  /\ DOMAIN applications \subseteq DOMAIN applications' /\ IsFiniteSet(DOMAIN applications')
         /\ \A k \in DOMAIN applications' :
              /\ k.credit \in Credits
              /\ k \in DOMAIN applications \/ doc'[k.credit].entry \in Sources'
              /\ DOMAIN applications'[k] = {"amount", "live"} /\ applications'[k].amount \in Int
<1>1. /\ DOMAIN applications' = DOMAIN applications \cup {row}
      /\ \A k \in DOMAIN applications' :
           applications'[k] = IF k = row THEN [amount |-> amount, live |-> TRUE] ELSE applications[k]
  BY DEF WithRow
<1>2. IsFiniteSet(DOMAIN applications')
  BY <1>1, FS_AddElement DEF LedgerInv, AppsOk
<1> QED BY <1>1, <1>2 DEF LedgerInv, AppsOk

LEMMA AppsOfInv ==
  ASSUME LedgerInv, SameApplications
  PROVE  /\ DOMAIN applications \subseteq DOMAIN applications' /\ IsFiniteSet(DOMAIN applications')
         /\ \A k \in DOMAIN applications' :
              /\ k.credit \in Credits
              /\ k \in DOMAIN applications \/ doc'[k.credit].entry \in Sources'
              /\ DOMAIN applications'[k] = {"amount", "live"} /\ applications'[k].amount \in Int
BY DEF LedgerInv, AppsOk, SameApplications

LEMMA LedgerPost ==
  ASSUME ReceivablesAssumption, LedgerInv, NEW p \in Procs, Post(p)
  PROVE  LedgerInv'
<1> DEFINE q == Asks(p)
           c == q.credit
           source == <<"post", c>>
           amount(i) == Smaller(Amount[c], seen[p][i].left)
<1>1. Ready(p, q) /\ q.kind = "post"
  BY ReadyToCommit DEF Post
<1>2. c \in Credits /\ Amount[c] \in Int /\ c \in Docs
  <2>1. c \in Credits
    BY <1>1, RequestIs DEF Ready
  <2>2. c \in Docs /\ Amount \in [Docs -> Nat]
    BY <2>1 DEF ReceivablesAssumption, Docs
  <2> QED BY <2>1, <2>2
<1>3. Books' /\ Sources' = Sources \cup {source}
  <2>1. entries' = WithEntry(source, PostingEntry(c))
    BY DEF Post, Asks
  <2>2. Balanced(PostingEntry(c))
    BY <1>2, PostingBalances
  <2> QED BY <2>1, <2>2, BooksGrow DEF LedgerInv, Sources
<1>4. \A x \in Docs : Written(Sources', x, doc[x]) /\ (doc[x].entry \in Sources => doc[x].entry \in Sources')
  BY <1>3, WrittenStays DEF LedgerInv, DocsOk
<1>5. Kept(Sources', c, PostedRow(c))
  BY <1>2, <1>3, PostedKept
<1>6. CASE Linked(c) = {}
  <2>1. doc' = [doc EXCEPT ![c] = PostedRow(c)] /\ UNCHANGED applications
    BY <1>6 DEF Post, Asks
  <2>2. DOMAIN doc' = Docs /\ \A x \in Docs : doc'[x] = IF x = c THEN PostedRow(c) ELSE doc[x]
    BY <1>2, <2>1 DEF LedgerInv, DocsOk
  <2>3. SameApplications
    BY <2>1 DEF SameApplications, LedgerInv, AppsOk
  <2>4. \A x \in Docs : /\ Written(Sources', x, doc'[x])
                        /\ doc[x].entry \in Sources => doc'[x].entry \in Sources'
    BY <1>4, <1>5, <2>2 DEF Kept
  <2>5. Commits(p)
    BY <1>1, <1>3, <2>2, <2>3, <2>4, AppsOfInv, Zenon DEF Commits, Ready
  <2> QED BY <2>5, LedgerCommits
<1>7. CASE Linked(c) # {}
  <2>1. PICK i \in Linked(c) :
          /\ doc' = [doc EXCEPT ![c] = DrawnByNote(PostedRow(c), amount(i)),
                                ![i] = NoteApplied(seen[p][i], Amount[c])]
          /\ applications' = WithRow(Row(job[p].req, c, i), amount(i))
    BY <1>7 DEF Post, Asks
  <2>2. i \in Invoices /\ i \in Docs /\ i # c /\ i \in DOMAIN seen[p]
    <3>1. i \in Invoices /\ i # c
      BY <1>2, LinkedIs, Zenon DEF ReceivablesAssumption
    <3>2. i \in Named(q)
      BY <1>1 DEF Named
    <3> QED BY <1>1, <3>1, <3>2 DEF Ready, Docs
  <2>3. Kept(Sources', i, seen[p][i])
    <3>1. Written(Sources', i, seen[p][i])
      BY <1>1, <1>3, <2>2, WrittenStays DEF Ready
    <3> QED BY <2>2, <3>1 DEF Kept, Written
  <2>4. Kept(Sources', i, NoteApplied(seen[p][i], Amount[c])) /\ amount(i) \in Int
    BY <1>2, <2>3, NoteAppliedKept
  <2>5. Kept(Sources', c, DrawnByNote(PostedRow(c), amount(i)))
    BY <1>5, <2>4, DrawnKept
  <2> DEFINE credit == DrawnByNote(PostedRow(c), amount(i))
             invoice == NoteApplied(seen[p][i], Amount[c])
  <2>6. DOMAIN doc' = Docs
        /\ \A x \in Docs : doc'[x] = IF x = c THEN credit ELSE IF x = i THEN invoice ELSE doc[x]
    <3>1. DOMAIN doc = Docs /\ doc' = [doc EXCEPT ![c] = credit, ![i] = invoice]
      BY <2>1 DEF LedgerInv, DocsOk
    <3> HIDE DEF credit, invoice, c
    <3> QED BY <1>2, <2>2, <3>1
  <2>7. \A x \in Docs : /\ Written(Sources', x, doc'[x])
                        /\ doc[x].entry \in Sources => doc'[x].entry \in Sources'
    BY <1>4, <2>4, <2>5, <2>6 DEF Kept
  <2> DEFINE row == Row(job[p].req, c, i)
  <2>8. row.credit = c
    BY DEF Row
  <2>9. doc'[c].entry \in Sources'
    BY <1>2, <2>5, <2>6 DEF Kept
  <2>10. /\ DOMAIN applications \subseteq DOMAIN applications' /\ IsFiniteSet(DOMAIN applications')
         /\ \A k \in DOMAIN applications' :
              /\ k.credit \in Credits
              /\ k \in DOMAIN applications \/ doc'[k.credit].entry \in Sources'
              /\ DOMAIN applications'[k] = {"amount", "live"} /\ applications'[k].amount \in Int
    <3> DEFINE a == amount(i)
    <3>1. applications' = WithRow(row, a) /\ a \in Int
      BY <2>1, <2>4
    <3> HIDE DEF a, row, c
    <3> QED BY <1>2, <2>8, <2>9, <3>1, RowAdded
  <2>11. Commits(p)
    BY <1>1, <1>3, <2>6, <2>7, <2>10 DEF Commits, Ready
  <2> QED BY <2>11, LedgerCommits
<1> QED BY <1>6, <1>7

(* Balance and status written to a row that has an entry.                  *)
LEMMA ColumnsKept ==
  ASSUME NEW E, NEW x, NEW row, Written(E, x, row), row.entry \in E, NEW l \in Int, NEW st
  PROVE  Kept(E, x, [row EXCEPT !.left = l, !.status = st])
BY DEF Kept, Written, Fields

LEMMA RowIs ==
  ASSUME NEW E, NEW x, NEW row, Kept(E, x, row)
  PROVE  row.left \in Int /\ row.amount \in Nat
BY DEF Kept, Written

(* Two rows are written, a credit's and an invoice's.                      *)
LEMMA TwoRows ==
  ASSUME ReceivablesAssumption, LedgerInv, NEW p \in Procs, End(p), todo' \subseteq todo,
         Books', Sources \subseteq Sources', NEW c \in Credits, NEW i \in Invoices, NEW a, NEW b,
         DOMAIN doc' = Docs,
         \A x \in Docs : doc'[x] = IF x = c THEN a ELSE IF x = i THEN b ELSE doc[x],
         Kept(Sources', c, a), Kept(Sources', i, b),
         \/ SameApplications
         \/ \E row, amount : /\ row.credit = c /\ amount \in Int
                             /\ applications' = WithRow(row, amount)
  PROVE  LedgerInv'
<1>1. \A x \in Docs : Written(Sources', x, doc[x]) /\ (doc[x].entry \in Sources => doc[x].entry \in Sources')
  BY WrittenStays DEF LedgerInv, DocsOk
<1>2. \A x \in Docs : /\ Written(Sources', x, doc'[x])
                      /\ doc[x].entry \in Sources => doc'[x].entry \in Sources'
  BY <1>1 DEF Kept
<1>3. doc'[c].entry \in Sources'
  BY DEF Docs, Kept
<1>4. /\ DOMAIN applications \subseteq DOMAIN applications' /\ IsFiniteSet(DOMAIN applications')
      /\ \A k \in DOMAIN applications' :
           /\ k.credit \in Credits
           /\ k \in DOMAIN applications \/ doc'[k.credit].entry \in Sources'
           /\ DOMAIN applications'[k] = {"amount", "live"} /\ applications'[k].amount \in Int
  <2>1. CASE SameApplications
    BY <2>1, AppsOfInv
  <2>2. CASE \E row, amount : /\ row.credit = c /\ amount \in Int
                              /\ applications' = WithRow(row, amount)
    BY <1>3, <2>2, RowAdded
  <2> QED BY <2>1, <2>2
<1>5. Commits(p)
  BY <1>2, <1>4 DEF Commits
<1> QED BY <1>5, LedgerCommits

LEMMA LedgerApplyCredit ==
  ASSUME ReceivablesAssumption, LedgerInv, NEW p \in Procs, ApplyCredit(p)
  PROVE  LedgerInv'
<1> DEFINE q == Asks(p)
           c == q.credit
           i == q.invoice
           credit == Drawn(seen[p][c], q.amount)
           a == [doc[c] EXCEPT !.left = credit.left, !.status = credit.status]
           b == [doc[i] EXCEPT !.left = seen[p][i].left - q.amount]
<1>1. Ready(p, q) /\ q.kind = "apply"
  BY ReadyToCommit, Zenon DEF ApplyCredit
<1>2. c \in Credits /\ i \in Invoices /\ q.amount \in Int
  BY <1>1, RequestIs DEF Ready
<1>3. c \in Docs /\ i \in Docs /\ c # i
  BY <1>2 DEF Docs, ReceivablesAssumption
<1>4. Books' /\ Sources \subseteq Sources'
  <2> DEFINE x == q.amount
             e == Entry(0, -x, x, 0)
  <2>1. \/ entries' = entries
        \/ entries' = WithEntry(<<"apply", c>>, e)
    BY Zenon DEF ApplyCredit, Asks
  <2>2. Balanced(e)
    <3>1. PICK z \in Int : z = 0
      OBVIOUS
    <3>2. x \in Int /\ -x \in Int /\ z + (-x) + x + z = 0
      BY <1>2, <3>1
    <3> HIDE DEF x
    <3>3. Balanced(Entry(z, -x, x, z))
      BY <3>2, EntryBalances
    <3> QED BY <3>1, <3>3
  <2> HIDE DEF e
  <2>3. CASE entries' = entries
    BY <2>3 DEF LedgerInv, Books, LedgerOk, Sources
  <2>4. CASE entries' = WithEntry(<<"apply", c>>, e)
    BY <2>2, <2>4, BooksGrow, Zenon DEF LedgerInv, Sources
  <2> QED BY <2>1, <2>3, <2>4
<1>5. /\ c \in DOMAIN seen[p] /\ i \in DOMAIN seen[p]
      /\ Written(Sources, c, seen[p][c]) /\ Written(Sources, i, seen[p][i])
      /\ seen[p][c].entry \in Sources /\ doc[c].entry \in Sources
      /\ Written(Sources, c, doc[c]) /\ Written(Sources, i, doc[i])
  BY <1>1, <1>3 DEF Ready, Named, LedgerInv, DocsOk
<1>6. /\ Kept(Sources', c, seen[p][c]) /\ Kept(Sources', i, seen[p][i])
      /\ Written(Sources', c, doc[c]) /\ doc[c].entry \in Sources'
      /\ Written(Sources', i, doc[i]) /\ doc[i].entry \in Sources'
  BY <1>2, <1>4, <1>5, WrittenStays DEF Kept, Written
<1>7. credit.left \in Int /\ seen[p][i].left - q.amount \in Int
  <2>1. Kept(Sources', c, credit)
    BY <1>2, <1>6, DrawnKept
  <2> QED BY <1>2, <1>6, <2>1, RowIs
<1>8. Kept(Sources', c, a) /\ Kept(Sources', i, b)
  <2>1. Kept(Sources', c, a)
    <3> HIDE DEF credit, c
    <3> QED BY <1>6, <1>7, ColumnsKept
  <2>2. Kept(Sources', i, b)
    <3> HIDE DEF q, i
    <3> QED BY <1>6, <1>7 DEF Kept, Written, Fields
  <2> QED BY <2>1, <2>2
<1>9. DOMAIN doc' = Docs
      /\ \A x \in Docs : doc'[x] = IF x = c THEN a ELSE IF x = i THEN b ELSE doc[x]
  <2>1. doc' = [doc EXCEPT ![c].left = credit.left, ![c].status = credit.status,
                           ![i].left = seen[p][i].left - q.amount]
    BY Zenon DEF ApplyCredit, Asks
  <2>2. DOMAIN doc = Docs /\ DOMAIN doc[c] = Fields /\ DOMAIN doc[i] = Fields
    BY <1>5 DEF LedgerInv, DocsOk, Written
  <2> DEFINE l == seen[p][i].left - q.amount
  <2> HIDE DEF credit, q, c, i, l
  <2> QED BY <1>3, <2>1, <2>2 DEF l, Fields
<1>10. \E row, amount : row.credit = c /\ amount \in Int /\ applications' = WithRow(row, amount)
  <2>1. applications' = WithRow(Row(job[p].req, c, i), q.amount)
    BY Zenon DEF ApplyCredit, Asks
  <2>2. Row(job[p].req, c, i).credit = c
    BY DEF Row
  <2> QED BY <1>2, <2>1, <2>2
<1>11. End(p) /\ todo' \subseteq todo
  BY <1>1 DEF Ready
<1> HIDE DEF a, b, c, i
<1> QED BY <1>2, <1>4, <1>8, <1>9, <1>10, <1>11, TwoRows

LEMMA LedgerApplyNote ==
  ASSUME ReceivablesAssumption, LedgerInv, NEW p \in Procs, ApplyNote(p)
  PROVE  LedgerInv'
<1> DEFINE q == Asks(p)
           c == q.credit
           i == q.invoice
           amount == Smaller(q.amount, seen[p][i].left)
           credit == DrawnByNote(seen[p][c], amount)
           a == [doc[c] EXCEPT !.left = credit.left, !.status = credit.status]
           b == NoteApplied(seen[p][i], q.amount)
<1>1. Ready(p, q) /\ q.kind = "apply"
  BY ReadyToCommit, Zenon DEF ApplyNote
<1>2. c \in Credits /\ i \in Invoices /\ q.amount \in Int
  BY <1>1, RequestIs DEF Ready
<1>3. c \in Docs /\ i \in Docs /\ c # i
  BY <1>2 DEF Docs, ReceivablesAssumption
<1>4. Books' /\ Sources' = Sources
  BY Zenon DEF ApplyNote, LedgerInv, Books, LedgerOk, Sources
<1>5. /\ c \in DOMAIN seen[p] /\ i \in DOMAIN seen[p]
      /\ Written(Sources, c, seen[p][c]) /\ Written(Sources, i, seen[p][i])
      /\ seen[p][c].entry \in Sources /\ doc[c].entry \in Sources
      /\ Written(Sources, c, doc[c])
  BY <1>1, <1>3 DEF Ready, Named, LedgerInv, DocsOk
<1>6. Kept(Sources, c, seen[p][c]) /\ Kept(Sources, i, seen[p][i])
  BY <1>2, <1>5 DEF Kept, Written
<1>7. amount \in Int /\ Kept(Sources, i, b)
  BY <1>2, <1>6, NoteAppliedKept
<1>8. Kept(Sources, c, a)
  <2>1. Kept(Sources, c, credit)
    BY <1>6, <1>7, DrawnKept
  <2>2. credit.left \in Int
    BY <2>1, RowIs
  <2> HIDE DEF credit, c
  <2> QED BY <1>5, <2>2, ColumnsKept
<1>9. DOMAIN doc' = Docs
      /\ \A x \in Docs : doc'[x] = IF x = c THEN a ELSE IF x = i THEN b ELSE doc[x]
  <2>1. doc' = [doc EXCEPT ![c].left = credit.left, ![c].status = credit.status, ![i] = b]
    BY Zenon DEF ApplyNote, Asks
  <2>2. DOMAIN doc = Docs /\ DOMAIN doc[c] = Fields
    BY <1>5 DEF LedgerInv, DocsOk, Written
  <2> HIDE DEF credit, q, c, i, b
  <2> QED BY <1>3, <2>1, <2>2 DEF Fields
<1>10. \E row, x : row.credit = c /\ x \in Int /\ applications' = WithRow(row, x)
  <2>1. applications' = WithRow(Row(job[p].req, c, i), amount)
    BY Zenon DEF ApplyNote, Asks
  <2>2. Row(job[p].req, c, i).credit = c
    BY DEF Row
  <2> QED BY <1>7, <2>1, <2>2
<1>11. End(p) /\ todo' \subseteq todo
  BY <1>1 DEF Ready
<1> HIDE DEF a, b, c, i
<1> QED BY <1>2, <1>4, <1>7, <1>8, <1>9, <1>10, <1>11, TwoRows

LEMMA LedgerUnapply ==
  ASSUME ReceivablesAssumption, LedgerInv, NEW p \in Procs, Unapply(p)
  PROVE  LedgerInv'
<1> DEFINE q == Asks(p)
           c == q.credit
           i == q.invoice
           k == job[p].app
           amount == applications[k].amount
           credit == GivenBack(seen[p][c], amount)
           left == seen[p][i].left + amount
           st == IF Kind[c] # "note" THEN doc[i].status
                 ELSE IF left = seen[p][i].amount THEN "sent" ELSE "partially_paid"
           a == [doc[c] EXCEPT !.left = credit.left, !.status = credit.status]
           b == [doc[i] EXCEPT !.left = left, !.status = st]
<1>1. Ready(p, q) /\ q.kind = "unapply"
  BY ReadyToCommit, Zenon DEF Unapply
<1>2. c \in Credits /\ i \in Invoices /\ k \in DOMAIN applications /\ amount \in Int
  BY <1>1, RequestIs DEF Ready, LedgerInv, AppsOk
<1>3. c \in Docs /\ i \in Docs /\ c # i
  BY <1>2 DEF Docs, ReceivablesAssumption
<1>4. Books' /\ Sources' = Sources
  BY Zenon DEF Unapply, LedgerInv, Books, LedgerOk, Sources
<1>5. /\ c \in DOMAIN seen[p] /\ i \in DOMAIN seen[p]
      /\ Written(Sources, c, seen[p][c]) /\ Written(Sources, i, seen[p][i])
      /\ seen[p][c].entry \in Sources /\ doc[c].entry \in Sources
      /\ Written(Sources, c, doc[c]) /\ Written(Sources, i, doc[i])
  BY <1>1, <1>3 DEF Ready, Named, LedgerInv, DocsOk
<1>6. Kept(Sources, c, seen[p][c]) /\ Kept(Sources, i, seen[p][i]) /\ doc[i].entry \in Sources
  BY <1>2, <1>5 DEF Kept, Written
<1>7. Kept(Sources, c, a)
  <2>1. Kept(Sources, c, credit)
    BY <1>2, <1>6, GivenBackKept
  <2>2. credit.left \in Int
    BY <2>1, RowIs
  <2> HIDE DEF credit, c
  <2> QED BY <1>5, <2>2, ColumnsKept, Zenon
<1>8. Kept(Sources, i, b)
  <2>1. left \in Int
    BY <1>2, <1>6, RowIs
  <2> HIDE DEF left, i, st
  <2> QED BY <1>5, <1>6, <2>1, ColumnsKept, Zenon
<1>9. DOMAIN doc' = Docs
      /\ \A x \in Docs : doc'[x] = IF x = c THEN a ELSE IF x = i THEN b ELSE doc[x]
  <2>1. doc' = [doc EXCEPT ![c].left = credit.left, ![c].status = credit.status,
                           ![i].left = left,
                           ![i].status = IF Kind[c] # "note" THEN @
                                         ELSE IF left = seen[p][i].amount THEN "sent" ELSE "partially_paid"]
    BY Zenon DEF Unapply, Asks
  <2>2. DOMAIN doc = Docs /\ DOMAIN doc[c] = Fields /\ DOMAIN doc[i] = Fields
    BY <1>5 DEF LedgerInv, DocsOk, Written
  <2>3. doc' = [doc EXCEPT ![c].left = credit.left, ![c].status = credit.status,
                           ![i].left = left, ![i].status = st]
    <3> HIDE DEF credit, q, c, i, left
    <3> QED BY <1>3, <2>1, <2>2 DEF Fields
  <2> HIDE DEF credit, q, c, i, left, st
  <2> QED BY <1>3, <2>2, <2>3 DEF Fields
<1>10. SameApplications
  <2>1. applications' = [applications EXCEPT ![k].live = FALSE]
    BY Zenon DEF Unapply
  <2>2. \A j \in DOMAIN applications : DOMAIN applications[j] = {"amount", "live"} /\ applications[j].amount \in Int
    BY DEF LedgerInv, AppsOk
  <2> HIDE DEF k
  <2> QED BY <1>2, <2>1, <2>2 DEF SameApplications
<1>11. End(p) /\ todo' \subseteq todo
  BY <1>1 DEF Ready
<1> HIDE DEF a, b, c, i
<1> QED BY <1>2, <1>4, <1>7, <1>8, <1>9, <1>10, <1>11, TwoRows

LEMMA LedgerVoidCredit ==
  ASSUME ReceivablesAssumption, LedgerInv, NEW p \in Procs, VoidCredit(p)
  PROVE  LedgerInv'
<1> DEFINE q == Asks(p)
           c == q.credit
           row == seen[p][c]
           a == [doc[c] EXCEPT !.status = "voided",
                               !.left = IF Kind[c] # "note" /\ row.status = "open" THEN 0 ELSE doc[c].left]
<1>1. Ready(p, q) /\ q.kind = "void"
  BY ReadyToCommit, Zenon DEF VoidCredit
<1>2. c \in Credits /\ c \in Docs /\ c \notin Invoices
  <2>1. c \in Credits
    BY <1>1, RequestIs DEF Ready
  <2> HIDE DEF c
  <2> QED BY <2>1 DEF ReceivablesAssumption, Docs
<1>3. c \in DOMAIN seen[p] /\ Written(Sources, c, row)
  BY <1>1 DEF Ready, Named
<1>4. Books' /\ Sources \subseteq Sources'
  <2>1. CASE row.status = "open"
    <3>1. row.entry \in Sources
      BY <1>3, <2>1 DEF Written, OffBooks
    <3>2. entries' = WithEntry(<<"reverse", row.entry>>, Reversal(entries[row.entry]))
      BY <2>1, Zenon DEF VoidCredit, Asks
    <3>3. FewLines => Balanced(Reversal(entries[row.entry]))
      BY <3>1, ReversalBalances DEF LedgerInv, Books, LedgerOk, Sources
    <3>4. PICK source, e : entries' = WithEntry(source, e) /\ (FewLines => Balanced(e))
      BY <3>2, <3>3
    <3>5. Books' /\ DOMAIN entries' = DOMAIN entries \cup {source}
      BY <3>4, BooksGrow, Zenon DEF LedgerInv
    <3> QED BY <3>5 DEF Sources
  <2>2. CASE row.status # "open"
    <3>1. entries' = entries
      BY <2>2 DEF VoidCredit, Asks
    <3> QED BY <3>1 DEF LedgerInv, Books, LedgerOk, Sources
  <2> QED BY <2>1, <2>2
<1>5. DOMAIN doc' = Docs /\ \A x \in Docs : doc'[x] = IF x = c THEN a ELSE doc[x]
  <2>1. doc' = [doc EXCEPT ![c].status = "voided",
                           ![c].left = IF Kind[c] # "note" /\ row.status = "open" THEN 0 ELSE @]
    BY Zenon DEF VoidCredit, Asks
  <2>2. DOMAIN doc = Docs /\ DOMAIN doc[c] = Fields
    BY <1>2 DEF LedgerInv, DocsOk, Written
  <2> HIDE DEF c, row
  <2> QED BY <1>2, <2>1, <2>2 DEF Fields
<1>6. \A x \in Docs : Written(Sources', x, doc[x]) /\ (doc[x].entry \in Sources => doc[x].entry \in Sources')
  BY <1>4, WrittenStays DEF LedgerInv, DocsOk
<1>7. Written(Sources', c, a) /\ a.entry = doc[c].entry
  <2> HIDE DEF c, row
  <2> QED BY <1>2, <1>6 DEF Written, Fields, OffBooks
<1>8. \A x \in Docs : /\ Written(Sources', x, doc'[x])
                      /\ doc[x].entry \in Sources => doc'[x].entry \in Sources'
  <2> HIDE DEF a, c
  <2> QED BY <1>5, <1>6, <1>7
<1>9. SameApplications
  BY Zenon DEF VoidCredit, SameApplications, LedgerInv, AppsOk
<1>10. Commits(p)
  BY <1>1, <1>4, <1>5, <1>8, <1>9, AppsOfInv DEF Commits, Ready
<1> QED BY <1>10, LedgerCommits

LEMMA LedgerSend ==
  ASSUME ReceivablesAssumption, LedgerInv, NEW p \in Procs, Send(p)
  PROVE  LedgerInv'
<1> DEFINE q == Asks(p)
           i == q.invoice
           a == [seen[p][i] EXCEPT !.status = "sent"]
<1>1. Ready(p, q) /\ q.kind = "send"
  BY ReadyToCommit DEF Send
<1>2. i \in Invoices /\ i \in Docs /\ i \in DOMAIN seen[p]
  BY <1>1, RequestIs DEF Ready, Docs, Named
<1>3. Written(Sources, i, seen[p][i]) /\ seen[p][i].entry \in Sources
  BY <1>1, <1>2 DEF Ready, Written
<1>4. Written(Sources, i, a) /\ a.entry \in Sources
  <2> HIDE DEF i
  <2> QED BY <1>2, <1>3 DEF Written, Fields
<1>5. DOMAIN doc' = Docs /\ \A x \in Docs : doc'[x] = IF x = i THEN a ELSE doc[x]
  BY <1>2 DEF Send, Asks, LedgerInv, DocsOk
<1>6. Books' /\ Sources' = Sources
  BY DEF Send, LedgerInv, Books, LedgerOk, Sources
<1>7. \A x \in Docs : /\ Written(Sources', x, doc'[x])
                      /\ doc[x].entry \in Sources => doc'[x].entry \in Sources'
  <2> HIDE DEF a, i
  <2> QED BY <1>4, <1>5, <1>6 DEF LedgerInv, DocsOk
<1>8. SameApplications
  BY DEF Send, SameApplications, LedgerInv, AppsOk
<1>9. Commits(p)
  BY <1>1, <1>5, <1>6, <1>7, <1>8, AppsOfInv DEF Commits, Ready
<1> QED BY <1>9, LedgerCommits

LEMMA AmountIs ==
  ASSUME LedgerInv, NEW S, S \in SUBSET DOMAIN applications
  PROVE  AmountOf(S) \in Int /\ IsFiniteSet(S)
<1> DEFINE f == [k \in S |-> applications[k].amount]
<1>1. IsFiniteSet(S) /\ IntOn(f, S)
  BY FS_Subset DEF LedgerInv, AppsOk, IntOn
<1>2. AmountOf(S) = SumFunctionOnSet(f, S)
  BY DEF AmountOf, SumFunction
<1> HIDE DEF f
<1> QED BY <1>1, <1>2, SumInt

LEMMA LedgerVoidInvoice ==
  ASSUME ReceivablesAssumption, LedgerInv, NEW p \in Procs, VoidInvoice(p)
  PROVE  LedgerInv'
<1> DEFINE q == Asks(p)
           i == q.invoice
           paidBy(c) == AmountOf({k \in NotesOn(i) : k.credit = c})
           a == [doc[i] EXCEPT !.status = "voided", !.left = 0]
<1>1. Ready(p, q) /\ q.kind = "voidInvoice"
  BY ReadyToCommit DEF VoidInvoice
<1>2. i \in Invoices /\ i \in Docs
  BY <1>1, RequestIs DEF Ready, Docs
<1>3. Written(Sources, i, doc[i]) /\ doc[i].entry \in Sources
  BY <1>2 DEF LedgerInv, DocsOk, Written
<1>4. Books' /\ Sources \subseteq Sources'
  <2>1. entries' = WithEntry(<<"reverse", doc[i].entry>>, Reversal(entries[doc[i].entry]))
    BY DEF VoidInvoice, Asks
  <2>2. FewLines => Balanced(Reversal(entries[doc[i].entry]))
    BY <1>3, ReversalBalances DEF LedgerInv, Books, LedgerOk, Sources
  <2>3. PICK source, e : entries' = WithEntry(source, e) /\ (FewLines => Balanced(e))
    BY <2>1, <2>2
  <2>4. Books' /\ DOMAIN entries' = DOMAIN entries \cup {source}
    BY <2>3, BooksGrow DEF LedgerInv
  <2> QED BY <2>4 DEF Sources
<1>5. DOMAIN doc' = Docs
      /\ \A x \in Docs : doc'[x] = IF x = i THEN a
                                   ELSE IF x \in DOMAIN seen[p] THEN GivenBack(seen[p][x], paidBy(x))
                                   ELSE doc[x]
  BY Zenon DEF VoidInvoice, Asks
<1>6. \A x \in Docs : Written(Sources', x, doc[x]) /\ (doc[x].entry \in Sources => doc[x].entry \in Sources')
  BY <1>4, WrittenStays DEF LedgerInv, DocsOk
<1>7. Kept(Sources', i, a)
  <2> HIDE DEF i
  <2> QED BY <1>2, <1>3, <1>6 DEF Kept, Written, Fields
<1>8. ASSUME NEW x \in DOMAIN seen[p] PROVE Kept(Sources', x, GivenBack(seen[p][x], paidBy(x)))
  <2>1. Kept(Sources, x, seen[p][x])
    BY <1>1 DEF Ready, Kept
  <2>2. Kept(Sources', x, seen[p][x])
    BY <1>4, <2>1, WrittenStays DEF Kept
  <2>3. paidBy(x) \in Int
    <3>1. {k \in NotesOn(i) : k.credit = x} \in SUBSET DOMAIN applications
      BY DEF NotesOn
    <3> QED BY <3>1, AmountIs
  <2> HIDE DEF paidBy
  <2> QED BY <2>2, <2>3, GivenBackKept
<1>9. \A x \in Docs : /\ Written(Sources', x, doc'[x])
                      /\ doc[x].entry \in Sources => doc'[x].entry \in Sources'
  <2> HIDE DEF a, i, paidBy
  <2> QED BY <1>5, <1>6, <1>7, <1>8 DEF Kept
<1>10. SameApplications
  <2>1. applications' = [k \in DOMAIN applications |->
                           [applications[k] EXCEPT !.live = @ /\ k \notin NotesOn(i)]]
    BY DEF VoidInvoice, Asks
  <2>2. \A k \in DOMAIN applications : DOMAIN applications[k] = {"amount", "live"} /\ applications[k].amount \in Int
    BY DEF LedgerInv, AppsOk
  <2> QED BY <2>1, <2>2 DEF SameApplications
<1>11. Commits(p)
  BY <1>1, <1>4, <1>5, <1>9, <1>10, AppsOfInv DEF Commits, Ready
<1> QED BY <1>11, LedgerCommits

(* What a payment takes from each of the credits it uses.                  *)
LEMMA SharesAreNat ==
  ASSUME ReceivablesAssumption, NEW q, IsPayment(q), NEW rows, RowsKnown(q, rows), CanPay(q, rows),
         NEW c \in DOMAIN q.uses
  PROVE  /\ q.uses[c] \in Nat /\ q.uses[c] > 0 /\ q.uses[c] <= TotalSettled(q, rows)
         /\ \A i \in DOMAIN q.lines : ProRata(q, rows, q.uses[c])[i] \in Nat
<1> DEFINE T == q.uses[c]
<1>1. T \in Nat /\ T > 0 /\ (Kind[c] = "note" \/ Kind[c] = "deposit")
  BY LinesAre
<1>2. T <= TotalSettled(q, rows)
  <2>1. CASE Kind[c] = "note"
    <3>1. T <= Used(q, "note") /\ Used(q, "note") \in Nat /\ Used(q, "note") <= TotalSettled(q, rows)
      BY <2>1, UsedIs DEF CanPay
    <3> QED BY <1>1, <3>1, SettlesIs
  <2>2. CASE Kind[c] = "deposit"
    <3>1. T <= Used(q, "deposit") /\ Used(q, "deposit") \in Nat
          /\ Used(q, "deposit") <= TotalSettled(q, rows)
      BY <2>2, UsedIs DEF CanPay
    <3> QED BY <1>1, <3>1, SettlesIs
  <2> QED BY <1>1, <2>1, <2>2
<1> HIDE DEF T
<1>3. \A i \in DOMAIN q.lines : ProRata(q, rows, T)[i] \in Nat
  <2>1. T # 0
    BY <1>1
  <2> QED BY <1>1, <1>2, <2>1, ProRataIs, SpreadIsNat
<1> QED BY <1>1, <1>2, <1>3 DEF T

LEMMA PaymentRowsAre ==
  ASSUME NEW r, NEW q, IsFiniteSet(DOMAIN q.uses), IsFiniteSet(DOMAIN q.lines)
  PROVE  /\ IsFiniteSet(PaymentRows(r, q))
         /\ \A k \in PaymentRows(r, q) : k.credit \in DOMAIN q.uses /\ k.invoice \in DOMAIN q.lines
         /\ \A k \in PaymentRows(r, q) : k = Row(r, k.credit, k.invoice)
<1> DEFINE both == (DOMAIN q.uses) \X (DOMAIN q.lines)
           f == [z \in both |-> Row(r, z[1], z[2])]
<1>1. IsFiniteSet(both)
  BY FS_Product
<1>2. ASSUME NEW c \in DOMAIN q.uses, NEW i \in DOMAIN q.lines
      PROVE  <<c, i>> \in both /\ f[<<c, i>>] = Row(r, c, i)
  OBVIOUS
<1>3. ASSUME NEW z \in both PROVE f[z] \in PaymentRows(r, q)
  BY DEF PaymentRows
<1>4. DOMAIN f = both
  OBVIOUS
<1>5. ASSUME NEW k \in PaymentRows(r, q) PROVE \E z \in both : f[z] = k
  <2>1. PICK c \in DOMAIN q.uses, i \in DOMAIN q.lines : k = Row(r, c, i)
    BY DEF PaymentRows
  <2>2. <<c, i>> \in both /\ f[<<c, i>>] = k
    BY <1>2, <2>1
  <2> HIDE DEF both, f
  <2> QED BY <2>2
<1>6. f \in [both -> PaymentRows(r, q)]
  BY <1>3
<1> HIDE DEF both, f
<1>7. f \in Surjection(both, PaymentRows(r, q))
  BY <1>5, <1>6 DEF Surjection
<1>8. IsFiniteSet(PaymentRows(r, q))
  BY <1>1, <1>7, FS_Surjection
<1> QED BY <1>8 DEF PaymentRows, Row

LEMMA LedgerPay ==
  ASSUME ReceivablesAssumption, LedgerInv, NEW p \in Procs, Pay(p)
  PROVE  LedgerInv'
<1> DEFINE r == job[p].req
           q == Asks(p)
           rows == seen[p]
           source == <<"pay", r>>
           new == NewDeposit(q, rows)
           added == {k \in PaymentRows(r, q) : PaidBy(q, rows, k) > 0}
<1>1. Ready(p, q) /\ q.kind = "pay" /\ CanPay(q, rows)
  <2>1. Committing(p, "pay") /\ CanCommit(p)
    BY DEF Pay
  <2>2. Ready(p, q) /\ q.kind = "pay"
    BY <2>1, ReadyToCommit
  <2> QED BY <2>1, <2>2 DEF CanCommit, Asks
<1>2. /\ IsPayment(q) /\ r \in DOMAIN Request
      /\ DOMAIN q.lines \subseteq Invoices /\ DOMAIN q.uses \subseteq Credits
      /\ IsFiniteSet(DOMAIN q.lines) /\ IsFiniteSet(DOMAIN q.uses)
      /\ DOMAIN q.lines \subseteq DOMAIN rows /\ DOMAIN q.uses \subseteq DOMAIN rows
  BY <1>1, RequestIs, LinesAre DEF Ready, Named
<1>3. RowsKnown(q, rows)
  BY <1>1, <1>2 DEF RowsKnown, Ready, Written
<1>4. Books' /\ Sources' = Sources \cup {source}
  <2>1. entries' = WithEntry(source, PaymentEntry(q, rows))
    BY DEF Pay, Asks
  <2>2. FewLines => ((\E c \in DOMAIN q.uses : Kind[c] = "note") => Cardinality(DOMAIN q.lines) <= 3)
    BY <1>1, <1>2 DEF FewLines, Asks
  <2>3. FewLines => Balanced(PaymentEntry(q, rows))
    BY <1>1, <1>2, <1>3, <2>2, PaymentBalances
  <2>4. PICK e : entries' = WithEntry(source, e) /\ (FewLines => Balanced(e))
    BY <2>1, <2>3
  <2> HIDE DEF source
  <2>5. Books' /\ DOMAIN entries' = DOMAIN entries \cup {source}
    BY <2>4, BooksGrow DEF LedgerInv
  <2> QED BY <2>5 DEF Sources
<1>5. DOMAIN doc' = Docs
      /\ \A x \in Docs :
           doc'[x] = IF x \in DOMAIN q.lines THEN PaidDown(rows[x], Settles(q, rows, x))
                     ELSE IF x \in DOMAIN q.uses THEN Drawn(rows[x], q.uses[x])
                     ELSE IF x = q.makes /\ new > 0
                          THEN [status |-> "open", amount |-> new, left |-> new, entry |-> source]
                     ELSE doc[x]
  BY DEF Pay, Asks
<1>6. \A x \in Docs : Written(Sources', x, doc[x]) /\ (doc[x].entry \in Sources => doc[x].entry \in Sources')
  BY <1>4, WrittenStays DEF LedgerInv, DocsOk
<1>7. ASSUME NEW x \in DOMAIN q.lines PROVE Kept(Sources', x, PaidDown(rows[x], Settles(q, rows, x)))
  <2>1. Kept(Sources, x, rows[x])
    BY <1>1, <1>2 DEF Ready, Kept, Written
  <2>2. Kept(Sources', x, rows[x]) /\ Settles(q, rows, x) \in Int
    BY <1>2, <1>3, <1>4, <2>1, WrittenStays, SettlesIs DEF Kept
  <2> QED BY <2>2, PaidDownKept
<1>8. ASSUME NEW x \in DOMAIN q.uses PROVE Kept(Sources', x, Drawn(rows[x], q.uses[x]))
  <2>1. Kept(Sources, x, rows[x])
    BY <1>1, <1>2 DEF Ready, Kept, Written, CanPay, Open, OffBooks
  <2>2. Kept(Sources', x, rows[x]) /\ q.uses[x] \in Int
    BY <1>2, <1>4, <2>1, WrittenStays, LinesAre DEF Kept
  <2> QED BY <2>2, DrawnKept
<1>9. new \in Int
  <2>1. SumFunction(q.lines) \in Int
    BY <1>2, LinesAre, SumNat DEF SumFunction
  <2>2. TotalSettled(q, rows) \in Int /\ q.extra \in Int
    BY <1>2, <1>3, SettlesIs DEF IsPayment
  <2> QED BY <2>1, <2>2 DEF NewDeposit, Overage
<1>10. \A x \in Docs : /\ Written(Sources', x, doc'[x])
                       /\ doc[x].entry \in Sources => doc'[x].entry \in Sources'
  <2>1. ASSUME NEW x \in Docs, x \notin DOMAIN q.lines, x \notin DOMAIN q.uses, new > 0
        PROVE  Kept(Sources', x, [status |-> "open", amount |-> new, left |-> new, entry |-> source])
    <3> HIDE DEF new, source
    <3> QED BY <1>4, <1>9, <2>1 DEF Kept, Written, Fields
  <2> HIDE DEF q, rows, new, source
  <2> QED BY <1>5, <1>6, <1>7, <1>8, <2>1 DEF Kept
<1>11. IsFiniteSet(added) /\ \A k \in added : k.credit \in DOMAIN q.uses /\ k.invoice \in DOMAIN q.lines
  <2>1. /\ IsFiniteSet(PaymentRows(r, q))
        /\ \A k \in PaymentRows(r, q) : k.credit \in DOMAIN q.uses /\ k.invoice \in DOMAIN q.lines
    BY <1>2, PaymentRowsAre
  <2>2. added \in SUBSET PaymentRows(r, q)
    OBVIOUS
  <2> QED BY <2>1, <2>2, FS_Subset
<1>12. ASSUME NEW k \in added
       PROVE  PaidBy(q, rows, k) \in Int /\ k.credit \in Credits /\ doc'[k.credit].entry \in Sources'
  <2>1. k.credit \in DOMAIN q.uses /\ k.invoice \in DOMAIN q.lines
    BY <1>11
  <2>3. PaidBy(q, rows, k) \in Nat
    BY <1>1, <1>2, <1>3, <2>1, SharesAreNat DEF PaidBy
  <2>4. k.credit \in Credits /\ k.credit \notin Invoices /\ k.credit \in Docs
    <3>1. k.credit \in Credits
      BY <1>2, <2>1
    <3> QED BY <3>1 DEF ReceivablesAssumption, Docs
  <2>5. doc'[k.credit] = Drawn(rows[k.credit], q.uses[k.credit])
    BY <1>2, <1>5, <2>1, <2>4
  <2>6. doc'[k.credit].entry \in Sources'
    BY <1>8, <2>1, <2>5 DEF Kept
  <2> QED BY <2>3, <2>4, <2>6
<1>13. /\ DOMAIN applications \subseteq DOMAIN applications' /\ IsFiniteSet(DOMAIN applications')
       /\ \A k \in DOMAIN applications' :
            /\ k.credit \in Credits
            /\ k \in DOMAIN applications \/ doc'[k.credit].entry \in Sources'
            /\ DOMAIN applications'[k] = {"amount", "live"} /\ applications'[k].amount \in Int
  <2>1. applications' = [k \in DOMAIN applications \cup added |->
                           IF k \in added THEN [amount |-> PaidBy(q, rows, k), live |-> TRUE]
                           ELSE applications[k]]
    BY DEF Pay, Asks
  <2> HIDE DEF added
  <2>2. DOMAIN applications' = DOMAIN applications \cup added
    BY <2>1
  <2>3. IsFiniteSet(DOMAIN applications')
    <3>1. IsFiniteSet(added) /\ IsFiniteSet(DOMAIN applications)
      BY <1>11 DEF LedgerInv, AppsOk
    <3>2. IsFiniteSet(DOMAIN applications \cup added)
      BY <3>1, FS_Union
    <3> QED BY <2>2, <3>2
  <2>4. ASSUME NEW k \in DOMAIN applications'
        PROVE  /\ k.credit \in Credits
               /\ k \in DOMAIN applications \/ doc'[k.credit].entry \in Sources'
               /\ DOMAIN applications'[k] = {"amount", "live"} /\ applications'[k].amount \in Int
    <3>1. CASE k \in added
      <4>1. applications'[k] = [amount |-> PaidBy(q, rows, k), live |-> TRUE]
        BY <2>1, <3>1
      <4> QED BY <1>12, <3>1, <4>1
    <3>2. CASE k \notin added
      BY <2>1, <2>2, <3>2 DEF LedgerInv, AppsOk
    <3> QED BY <3>1, <3>2
  <2> QED BY <2>2, <2>3, <2>4
<1>14. Commits(p)
  BY <1>1, <1>4, <1>5, <1>10, <1>13 DEF Commits, Ready
<1> QED BY <1>14, LedgerCommits

-----------------------------------------------------------------------------
LEMMA LedgerRefuse ==
  ASSUME ReceivablesAssumption, LedgerInv, NEW p \in Procs, Refuse(p) \/ Crash(p)
  PROVE  LedgerInv'
<1>1. End(p) /\ todo' \subseteq todo /\ UNCHANGED <<doc, applications, settled, entries>>
  BY DEF Refuse, Crash, tables
<1>2. Books' /\ Sources' = Sources /\ SameApplications
  BY <1>1 DEF LedgerInv, Books, LedgerOk, Sources, SameApplications, AppsOk
<1>3. Commits(p)
  BY <1>1, <1>2, AppsOfInv DEF Commits, LedgerInv, DocsOk
<1> QED BY <1>3, LedgerCommits

LEMMA LedgerBegins ==
  ASSUME ReceivablesAssumption, LedgerInv, NEW p \in Procs, BeginAny(p)
  PROVE  LedgerInv'
<1>1. PICK r \in todo :
        \/ BeginPost(p, r) \/ BeginApply(p, r) \/ BeginUnapply(p, r) \/ BeginVoid(p, r)
        \/ BeginPay(p, r) \/ BeginVoidInvoice(p, r) \/ BeginSend(p, r)
  BY DEF BeginAny
<1>2. CASE BeginUnapply(p, r)
  <2>1. PICK k \in DOMAIN applications : k.credit = Request[r].credit /\ Begin(p, r, k)
    BY <1>2 DEF BeginUnapply
  <2>2. Request[r].kind = "unapply"
    BY <1>2 DEF BeginUnapply
  <2> QED BY <2>1, <2>2, LedgerBegin
<1>3. CASE ~BeginUnapply(p, r)
  <2>1. /\ Begin(p, r, None) /\ Request[r].kind # "unapply"
        /\ Request[r].kind = "apply" => Open(doc[Request[r].credit])
    BY <1>1, <1>3 DEF BeginPost, BeginApply, BeginVoid, BeginPay, BeginVoidInvoice, BeginSend
  <2> QED BY <2>1, LedgerBegin
<1> QED BY <1>2, <1>3

LEMMA LedgerStep ==
  ASSUME ReceivablesAssumption, LedgerInv, [Next]_vars
  PROVE  LedgerInv'
<1>1. CASE UNCHANGED vars
  BY <1>1 DEF vars, tables, LedgerInv, Books, LedgerOk, DocsOk, AppsOk, JobsOk, JobOk, Asks, Sources
<1>2. ASSUME NEW p \in Procs, BeginAny(p) \/ Enter(p) \/ Commit(p) \/ Refuse(p) \/ Crash(p)
      PROVE  LedgerInv'
  <2>1. CASE BeginAny(p)
    BY <2>1, LedgerBegins
  <2>2. CASE Enter(p)
    BY <2>2, LedgerEnter
  <2>3. CASE Commit(p)
    BY <2>3, LedgerPost, LedgerApplyCredit, LedgerApplyNote, LedgerUnapply, LedgerVoidCredit,
       LedgerPay, LedgerVoidInvoice, LedgerSend DEF Commit
  <2>4. CASE Refuse(p) \/ Crash(p)
    BY <2>4, LedgerRefuse
  <2> QED BY <1>2, <2>1, <2>2, <2>3, <2>4
<1> QED BY <1>1, <1>2 DEF Next

(* Whatever is posted, paid, applied, given back and voided, and however   *)
(* the requests interleave, the debits of the ledger are its credits, as   *)
(* the table of recordReceivePaymentAllocations says, while credit notes   *)
(* are spread over at most three invoices.                                 *)
THEOREM LedgerAlwaysBalances == FewLines => (Spec => []LedgerBalances)
<1> SUFFICES ASSUME FewLines PROVE Spec => []LedgerBalances
  OBVIOUS
<1>1. Init => LedgerInv
  BY ReceivablesAssumption, LedgerInit
<1>2. LedgerInv /\ [Next]_vars => LedgerInv'
  BY ReceivablesAssumption, LedgerStep
<1>3. LedgerInv => LedgerBalances
  BY BalancedLedger DEF LedgerInv, Books
<1> QED BY <1>1, <1>2, <1>3, PTL DEF Spec
-----------------------------------------------------------------------------
(* What is applied of a credit, from the application rows.                 *)

LiveOf(apps, c) == {k \in DOMAIN apps : apps[k].live /\ k.credit = c}
AmountsOf(apps) == [k \in DOMAIN apps |-> apps[k].amount]
AppliedTo(apps, c) == SumFunctionOnSet(AmountsOf(apps), LiveOf(apps, c))

RowsOf(S, c) == {k \in S : k.credit = c}

AppsSound(apps) == IsFiniteSet(DOMAIN apps) /\ \A k \in DOMAIN apps : apps[k].amount \in Int

LEMMA AppliedIs ==
  ASSUME NEW apps, AppsSound(apps), NEW c
  PROVE  /\ IsFiniteSet(LiveOf(apps, c)) /\ IntOn(AmountsOf(apps), LiveOf(apps, c))
         /\ \A k \in LiveOf(apps, c) : AmountsOf(apps)[k] = apps[k].amount
         /\ AppliedTo(apps, c) \in Int
         /\ LiveOf(apps, c) = {} => AppliedTo(apps, c) = 0
<1>1. LiveOf(apps, c) \in SUBSET DOMAIN apps
  BY DEF LiveOf
<1>2. IsFiniteSet(LiveOf(apps, c))
  BY <1>1, FS_Subset DEF AppsSound
<1>3. \A k \in LiveOf(apps, c) : AmountsOf(apps)[k] = apps[k].amount /\ apps[k].amount \in Int
  BY <1>1 DEF AppsSound, AmountsOf
<1>4. IntOn(AmountsOf(apps), LiveOf(apps, c))
  BY <1>3 DEF IntOn
<1> QED BY <1>2, <1>3, <1>4, SumInt, SumEmpty DEF AppliedTo

(* The rows of A are added.                                                *)
More(apps, A, new) ==
  /\ A \cap DOMAIN apps = {} /\ IsFiniteSet(A) /\ DOMAIN new = DOMAIN apps \cup A
  /\ \A k \in DOMAIN apps : new[k] = apps[k]
  /\ \A k \in A : new[k].live = TRUE /\ new[k].amount \in Int

LEMMA AppliedMore ==
  ASSUME NEW apps, AppsSound(apps), NEW A, NEW new, More(apps, A, new), NEW c
  PROVE  /\ AppsSound(new) /\ LiveOf(new, c) = LiveOf(apps, c) \cup RowsOf(A, c)
         /\ IsFiniteSet(RowsOf(A, c)) /\ IntOn(AmountsOf(new), RowsOf(A, c))
         /\ AppliedTo(new, c) = AppliedTo(apps, c) + SumFunctionOnSet(AmountsOf(new), RowsOf(A, c))
         /\ RowsOf(A, c) = {} => AppliedTo(new, c) = AppliedTo(apps, c)
<1> DEFINE L == LiveOf(apps, c)
           R == RowsOf(A, c)
           U == LiveOf(new, c)
           f == AmountsOf(apps)
           g == AmountsOf(new)
<1>1. AppsSound(new)
  <2>1. IsFiniteSet(DOMAIN apps \cup A)
    BY FS_Union DEF AppsSound, More
  <2>2. \A k \in DOMAIN new : new[k].amount \in Int
    BY DEF More, AppsSound
  <2> QED BY <2>1, <2>2 DEF More, AppsSound
<1>2. R \in SUBSET A /\ IsFiniteSet(R)
  <2>1. R \in SUBSET A
    BY DEF RowsOf
  <2> QED BY <2>1, FS_Subset DEF More
<1>3. U = L \cup R /\ L \cap R = {}
  BY DEF LiveOf, RowsOf, More
<1>4. /\ IsFiniteSet(L) /\ IntOn(f, L) /\ IntOn(g, U)
      /\ AppliedTo(apps, c) = SumFunctionOnSet(f, L) /\ AppliedTo(new, c) = SumFunctionOnSet(g, U)
      /\ AppliedTo(apps, c) \in Int
  BY <1>1, AppliedIs DEF AppliedTo
<1>5. \A k \in L : f[k] = g[k]
  BY DEF LiveOf, AmountsOf, More
<1> HIDE DEF L, R, U, f, g
<1>6. IntOn(g, L) /\ IntOn(g, R)
  BY <1>3, <1>4 DEF IntOn
<1>7. SumFunctionOnSet(g, U) = SumFunctionOnSet(g, L) + SumFunctionOnSet(g, R)
  BY <1>2, <1>3, <1>4, <1>6, SumUnion
<1>8. SumFunctionOnSet(g, L) = SumFunctionOnSet(f, L)
  BY <1>4, <1>5, SumSame
<1>9. R = {} => SumFunctionOnSet(g, R) = 0
  BY SumEmpty
<1>10. AppliedTo(new, c) = AppliedTo(apps, c) + SumFunctionOnSet(g, R)
  BY <1>4, <1>7, <1>8
<1>11. R = {} => AppliedTo(new, c) = AppliedTo(apps, c)
  BY <1>4, <1>9, <1>10
<1> QED BY <1>1, <1>2, <1>3, <1>6, <1>10, <1>11 DEF L, R, U, g

(* The rows of N are undone.                                               *)
Less(apps, N, new) ==
  /\ N \subseteq DOMAIN apps /\ (\A k \in N : apps[k].live) /\ DOMAIN new = DOMAIN apps
  /\ \A k \in DOMAIN apps : /\ new[k].amount = apps[k].amount
                            /\ new[k].live <=> apps[k].live /\ k \notin N

LEMMA AppliedLess ==
  ASSUME NEW apps, AppsSound(apps), NEW N, NEW new, Less(apps, N, new), NEW c
  PROVE  /\ AppsSound(new) /\ LiveOf(new, c) \subseteq LiveOf(apps, c)
         /\ IsFiniteSet(RowsOf(N, c)) /\ IntOn(AmountsOf(apps), RowsOf(N, c))
         /\ RowsOf(N, c) \subseteq LiveOf(apps, c)
         /\ AppliedTo(new, c) = AppliedTo(apps, c) - SumFunctionOnSet(AmountsOf(apps), RowsOf(N, c))
         /\ RowsOf(N, c) = {} => AppliedTo(new, c) = AppliedTo(apps, c) /\ LiveOf(new, c) = LiveOf(apps, c)
<1> DEFINE L == LiveOf(apps, c)
           R == RowsOf(N, c)
           U == LiveOf(new, c)
           f == AmountsOf(apps)
           g == AmountsOf(new)
<1>1. AppsSound(new)
  BY DEF Less, AppsSound
<1>2. L = U \cup R /\ U \cap R = {}
  BY DEF LiveOf, RowsOf, Less
<1>3. /\ IsFiniteSet(L) /\ IsFiniteSet(U) /\ IntOn(f, L) /\ IntOn(g, U)
      /\ AppliedTo(apps, c) = SumFunctionOnSet(f, L) /\ AppliedTo(new, c) = SumFunctionOnSet(g, U)
      /\ AppliedTo(new, c) \in Int /\ AppliedTo(apps, c) \in Int
  BY <1>1, AppliedIs DEF AppliedTo
<1>4. \A k \in U : g[k] = f[k]
  BY DEF LiveOf, AmountsOf, Less
<1> HIDE DEF L, R, U, f, g
<1>5. IsFiniteSet(R) /\ IntOn(f, U) /\ IntOn(f, R)
  <2>1. R \in SUBSET L
    BY <1>2
  <2> QED BY <1>2, <1>3, <2>1, FS_Subset DEF IntOn
<1>6. SumFunctionOnSet(f, L) = SumFunctionOnSet(f, U) + SumFunctionOnSet(f, R)
  BY <1>2, <1>3, <1>5, SumUnion
<1>7. SumFunctionOnSet(g, U) = SumFunctionOnSet(f, U)
  BY <1>3, <1>4, SumSame
<1>8. SumFunctionOnSet(f, R) \in Int /\ SumFunctionOnSet(f, U) \in Int
  BY <1>3, <1>5, SumInt
<1>9. R = {} => SumFunctionOnSet(f, R) = 0
  BY SumEmpty
<1>10. AppliedTo(new, c) = AppliedTo(apps, c) - SumFunctionOnSet(f, R)
  BY <1>3, <1>6, <1>7, <1>8
<1>11. R = {} => AppliedTo(new, c) = AppliedTo(apps, c) /\ U = L
  BY <1>2, <1>3, <1>9, <1>10
<1> QED BY <1>1, <1>2, <1>5, <1>10, <1>11 DEF L, R, U, f

(* One row.                                                                *)
LEMMA SumOfOne ==
  ASSUME NEW f, NEW k, f[k] \in Int, NEW S, S = {k}
  PROVE  SumFunctionOnSet(f, S) = f[k]
<1>1. PICK none : none = {}
  OBVIOUS
<1>2. IsFiniteSet(none) /\ SumFunctionOnSet(f, none) = 0 /\ IntOn(f, none) /\ k \notin none
  BY <1>1, SumEmpty, FS_EmptySet DEF IntOn
<1>3. S = none \cup {k}
  BY <1>1
<1>4. SumFunctionOnSet(f, S) = SumFunctionOnSet(f, none) + f[k]
  BY <1>2, <1>3, SumGrows
<1> QED BY <1>2, <1>4

LEMMA AppliedOneMore ==
  ASSUME NEW apps, AppsSound(apps), NEW row, row \notin DOMAIN apps, NEW new, NEW a \in Int,
         DOMAIN new = DOMAIN apps \cup {row}, \A k \in DOMAIN apps : new[k] = apps[k],
         new[row] = [amount |-> a, live |-> TRUE], NEW c
  PROVE  /\ AppsSound(new) /\ (row.credit # c => LiveOf(new, c) = LiveOf(apps, c))
         /\ AppliedTo(new, c) = IF row.credit = c THEN AppliedTo(apps, c) + a ELSE AppliedTo(apps, c)
<1>1. PICK A : A = {row}
  OBVIOUS
<1>2. More(apps, A, new)
  <2>1. IsFiniteSet(A)
    BY <1>1, FS_Singleton
  <2>2. new[row].live = TRUE /\ new[row].amount \in Int
    OBVIOUS
  <2>3. \A k \in A : new[k].live = TRUE /\ new[k].amount \in Int
    BY <1>1, <2>2
  <2> QED BY <1>1, <2>1, <2>3 DEF More
<1>3. RowsOf(A, c) = IF row.credit = c THEN A ELSE {}
  BY <1>1 DEF RowsOf
<1>4. SumFunctionOnSet(AmountsOf(new), A) = a
  <2>1. AmountsOf(new)[row] = a
    BY DEF AmountsOf
  <2> QED BY <1>1, <2>1, SumOfOne
<1>5. /\ AppsSound(new) /\ LiveOf(new, c) = LiveOf(apps, c) \cup RowsOf(A, c)
      /\ AppliedTo(new, c) = AppliedTo(apps, c) + SumFunctionOnSet(AmountsOf(new), RowsOf(A, c))
      /\ RowsOf(A, c) = {} => AppliedTo(new, c) = AppliedTo(apps, c)
  BY <1>2, AppliedMore
<1>6. CASE row.credit = c
  <2>1. RowsOf(A, c) = A
    BY <1>3, <1>6
  <2> QED BY <1>4, <1>5, <1>6, <2>1
<1>7. CASE row.credit # c
  <2>1. RowsOf(A, c) = {}
    BY <1>3, <1>7
  <2> QED BY <1>5, <1>7, <2>1
<1> QED BY <1>6, <1>7

LEMMA AppliedOneLess ==
  ASSUME NEW apps, AppsSound(apps), NEW k \in DOMAIN apps, apps[k].live, NEW new,
         DOMAIN new = DOMAIN apps, \A j \in DOMAIN apps : new[j].amount = apps[j].amount,
         \A j \in DOMAIN apps : new[j].live <=> apps[j].live /\ j # k, NEW c
  PROVE  /\ AppsSound(new) /\ (k.credit # c => LiveOf(new, c) = LiveOf(apps, c))
         /\ AppliedTo(new, c)
              = IF k.credit = c THEN AppliedTo(apps, c) - apps[k].amount ELSE AppliedTo(apps, c)
<1>1. PICK N : N = {k}
  OBVIOUS
<1>2. Less(apps, N, new)
  BY <1>1 DEF Less
<1>3. RowsOf(N, c) = IF k.credit = c THEN N ELSE {}
  BY <1>1 DEF RowsOf
<1>4. SumFunctionOnSet(AmountsOf(apps), N) = apps[k].amount
  <2>1. AmountsOf(apps)[k] = apps[k].amount /\ apps[k].amount \in Int
    BY DEF AmountsOf, AppsSound
  <2> QED BY <1>1, <2>1, SumOfOne
<1> QED BY <1>2, <1>3, <1>4, AppliedLess
-----------------------------------------------------------------------------
(* What each credit owes to its applications.                              *)

OnBooks == {"open", "part", "full"}

CreditOk(c, row, apps) ==
  IF row.status \in OnBooks
  THEN /\ row.left = row.amount - AppliedTo(apps, c)
       /\ Kind[c] # "note" /\ row.status = "open" => row.left = row.amount
  ELSE row.status \in OffBooks /\ LiveOf(apps, c) = {}

CreditsOk == \A c \in Credits : CreditOk(c, doc[c], applications)

(* Receipts and deposits are applied in whole cents, not in nothing.       *)
Counts(apps) == \A k \in DOMAIN apps : Kind[k.credit] # "note" => apps[k].amount > 0

(* A credit is posted once, or made by a payment.                          *)
PostedOnce ==
  \A c \in Credits : doc[c].status \in OnBooks => c \in Created \/ <<"post", c>> \in Sources

NoDrafts ==
  \A c \in Created :
    /\ doc[c].status # "draft"
    /\ \A p \in Procs : c \in DOMAIN seen[p] => seen[p][c].status # "draft"

(* What is still to be made.                                               *)
NotMade == \A r \in todo : Request[r].kind = "pay" /\ Request[r].makes # None =>
                             doc[Request[r].makes].status = "none"

Pending ==
  /\ \E workload \in Workloads : todo \subseteq workload
  /\ \A k \in DOMAIN applications : k.req \notin todo

(* Requests in progress are different ones, that users bring together.     *)
Together ==
  \A p \in Procs : job[p] # Idle =>
    /\ job[p].req \in todo
    /\ \A o \in Procs \ {p} : job[o] # Idle =>
         job[o].req # job[p].req /\ {Asks(o).kind, Asks(p).kind} \in Overlap

(* The rows that Locks names, whatever the applications.                   *)
Locked(q) ==
  CASE q.kind = "pay"         -> Named(q)
    [] q.kind = "voidInvoice" -> {q.invoice}
    [] q.kind = "post"        -> IF Kind[q.credit] = "note" THEN Named(q) ELSE {}
    [] q.kind = "apply"       -> IF Kind[q.credit] = "note" THEN {q.invoice} ELSE {}
    [] OTHER                  -> {}

Held(p) == job[p].stage = "entered" => \A x \in Locked(Asks(p)) : lock[x] = p

(* What a request read of the credits still stands.                        *)
Fresh(p) ==
  LET q == Asks(p)
  IN CASE q.kind = "apply" ->
            Open(seen[p][q.credit]) /\ q.amount <= seen[p][q.credit].left /\ seen[p][q.credit] = doc[q.credit]
       [] q.kind = "unapply" ->
            /\ seen[p][q.credit] = doc[q.credit]
            /\ job[p].app \in LiveOf(applications, q.credit)
       [] q.kind = "void" ->
            /\ seen[p][q.credit].status \in {"draft", "open"}
            /\ seen[p][q.credit] = doc[q.credit] \/ doc[q.credit].status = "voided"
            /\ Kind[q.credit] = "note" => LiveOf(applications, q.credit) = {}
       [] q.kind = "pay" ->
            job[p].stage = "entered" =>
              \A c \in DOMAIN q.uses : seen[p][c] = doc[c] \/ seen[p][c].status = "none"
       [] q.kind = "voidInvoice" ->
            job[p].stage = "entered" =>
              /\ \A k \in NotesOn(q.invoice) : k.credit \in DOMAIN seen[p]
              /\ \A c \in DOMAIN seen[p] \ {q.invoice} :
                   seen[p][c] = doc[c] /\ \E k \in NotesOn(q.invoice) : k.credit = c
       [] OTHER -> TRUE

CreditInv ==
  /\ LedgerInv /\ CreditsOk /\ Counts(applications) /\ PostedOnce /\ NoDrafts /\ NotMade
  /\ Pending /\ Together /\ \A p \in Procs : job[p] # Idle => Held(p) /\ Fresh(p)

(* The requests brought together leave one another's credits alone.        *)
CreditsApart ==
  /\ Overlap \subseteq {{"pay"}, {"post"}, {"void"}, {"voidInvoice"}, {"pay", "post"},
                       {"voidInvoice", "post"}, {"voidInvoice", "void"}}
                        \cup {{"send", kind} : kind \in Kinds}
  /\ \A workload \in Workloads : \A r, s \in workload :
       /\ Request[r].kind = "voidInvoice" /\ Request[s].kind = "voidInvoice" =>
            Request[r].invoice = Request[s].invoice
       /\ r # s /\ Request[r].kind = "pay" /\ Request[s].kind = "pay" /\ Request[r].makes # None =>
            Request[r].makes # Request[s].makes

LEMMA RowsSound ==
  ASSUME LedgerInv
  PROVE  AppsSound(applications)
BY DEF LedgerInv, AppsOk, AppsSound

LEMMA CreditLike ==
  ASSUME NEW c, NEW row, NEW apps, CreditOk(c, row, apps), NEW row2, NEW new,
         row2.status = row.status, row2.left = row.left, row2.amount = row.amount,
         LiveOf(new, c) = LiveOf(apps, c), AppliedTo(new, c) = AppliedTo(apps, c)
  PROVE  CreditOk(c, row2, new)
BY DEF CreditOk

(* What is drawn of a credit is applied.                                   *)
LEMMA CreditDrawn ==
  ASSUME NEW E, NEW c, NEW row, Written(E, c, row), NEW apps, CreditOk(c, row, apps),
         row.status \in OnBooks, AppliedTo(apps, c) \in Int, NEW a \in Int, a <= row.left,
         NEW new, AppliedTo(new, c) = AppliedTo(apps, c) + a
  PROVE  /\ CreditOk(c, Drawn(row, a), new) /\ Drawn(row, a).status \in OnBooks
         /\ Drawn(row, a).amount = row.amount
         /\ Kind[c] = "note" => /\ CreditOk(c, DrawnByNote(row, a), new)
                               /\ DrawnByNote(row, a).status \in OnBooks
                               /\ DrawnByNote(row, a).amount = row.amount
BY DEF CreditOk, Drawn, DrawnByNote, Written, Fields, OnBooks

LEMMA CreditBack ==
  ASSUME NEW E, NEW c, NEW row, Written(E, c, row), NEW apps, CreditOk(c, row, apps),
         row.status \in OnBooks, AppliedTo(apps, c) \in Int, NEW a \in Int,
         NEW new, AppliedTo(new, c) = AppliedTo(apps, c) - a
  PROVE  /\ CreditOk(c, GivenBack(row, a), new) /\ GivenBack(row, a).status \in OnBooks
         /\ GivenBack(row, a).amount = row.amount
BY DEF CreditOk, GivenBack, Written, Fields, OnBooks

LEMMA CreditPosted ==
  ASSUME ReceivablesAssumption, NEW c \in Credits, NEW apps, LiveOf(apps, c) = {}, AppsSound(apps)
  PROVE  /\ CreditOk(c, PostedRow(c), apps) /\ PostedRow(c).status \in OnBooks
         /\ PostedRow(c).left = Amount[c] /\ PostedRow(c).amount = Amount[c] /\ Amount[c] \in Nat
<1>1. Amount[c] \in Nat /\ AppliedTo(apps, c) = 0
  BY AppliedIs DEF ReceivablesAssumption, Docs
<1> QED BY <1>1 DEF CreditOk, PostedRow, OnBooks

(* Nothing of an open deposit or receipt is applied.                       *)
LEMMA OpenIsUnused ==
  ASSUME NEW E, NEW c, NEW row, Written(E, c, row), NEW apps, CreditOk(c, row, apps),
         AppsSound(apps), Counts(apps), Kind[c] # "note", row.status = "open"
  PROVE  LiveOf(apps, c) = {}
<1> DEFINE L == LiveOf(apps, c)
           f == AmountsOf(apps)
<1>1. IsFiniteSet(L) /\ IntOn(f, L) /\ (\A k \in L : f[k] = apps[k].amount)
      /\ AppliedTo(apps, c) = SumFunctionOnSet(f, L) /\ AppliedTo(apps, c) \in Int
  BY AppliedIs DEF AppliedTo
<1>2. AppliedTo(apps, c) = 0
  BY <1>1 DEF CreditOk, Written, OnBooks
<1>3. \A k \in L : f[k] \in Int /\ f[k] > 0
  BY <1>1 DEF LiveOf, Counts, IntOn
<1> HIDE DEF L, f
<1>4. NatOn(f, L)
  BY <1>3 DEF NatOn
<1>5. ASSUME NEW k \in L PROVE FALSE
  <2>1. f[k] <= SumFunctionOnSet(f, L)
    BY <1>1, <1>4, SumCovers
  <2> QED BY <1>1, <1>2, <1>3, <2>1
<1> QED BY <1>5 DEF L

-----------------------------------------------------------------------------
(* The steps.                                                              *)

LEMMA CreditInit ==
  ASSUME ReceivablesAssumption, Init
  PROVE  CreditInv
<1>1. /\ DOMAIN applications = {} /\ todo \in Workloads
      /\ \A p \in Procs : job[p] = Idle /\ DOMAIN seen[p] = {}
  BY DEF Init, NothingSeen
<1>2. ASSUME NEW c \in Credits
      PROVE  doc[c].status = IF c \in Created THEN "none" ELSE "draft"
  BY DEF Init, Docs, ReceivablesAssumption
<1>3. LedgerInv
  BY LedgerInit
<1>4. \A c \in Credits : LiveOf(applications, c) = {}
  BY <1>1 DEF LiveOf
<1>5. CreditsOk /\ PostedOnce
  BY <1>2, <1>4 DEF CreditsOk, CreditOk, PostedOnce, OnBooks, OffBooks
<1>6. \A c \in Created : c \in Credits
  BY DEF ReceivablesAssumption
<1>7. NoDrafts
  BY <1>1, <1>2, <1>6 DEF NoDrafts
<1>8. NotMade
  <2>1. ASSUME NEW r \in todo, Request[r].kind = "pay", Request[r].makes # None
        PROVE  doc[Request[r].makes].status = "none"
    <3>1. r \in DOMAIN Request
      BY <1>3 DEF LedgerInv
    <3>2. Request[r].makes \in Created
      BY <2>1, <3>1 DEF ReceivablesAssumption
    <3> QED BY <1>2, <1>6, <3>2
  <2> QED BY <2>1 DEF NotMade
<1>9. Counts(applications) /\ Pending /\ Together
  BY <1>1 DEF Counts, Pending, Together
<1> QED BY <1>1, <1>3, <1>5, <1>7, <1>8, <1>9 DEF CreditInv

(* The requests that may be in progress beside one that commits.           *)
Beside(kind, other) ==
  \/ kind = "send" \/ other = "send"
  \/ {kind, other} \subseteq {"pay", "post"} \/ {kind, other} \subseteq {"void", "voidInvoice"}
  \/ {kind, other} \subseteq {"post", "voidInvoice"} 

LEMMA BesideOthers ==
  ASSUME CreditsApart, CreditInv, NEW p \in Procs, NEW o \in Procs \ {p}, job[p] # Idle, job[o] # Idle
  PROVE  /\ job[o].req # job[p].req /\ Beside(Asks(p).kind, Asks(o).kind)
         /\ job[p].req \in todo /\ job[o].req \in todo
         /\ Asks(p).kind = "voidInvoice" /\ Asks(o).kind = "voidInvoice" =>
              Asks(p).invoice = Asks(o).invoice
         /\ job[p].req \in DOMAIN Request /\ job[o].req \in DOMAIN Request
<1>1. /\ job[p].req \in todo /\ job[o].req \in todo /\ job[o].req # job[p].req
      /\ {Asks(o).kind, Asks(p).kind} \in Overlap
  BY DEF CreditInv, Together
<1> DEFINE k == Asks(p).kind
           m == Asks(o).kind
           pair == {m, k}
<1>2. \/ pair \in {{"pay"}, {"post"}, {"void"}, {"voidInvoice"}, {"pay", "post"},
                   {"voidInvoice", "post"}, {"voidInvoice", "void"}}
      \/ \E kind \in Kinds : pair = {"send", kind}
  BY <1>1 DEF CreditsApart
<1>3. Beside(k, m)
  <2> HIDE DEF k, m
  <2>1. CASE \E kind \in Kinds : pair = {"send", kind}
    <3>1. "send" \in pair
      BY <2>1
    <3> QED BY <3>1 DEF Beside
  <2>2. CASE pair \in {{"pay"}, {"post"}, {"void"}, {"voidInvoice"}, {"pay", "post"},
                      {"voidInvoice", "post"}, {"voidInvoice", "void"}}
    <3>1. \/ pair \subseteq {"pay", "post"} \/ pair \subseteq {"void", "voidInvoice"}
          \/ pair \subseteq {"post", "voidInvoice"}
      BY <2>2
    <3>2. pair = {k, m}
      OBVIOUS
    <3> QED BY <3>1, <3>2 DEF Beside
  <2> QED BY <1>2, <2>1, <2>2
<1>4. PICK workload \in Workloads : todo \subseteq workload
  BY DEF CreditInv, Pending
<1>5. k = "voidInvoice" /\ m = "voidInvoice" => Asks(p).invoice = Asks(o).invoice
  BY <1>1, <1>4 DEF CreditsApart, Asks
<1>6. todo \subseteq DOMAIN Request
  BY DEF CreditInv, LedgerInv
<1> QED BY <1>1, <1>3, <1>5, <1>6

LEMMA LockedIs ==
  ASSUME NEW q
  PROVE  Locks(q) = Locked(q) /\ (ReadsInside(q) = {} => Locked(q) = {})
BY DEF Locks, Locked, Touched, Named, ReadsInside

LEMMA CreditBegin ==
  ASSUME ReceivablesAssumption, CreditInv, LedgerInv', NEW p \in Procs, NEW r \in todo, NEW app,
         Begin(p, r, app), NEW q, q = Request[r],
         q.kind = "apply" => Open(doc[q.credit]) /\ q.amount <= doc[q.credit].left,
         q.kind = "unapply" => app \in LiveOf(applications, q.credit),
         q.kind = "void" => /\ doc[q.credit].status \in {"draft", "open"}
                            /\ Kind[q.credit] = "note" => LiveOf(applications, q.credit) = {}
  PROVE  CreditInv'
<1>1. r \in DOMAIN Request /\ UNCHANGED <<doc, applications, settled, entries, lock, todo>>
  BY DEF CreditInv, LedgerInv, Begin, tables
<1>2. Touched(q) \subseteq Docs /\ (q.kind = "pay" => DOMAIN q.uses \subseteq Touched(q))
      /\ (q.kind \in {"apply", "unapply", "void"} => q.credit \in Touched(q))
  <2>1. Touched(q) \subseteq Docs
    BY <1>1, NamedIs DEF CreditInv, LedgerInv
  <2> QED BY <2>1 DEF Touched
<1>3. DOMAIN job = Procs /\ DOMAIN seen = Procs
  BY DEF CreditInv, LedgerInv, JobsOk
<1>4. /\ job[p] = Idle /\ job'[p] # Idle
      /\ job'[p].req = r /\ job'[p].app = app /\ seen'[p] = [x \in Touched(q) |-> doc[x]]
      /\ job'[p].stage = IF ReadsInside(q) = {} THEN "entered" ELSE "begun"
      /\ \A o \in Procs \ {p} : job'[o] = job[o] /\ seen'[o] = seen[o]
      /\ \A o \in Procs : job[o] # Idle =>
           job[o].req # r /\ {Request[job[o].req].kind, q.kind} \in Overlap
  BY <1>3 DEF Begin, Idle
<1>5. CreditsOk' /\ Counts(applications)' /\ PostedOnce' /\ NotMade' /\ Pending'
  BY <1>1 DEF CreditInv, CreditsOk, Counts, PostedOnce, Sources, NotMade, Pending
<1>6. NoDrafts'
  <2>1. ASSUME NEW c \in Created
        PROVE  doc[c].status # "draft" /\ \A o \in Procs : c \in DOMAIN seen[o] => seen[o][c].status # "draft"
    BY DEF CreditInv, NoDrafts
  <2>2. ASSUME NEW c \in Created, NEW o \in Procs, c \in DOMAIN seen'[o]
        PROVE  seen'[o][c].status # "draft"
    <3>1. CASE o = p
      BY <1>4, <2>1, <2>2, <3>1
    <3>2. CASE o # p
      BY <1>4, <2>1, <2>2, <3>2
    <3> QED BY <3>1, <3>2
  <2> QED BY <1>1, <2>1, <2>2 DEF NoDrafts
<1>7. Together'
  <2>1. \A x, y : {x, y} = {y, x}
    OBVIOUS
  <2>2. ASSUME NEW o \in Procs, job'[o] # Idle
        PROVE  /\ job'[o].req \in todo
               /\ \A s \in Procs \ {o} : job'[s] # Idle =>
                    /\ job'[s].req # job'[o].req
                    /\ {Request[job'[s].req].kind, Request[job'[o].req].kind} \in Overlap
    <3>1. CASE o = p
      BY <1>4, <3>1
    <3>2. CASE o # p
      <4>1. job'[o] = job[o] /\ job[o] # Idle
        BY <1>4, <2>2, <3>2
      <4>2. /\ job[o].req \in todo
            /\ \A s \in Procs \ {o} : job[s] # Idle =>
                 job[s].req # job[o].req /\ {Asks(s).kind, Asks(o).kind} \in Overlap
        BY <4>1 DEF CreditInv, Together
      <4>3. ASSUME NEW s \in Procs \ {o}, job'[s] # Idle
            PROVE  /\ job'[s].req # job'[o].req
                   /\ {Request[job'[s].req].kind, Request[job'[o].req].kind} \in Overlap
        <5>1. CASE s = p
          <6>1. job[o].req # r /\ {Request[job[o].req].kind, q.kind} \in Overlap
            BY <1>4, <4>1
          <6>2. {q.kind, Request[job[o].req].kind} \in Overlap
            BY <2>1, <6>1
          <6> QED BY <1>4, <4>1, <5>1, <6>1, <6>2
        <5>2. CASE s # p
          <6>1. job'[s] = job[s] /\ job[s] # Idle
            BY <1>4, <4>3, <5>2
          <6>2. job[s].req # job[o].req /\ {Asks(s).kind, Asks(o).kind} \in Overlap
            BY <4>2, <4>3, <6>1
          <6> QED BY <4>1, <6>1, <6>2 DEF Asks
        <5> QED BY <5>1, <5>2
      <4> QED BY <4>1, <4>2, <4>3
    <3> QED BY <3>1, <3>2
  <2> QED BY <1>1, <2>2 DEF Together, Asks
<1>8. Held(p)'
  <2>1. Asks(p)' = q
    BY <1>4 DEF Asks
  <2>2. ReadsInside(q) = {} => Locked(q) = {}
    BY LockedIs
  <2> QED BY <1>4, <2>1, <2>2 DEF Held
<1>9. Fresh(p)'
  <2>1. q.kind = "voidInvoice" => ReadsInside(q) # {}
    BY DEF ReadsInside, Touched
  <2>2. Asks(p)' = q /\ doc' = doc /\ applications' = applications
    BY <1>1, <1>4 DEF Asks
  <2>3. \A x \in Touched(q) : seen'[p][x] = doc[x]
    BY <1>4
  <2> QED BY <1>2, <1>4, <2>1, <2>2, <2>3 DEF Fresh
<1>10. ASSUME NEW o \in Procs \ {p}, job'[o] # Idle PROVE Held(o)' /\ Fresh(o)'
  <2>1. Held(o) /\ Fresh(o) /\ job'[o] = job[o] /\ seen'[o] = seen[o]
    BY <1>4, <1>10 DEF CreditInv
  <2>2. Asks(o)' = Asks(o) /\ doc' = doc /\ applications' = applications /\ lock' = lock
    BY <1>1, <2>1 DEF Asks
  <2>3. Held(o)'
    BY <2>1, <2>2 DEF Held
  <2>4. Fresh(o)'
    BY <2>1, <2>2 DEF Fresh, NotesOn, Live
  <2> QED BY <2>3, <2>4
<1> QED BY <1>5, <1>6, <1>7, <1>8, <1>9, <1>10 DEF CreditInv

LEMMA CreditEnter ==
  ASSUME ReceivablesAssumption, CreditInv, LedgerInv', NEW p \in Procs, Enter(p)
  PROVE  CreditInv'
<1> DEFINE q == Asks(p)
<1>1. UNCHANGED <<doc, applications, settled, entries, todo>> /\ job[p] # Idle
      /\ (\A x \in Locks(q) : lock[x] = None)
      /\ lock' = [x \in Docs |-> IF x \in Locks(q) THEN p ELSE lock[x]]
  BY DEF Enter, tables, Idle, Asks
<1>2. /\ DOMAIN job = Procs /\ DOMAIN seen = Procs /\ DOMAIN job[p] = {"req", "stage", "app"}
      /\ job[p].req \in DOMAIN Request /\ Named(q) \subseteq DOMAIN seen[p]
  BY <1>1 DEF CreditInv, LedgerInv, JobsOk, JobOk
<1>3. /\ job'[p].req = job[p].req /\ job'[p].app = job[p].app /\ job'[p] # Idle
      /\ DOMAIN seen'[p] = Touched(q)
      /\ \A x \in Touched(q) :
           seen'[p][x] = IF x \in ReadsInside(q) \/ x \notin DOMAIN seen[p] THEN doc[x] ELSE seen[p][x]
      /\ \A o \in Procs \ {p} : job'[o] = job[o] /\ seen'[o] = seen[o]
  <2>1. job' = [job EXCEPT ![p].stage = "entered"]
    BY DEF Enter
  <2>2. seen' = [seen EXCEPT ![p] = [x \in Touched(q) |->
                   IF x \in ReadsInside(q) \/ x \notin DOMAIN seen[p] THEN doc[x] ELSE seen[p][x]]]
    BY DEF Enter, Asks
  <2> HIDE DEF q
  <2> QED BY <1>2, <2>1, <2>2 DEF Idle
<1>4. /\ Locks(q) = Locked(q) /\ Touched(q) \subseteq Docs /\ Named(q) \subseteq Touched(q)
      /\ Asks(p)' = q
      /\ q.kind \in {"apply", "unapply", "void"} => q.credit \in Named(q)
      /\ q.kind = "void" => ReadsInside(q) = {}
  <2>1. Asks(p)' = q
    BY <1>3 DEF Asks
  <2>2. q.kind \in {"apply", "unapply", "void"} => q.credit \in Named(q)
    BY DEF Named
  <2>3. q.kind = "void" => ReadsInside(q) = {}
    BY DEF ReadsInside, Locks
  <2>4. Touched(q) \subseteq Docs /\ Named(q) \subseteq Touched(q)
    BY <1>2, NamedIs DEF CreditInv, LedgerInv, Asks
  <2> QED BY <2>1, <2>2, <2>3, <2>4, LockedIs
<1>5. CreditsOk' /\ Counts(applications)' /\ PostedOnce' /\ NotMade' /\ Pending'
  BY <1>1 DEF CreditInv, CreditsOk, Counts, PostedOnce, Sources, NotMade, Pending
<1>6. NoDrafts'
  <2>1. ASSUME NEW c \in Created
        PROVE  doc[c].status # "draft" /\ \A o \in Procs : c \in DOMAIN seen[o] => seen[o][c].status # "draft"
    BY DEF CreditInv, NoDrafts
  <2>2. ASSUME NEW c \in Created, NEW o \in Procs, c \in DOMAIN seen'[o]
        PROVE  seen'[o][c].status # "draft"
    <3>1. CASE o = p
      BY <1>3, <2>1, <2>2, <3>1
    <3>2. CASE o # p
      BY <1>3, <2>1, <2>2, <3>2
    <3> QED BY <3>1, <3>2
  <2> QED BY <1>1, <2>1, <2>2 DEF NoDrafts
<1>7. Together'
  <2>1. \A o \in Procs : job'[o].req = job[o].req /\ (job'[o] # Idle => job[o] # Idle)
    BY <1>1, <1>3
  <2> HIDE DEF q
  <2> QED BY <1>1, <2>1 DEF CreditInv, Together, Asks
<1>8. Held(p)'
  <2>1. Named(q) \subseteq Docs
    BY <1>4
  <2>2. Locked(q) \subseteq Docs
    <3>1. q.kind \in {"voidInvoice", "apply"} => q.invoice \in Docs
      BY <1>2, RequestIs DEF Docs, Asks
    <3> QED BY <2>1, <3>1 DEF Locked
  <2> QED BY <1>1, <1>4, <2>2 DEF Held
<1>9. Fresh(p)'
  <2>1. Fresh(p)
    BY <1>1 DEF CreditInv
  <2>2. /\ q.kind = "pay" => \A c \in DOMAIN q.uses : seen'[p][c] = doc[c]
        /\ q.kind = "voidInvoice" => \A c \in Touched(q) : seen'[p][c] = doc[c]
    <3>1. q.kind = "pay" => DOMAIN q.uses \subseteq ReadsInside(q) /\ DOMAIN q.uses \subseteq Touched(q)
      BY DEF ReadsInside, Locks, Touched
    <3>2. q.kind = "voidInvoice" => ReadsInside(q) = Touched(q)
      BY DEF ReadsInside
    <3> QED BY <1>3, <3>1, <3>2
  <2>3. q.kind = "voidInvoice" =>
          /\ \A k \in NotesOn(q.invoice) : k.credit \in DOMAIN seen'[p]
          /\ \A c \in DOMAIN seen'[p] \ {q.invoice} : \E k \in NotesOn(q.invoice) : k.credit = c
    BY <1>3 DEF Touched
  <2>4. q.kind \in {"apply", "unapply"} => seen'[p][q.credit] = seen[p][q.credit]
    <3>1. q.kind \in {"apply", "unapply"} => seen[p][q.credit] = doc[q.credit]
      BY <2>1 DEF Fresh
    <3> QED BY <1>3, <1>4, <3>1
  <2>5. q.kind = "void" => seen'[p][q.credit] = seen[p][q.credit]
    BY <1>2, <1>3, <1>4
  <2>6. doc' = doc /\ applications' = applications /\ NotesOn(q.invoice)' = NotesOn(q.invoice)
    BY <1>1, <1>4 DEF NotesOn, Live
  <2> HIDE DEF q
  <2>7. q.kind \in {"pay", "voidInvoice"} => Fresh(p)'
    <3>1. q.kind = "pay" => Fresh(p)'
      BY <1>4, <2>2, <2>6 DEF Fresh
    <3>2. CASE q.kind = "voidInvoice"
      <4>1. \A c \in DOMAIN seen'[p] : seen'[p][c] = doc'[c]
        BY <1>3, <2>2, <2>6, <3>2
      <4> QED BY <1>1, <1>4, <2>3, <3>2, <4>1 DEF Fresh, NotesOn, Live
    <3> QED BY <3>1, <3>2
  <2>8. q.kind \notin {"pay", "voidInvoice"} => Fresh(p)'
    BY <1>3, <1>4, <2>1, <2>4, <2>5, <2>6 DEF Fresh, q
  <2> QED BY <2>7, <2>8
<1>10. ASSUME NEW o \in Procs \ {p}, job'[o] # Idle PROVE Held(o)' /\ Fresh(o)'
  <2>1. Held(o) /\ Fresh(o) /\ job'[o] = job[o] /\ seen'[o] = seen[o] /\ job[o] # Idle
    BY <1>3, <1>10 DEF CreditInv
  <2>2. Asks(o)' = Asks(o) /\ doc' = doc /\ applications' = applications
    BY <1>1, <2>1 DEF Asks
  <2>3. Held(o)'
    <3>1. job[o].req \in DOMAIN Request
      BY <2>1 DEF CreditInv, LedgerInv, JobsOk, JobOk
    <3>2. Locked(Asks(o)) \subseteq Docs
      <4>1. Named(Asks(o)) \subseteq Docs
        BY <3>1, NamedIs DEF CreditInv, LedgerInv, Asks
      <4>2. Asks(o).kind \in {"voidInvoice", "apply"} => Asks(o).invoice \in Docs
        BY <3>1, RequestIs DEF Docs, Asks
      <4> QED BY <4>1, <4>2 DEF Locked
    <3>3. ASSUME NEW x \in Locked(Asks(o)), lock[x] = o PROVE lock'[x] = o
      <4>1. o # None
        BY DEF ReceivablesAssumption
      <4> QED BY <1>1, <3>2, <3>3, <4>1
    <3> QED BY <2>1, <2>2, <3>3 DEF Held
  <2>4. Fresh(o)'
    BY <2>1, <2>2 DEF Fresh, NotesOn, Live
  <2> QED BY <2>3, <2>4
<1> QED BY <1>5, <1>6, <1>7, <1>8, <1>9, <1>10 DEF CreditInv

(* What a commit may do to the credits others have read.                   *)
Touches(p) ==
  \/ (\A c \in Credits : doc'[c] = doc[c]) /\ applications' = applications
  \/ Asks(p).kind \in {"apply", "unapply"}
  \/ /\ Asks(p).kind = "void" /\ applications' = applications
     /\ \A c \in Credits : \/ doc'[c] = doc[c]
                           \/ doc'[c].status = "voided" /\ LiveOf(applications, c) = {}
  \/ /\ Asks(p).kind = "voidInvoice" /\ job[p].stage = "entered"
     /\ \A c \in Credits : \/ doc'[c] = doc[c]
                           \/ Kind[c] = "note" /\ LiveOf(applications, c) # {}
     /\ \A c \in Credits : LiveOf(applications', c) \subseteq LiveOf(applications, c)
  \/ /\ Asks(p).kind = "pay"
     /\ \A c \in Credits : doc'[c] = doc[c] \/ lock[c] \in {None, p} \/ doc[c].status = "none"
  \/ /\ Asks(p).kind = "post"
     /\ \A c \in Credits : \/ doc'[c] = doc[c]
                           \/ lock[c] \in {None, p} /\ doc[c].status \notin OnBooks
     /\ DOMAIN applications \subseteq DOMAIN applications'
     /\ \A k \in DOMAIN applications : applications'[k] = applications[k]
     /\ \A k \in DOMAIN applications' \ DOMAIN applications : lock[k.invoice] \in {None, p}

LEMMA OthersStay ==
  ASSUME ReceivablesAssumption, CreditsApart, CreditInv, NEW p \in Procs, job[p] # Idle, Touches(p),
         NEW o \in Procs \ {p}, job[o] # Idle, job'[o] = job[o], seen'[o] = seen[o]
  PROVE  Fresh(o)'
<1>0. PICK q : q = Asks(o)
  OBVIOUS
<1> DEFINE kind == Asks(p).kind
<1>1. /\ Beside(kind, q.kind) /\ job[o].req \in DOMAIN Request
      /\ kind = "voidInvoice" /\ q.kind = "voidInvoice" => Asks(p).invoice = q.invoice
  BY <1>0, BesideOthers
<1>2. Fresh(o) /\ Held(o) /\ Held(p) /\ Asks(o)' = q /\ o # None /\ o # p
  BY <1>0 DEF CreditInv, Asks, ReceivablesAssumption
<1>3. /\ q.kind \in {"apply", "unapply", "void"} => q.credit \in Credits
      /\ q.kind = "pay" => DOMAIN q.uses \subseteq Credits
      /\ q.kind \in Kinds
  <2>1. q.kind = "pay" => IsPayment(q)
    BY <1>0, <1>1, RequestIs DEF Asks
  <2> QED BY <1>0, <1>1, <2>1, RequestIs, LinesAre DEF Asks
<1>4. \A k \in NotesOn(q.invoice) :
        /\ k \in DOMAIN applications /\ applications[k].live /\ k.credit \in Credits
        /\ k \in LiveOf(applications, k.credit) /\ Kind[k.credit] = "note"
        /\ doc[k.credit].status \in OnBooks
  BY Zenon DEF NotesOn, Live, LiveOf, CreditInv, LedgerInv, AppsOk, CreditsOk, CreditOk
<1>5. q.kind \in {"post", "send"} => Fresh(o)'
  BY <1>0, <1>2 DEF Fresh
<1> HIDE DEF kind
<1>6. CASE (\A c \in Credits : doc'[c] = doc[c]) /\ applications' = applications
  <2>1. /\ q.kind \in {"apply", "unapply", "void"} => doc'[q.credit] = doc[q.credit]
        /\ q.kind = "pay" => \A c \in DOMAIN q.uses : doc'[c] = doc[c]
    BY <1>3, <1>6
  <2>2. CASE q.kind \in {"apply", "unapply", "void", "pay"}
    BY <1>0, <1>2, <1>6, <2>1, <2>2 DEF Fresh
  <2>3. CASE q.kind = "voidInvoice"
    <3>2. \A k \in NotesOn(q.invoice) : doc'[k.credit] = doc[k.credit]
      BY <1>4, <1>6
    <3> QED BY <1>0, <1>2, <2>3, <3>2, <1>6 DEF Fresh, NotesOn, Live
  <2> QED BY <1>3, <1>5, <2>2, <2>3 DEF Kinds
<1>7. CASE kind \in {"apply", "unapply"}
  BY <1>1, <1>5, <1>7 DEF Beside
<1>8. CASE kind = "pay" /\ \A c \in Credits : doc'[c] = doc[c] \/ lock[c] \in {None, p} \/ doc[c].status = "none"
  <2>1. CASE q.kind = "pay"
    <3>1. ASSUME NEW c \in DOMAIN q.uses, job[o].stage = "entered"
          PROVE  seen[o][c] = doc'[c] \/ seen[o][c].status = "none"
      <4>1. lock[c] = o /\ (seen[o][c] = doc[c] \/ seen[o][c].status = "none")
        BY <1>0, <1>2, <2>1, <3>1 DEF Held, Locked, Named, Fresh
      <4>2. c \in Credits
        BY <1>3, <2>1
      <4> QED BY <1>2, <1>8, <4>1, <4>2
    <3> QED BY <1>0, <1>2, <2>1, <3>1 DEF Fresh
  <2> QED BY <1>1, <1>5, <1>8, <2>1 DEF Beside
<1>9. CASE /\ kind = "void" /\ applications' = applications
           /\ \A c \in Credits : doc'[c] = doc[c] \/ (doc'[c].status = "voided" /\ LiveOf(applications, c) = {})
  <2>1. CASE q.kind = "void"
    <3>1. doc'[q.credit] = doc[q.credit] \/ doc'[q.credit].status = "voided"
      BY <1>3, <1>9, <2>1
    <3> QED BY <1>0, <1>2, <1>9, <2>1, <3>1 DEF Fresh
  <2>2. CASE q.kind = "voidInvoice"
    <3>1. \A k \in NotesOn(q.invoice) : doc'[k.credit] = doc[k.credit]
      BY <1>4, <1>9
    <3> QED BY <1>0, <1>2, <1>9, <2>2, <3>1 DEF Fresh, NotesOn, Live
  <2> QED BY <1>1, <1>5, <1>9, <2>1, <2>2 DEF Beside
<1>10. CASE /\ kind = "voidInvoice" /\ job[p].stage = "entered"
            /\ \A c \in Credits : doc'[c] = doc[c] \/ (Kind[c] = "note" /\ LiveOf(applications, c) # {})
            /\ \A c \in Credits : LiveOf(applications', c) \subseteq LiveOf(applications, c)
  <2>1. CASE q.kind = "void"
    <3>1. Kind[q.credit] = "note" => LiveOf(applications, q.credit) = {}
      BY <1>0, <1>2, <2>1 DEF Fresh
    <3>2. /\ doc'[q.credit] = doc[q.credit]
          /\ LiveOf(applications', q.credit) \subseteq LiveOf(applications, q.credit)
      BY <1>3, <1>10, <2>1, <3>1
    <3> QED BY <1>0, <1>2, <2>1, <3>1, <3>2 DEF Fresh
  <2>2. CASE q.kind = "voidInvoice"
    <3>1. job[o].stage = "entered" => lock[q.invoice] = o
      BY <1>0, <1>2, <2>2 DEF Held, Locked
    <3>2. lock[q.invoice] = p
      BY <1>1, <1>2, <1>10, <2>2 DEF Held, Locked, kind
    <3>3. job[o].stage # "entered"
      BY <1>2, <3>1, <3>2
    <3> QED BY <1>0, <1>2, <2>2, <3>3 DEF Fresh
  <2> QED BY <1>1, <1>5, <1>10, <2>1, <2>2 DEF Beside
<1>11. CASE /\ kind = "post"
            /\ \A c \in Credits :
                 doc'[c] = doc[c] \/ (lock[c] \in {None, p} /\ doc[c].status \notin OnBooks)
            /\ DOMAIN applications \subseteq DOMAIN applications'
            /\ \A k \in DOMAIN applications : applications'[k] = applications[k]
            /\ \A k \in DOMAIN applications' \ DOMAIN applications : lock[k.invoice] \in {None, p}
  <2>1. CASE q.kind = "pay"
    <3>1. ASSUME NEW c \in DOMAIN q.uses, job[o].stage = "entered"
          PROVE  seen[o][c] = doc'[c] \/ seen[o][c].status = "none"
      <4>1. lock[c] = o /\ (seen[o][c] = doc[c] \/ seen[o][c].status = "none")
        BY <1>0, <1>2, <2>1, <3>1 DEF Held, Locked, Named, Fresh
      <4>2. c \in Credits
        BY <1>3, <2>1
      <4> QED BY <1>2, <1>11, <4>1, <4>2
    <3> QED BY <1>0, <1>2, <2>1, <3>1 DEF Fresh
  <2>2. CASE q.kind = "voidInvoice"
    <3>1. \A k \in NotesOn(q.invoice) : doc'[k.credit] = doc[k.credit]
      BY <1>4, <1>11
    <3>2. job[o].stage = "entered" => lock[q.invoice] = o
      BY <1>0, <1>2, <2>2 DEF Held, Locked
    <3>3. ASSUME job[o].stage = "entered", NEW k, k \in NotesOn(q.invoice)' PROVE k \in NotesOn(q.invoice)
      <4>1. k \in DOMAIN applications' /\ applications'[k].live /\ k.invoice = q.invoice /\ Kind[k.credit] = "note"
        BY <1>2, <3>3 DEF NotesOn, Live
      <4>2. k \in DOMAIN applications
        BY <1>2, <1>11, <3>2, <3>3, <4>1
      <4> QED BY <1>11, <4>1, <4>2 DEF NotesOn, Live
    <3>4. \A k \in NotesOn(q.invoice) : k \in NotesOn(q.invoice)'
      BY <1>2, <1>11 DEF NotesOn, Live
    <3>5. (job[o].stage = "entered" =>
             /\ \A k \in NotesOn(q.invoice) : k.credit \in DOMAIN seen[o]
             /\ \A c \in DOMAIN seen[o] \ {q.invoice} :
                  seen[o][c] = doc[c] /\ \E k \in NotesOn(q.invoice) : k.credit = c)'
      BY <1>0, <1>2, <2>2, <3>1, <3>3, <3>4 DEF Fresh
    <3> QED BY <1>0, <1>2, <2>2, <3>5 DEF Fresh
  <2> QED BY <1>1, <1>5, <1>11, <2>1, <2>2 DEF Beside
<1> QED BY <1>6, <1>7, <1>8, <1>9, <1>10, <1>11 DEF Touches, kind

(* What a commit leaves.                                                   *)
Leaves(p) ==
  /\ End(p) /\ todo' \subseteq todo /\ todo \ {job[p].req} \subseteq todo'
  /\ Sources \subseteq Sources' /\ CreditsOk' /\ Counts(applications')
  /\ \A c \in Credits :
       \/ doc'[c] = doc[c]
       \/ /\ doc'[c].status # "draft"
          /\ \/ doc'[c].status \notin OnBooks \/ doc[c].status \in OnBooks
             \/ c \in Created \/ <<"post", c>> \in Sources'
          /\ \/ doc[c].status # "none" \/ c \notin Created
             \/ Asks(p).kind = "pay" /\ Asks(p).makes = c /\ job[p].req \notin todo'
  /\ \A k \in DOMAIN applications' : k \in DOMAIN applications \/ k.req \notin todo'
  /\ Touches(p)

LEMMA CreditCommits ==
  ASSUME ReceivablesAssumption, CreditsApart, CreditInv, LedgerInv', NEW p \in Procs, job[p] # Idle,
         Leaves(p)
  PROVE  CreditInv'
<1>1. /\ job'[p] = Idle /\ DOMAIN seen'[p] = {}
      /\ \A o \in Procs \ {p} : job'[o] = job[o] /\ seen'[o] = seen[o]
      /\ lock' = [x \in Docs |-> IF lock[x] = p THEN None ELSE lock[x]]
  <2>1. DOMAIN job = Procs /\ DOMAIN seen = Procs
    BY DEF CreditInv, LedgerInv, JobsOk
  <2> QED BY <2>1 DEF Leaves, End, NothingSeen
<1>2. PostedOnce'
  BY DEF Leaves, CreditInv, PostedOnce
<1>3. NoDrafts'
  <2>1. ASSUME NEW c \in Created
        PROVE  doc'[c].status # "draft" /\ \A o \in Procs : c \in DOMAIN seen[o] => seen[o][c].status # "draft"
    <3>1. c \in Credits
      BY DEF ReceivablesAssumption
    <3> QED BY <3>1 DEF Leaves, CreditInv, NoDrafts
  <2>2. ASSUME NEW c \in Created, NEW o \in Procs, c \in DOMAIN seen'[o]
        PROVE  seen'[o][c].status # "draft"
    BY <1>1, <2>1, <2>2
  <2> QED BY <2>1, <2>2 DEF NoDrafts
<1>4. PICK workload \in Workloads : todo \subseteq workload
  BY DEF CreditInv, Pending
<1>5. job[p].req \in todo
  BY DEF CreditInv, Together
<1>6. NotMade'
  <2>1. ASSUME NEW r \in todo', Request[r].kind = "pay", Request[r].makes # None
        PROVE  doc'[Request[r].makes].status = "none"
    <3> DEFINE m == Request[r].makes
    <3>1. r \in todo /\ r \in DOMAIN Request
      BY DEF Leaves, CreditInv, LedgerInv
    <3>2. m \in Credits /\ m \in Created
      BY <2>1, <3>1 DEF ReceivablesAssumption
    <3>3. doc[m].status = "none"
      BY <2>1, <3>1 DEF CreditInv, NotMade
    <3>4. CASE doc'[m] = doc[m]
      BY <3>3, <3>4
    <3>5. CASE doc'[m] # doc[m]
      <4>1. Asks(p).kind = "pay" /\ Asks(p).makes = m /\ job[p].req \notin todo'
        BY <3>2, <3>3, <3>5 DEF Leaves
      <4>2. r # job[p].req /\ r \in workload /\ job[p].req \in workload
        BY <1>4, <1>5, <3>1, <4>1
      <4> QED BY <2>1, <4>1, <4>2 DEF CreditsApart, Asks
    <3> QED BY <3>4, <3>5
  <2> QED BY <2>1 DEF NotMade
<1>7. Pending'
  <2>1. \E w \in Workloads : todo' \subseteq w
    BY <1>4 DEF Leaves
  <2>2. \A k \in DOMAIN applications' : k.req \notin todo'
    BY DEF Leaves, CreditInv, Pending
  <2> QED BY <2>1, <2>2 DEF Pending
<1>8. Together'
  <2>1. ASSUME NEW o \in Procs, job'[o] # Idle
        PROVE  /\ job'[o].req \in todo'
               /\ \A s \in Procs \ {o} : job'[s] # Idle =>
                    /\ job'[s].req # job'[o].req
                    /\ {Request[job'[s].req].kind, Request[job'[o].req].kind} \in Overlap
    <3>1. o # p /\ job'[o] = job[o] /\ job[o] # Idle
      BY <1>1, <2>1
    <3>2. /\ job[o].req \in todo /\ job[o].req # job[p].req
          /\ \A s \in Procs \ {o} : job[s] # Idle =>
               job[s].req # job[o].req /\ {Asks(s).kind, Asks(o).kind} \in Overlap
      BY <3>1 DEF CreditInv, Together
    <3>3. job[o].req \in todo'
      BY <3>2 DEF Leaves
    <3>4. ASSUME NEW s \in Procs \ {o}, job'[s] # Idle
          PROVE  /\ job'[s].req # job'[o].req
                 /\ {Request[job'[s].req].kind, Request[job'[o].req].kind} \in Overlap
      <4>1. job'[s] = job[s] /\ job[s] # Idle
        BY <1>1, <3>4
      <4>2. job[s].req # job[o].req /\ {Asks(s).kind, Asks(o).kind} \in Overlap
        BY <3>2, <3>4, <4>1
      <4> QED BY <3>1, <4>1, <4>2 DEF Asks
    <3> QED BY <3>1, <3>3, <3>4
  <2> QED BY <2>1 DEF Together, Asks
<1>9. ASSUME NEW o \in Procs, job'[o] # Idle PROVE Held(o)' /\ Fresh(o)'
  <2>1. o # p /\ job'[o] = job[o] /\ seen'[o] = seen[o] /\ job[o] # Idle /\ Asks(o)' = Asks(o)
    BY <1>1, <1>9 DEF Asks
  <2>2. Fresh(o)'
    BY <2>1, OthersStay DEF Leaves
  <2>3. Held(o)'
    <3>1. job[o].req \in DOMAIN Request
      BY <2>1 DEF CreditInv, LedgerInv, JobsOk, JobOk
    <3>2. Locked(Asks(o)) \subseteq Docs
      <4>1. Named(Asks(o)) \subseteq Docs
        BY <3>1, NamedIs DEF CreditInv, LedgerInv, Asks
      <4>2. Asks(o).kind \in {"voidInvoice", "apply"} => Asks(o).invoice \in Docs
        BY <3>1, RequestIs DEF Docs, Asks
      <4> QED BY <4>1, <4>2 DEF Locked
    <3>3. \A x \in Locked(Asks(o)) : lock[x] = o => lock'[x] = o
      BY <1>1, <2>1, <3>2
    <3>4. Held(o)
      BY <2>1 DEF CreditInv
    <3> QED BY <2>1, <3>3, <3>4 DEF Held
  <2> QED BY <2>2, <2>3
<1> QED BY <1>2, <1>3, <1>6, <1>7, <1>8, <1>9 DEF Leaves, CreditInv, Counts

(* A commit that changes no credit, or none at all.                        *)
LEMMA CreditUntouched ==
  ASSUME ReceivablesAssumption, CreditsApart, CreditInv, LedgerInv', NEW p \in Procs, job[p] # Idle,
         End(p), todo' \subseteq todo, todo \ {job[p].req} \subseteq todo', Sources \subseteq Sources',
         \A c \in Credits : doc'[c] = doc[c], applications' = applications
  PROVE  CreditInv'
<1>1. CreditsOk' /\ Counts(applications')
  BY DEF CreditInv, CreditsOk, Counts
<1>2. \A k \in DOMAIN applications' : k \in DOMAIN applications
  OBVIOUS
<1>3. Leaves(p)
  BY <1>1, <1>2 DEF Leaves, Touches
<1> QED BY <1>3, CreditCommits

LEMMA CreditRefuse ==
  ASSUME ReceivablesAssumption, CreditsApart, CreditInv, LedgerInv', NEW p \in Procs, Refuse(p) \/ Crash(p)
  PROVE  CreditInv'
<1>1. /\ End(p) /\ todo' \subseteq todo /\ todo \ {job[p].req} \subseteq todo' /\ job[p] # Idle
      /\ UNCHANGED <<doc, applications, settled, entries>>
  BY DEF Refuse, Crash, tables, Idle
<1>2. Sources \subseteq Sources' /\ \A c \in Credits : doc'[c] = doc[c]
  BY <1>1 DEF Sources
<1> QED BY <1>1, <1>2, CreditUntouched

LEMMA CreditSend ==
  ASSUME ReceivablesAssumption, CreditsApart, CreditInv, LedgerInv', NEW p \in Procs, Send(p)
  PROVE  CreditInv'
<1> DEFINE i == Asks(p).invoice
<1>1. /\ Ready(p, Asks(p)) /\ Asks(p).kind = "send" /\ job[p] # Idle
      /\ todo' = todo \ {job[p].req}
  <2>1. Committing(p, "send")
    BY DEF Send
  <2> QED BY <2>1, ReadyToCommit DEF CreditInv, Committing, Idle
<1>2. i \in Invoices
  BY <1>1, RequestIs DEF Ready
<1>3. /\ doc' = [doc EXCEPT ![i] = [seen[p][i] EXCEPT !.status = "sent"]]
      /\ UNCHANGED <<applications, settled, entries>>
  BY DEF Send, Asks
<1>4. \A c \in Credits : doc'[c] = doc[c]
  <2>1. \A c \in Credits : c \in DOMAIN doc /\ c # i
    BY <1>2 DEF CreditInv, LedgerInv, DocsOk, Docs, ReceivablesAssumption
  <2> HIDE DEF i
  <2> QED BY <1>3, <2>1
<1>5. End(p) /\ todo' \subseteq todo /\ todo \ {job[p].req} \subseteq todo' /\ Sources \subseteq Sources'
  BY <1>1, <1>3 DEF Ready, Sources
<1> QED BY <1>1, <1>3, <1>4, <1>5, CreditUntouched

(* What a request may rely on when it commits.                             *)
LEMMA CreditReady ==
  ASSUME CreditInv, NEW p \in Procs, NEW kind, Committing(p, kind), NEW q, q = Asks(p)
  PROVE  /\ Ready(p, q) /\ q.kind = kind /\ job[p] # Idle /\ job[p].stage = "entered"
         /\ Held(p) /\ Fresh(p) /\ \A x \in Touched(q) : lock[x] \in {None, p}
         /\ End(p) /\ todo' \subseteq todo /\ todo \ {job[p].req} \subseteq todo' /\ job[p].req \notin todo'
         /\ \A k \in DOMAIN applications : k.req # job[p].req
<1>1. /\ job[p].stage = "entered" /\ (\A x \in Touched(q) : lock[x] \in {None, p})
      /\ todo' = todo \ {job[p].req} /\ End(p)
  BY DEF Committing, Asks
<1>2. job[p] # Idle
  BY <1>1 DEF Idle
<1>3. Held(p) /\ Fresh(p) /\ job[p].req \in todo /\ \A k \in DOMAIN applications : k.req \notin todo
  BY <1>2 DEF CreditInv, Together, Pending
<1>4. Ready(p, q) /\ q.kind = kind
  BY ReadyToCommit DEF CreditInv
<1> QED BY <1>1, <1>2, <1>3, <1>4

LEMMA OneCredit ==
  ASSUME CreditInv, NEW c \in Credits, CreditOk(c, doc'[c], applications'),
         \A x \in Credits \ {c} :
           /\ doc'[x] = doc[x] /\ LiveOf(applications', x) = LiveOf(applications, x)
           /\ AppliedTo(applications', x) = AppliedTo(applications, x)
  PROVE  CreditsOk'
<1>1. ASSUME NEW x \in Credits \ {c} PROVE CreditOk(x, doc'[x], applications')
  BY CreditLike DEF CreditInv, CreditsOk
<1> QED BY <1>1 DEF CreditsOk

(* A row is added, of this request, and counts.                            *)
Grown(row, c, a) ==
  /\ DOMAIN applications' = DOMAIN applications \cup {row}
  /\ \A k \in DOMAIN applications : applications'[k] = applications[k]
  /\ Counts(applications')
  /\ AppliedTo(applications', c) = AppliedTo(applications, c) + a
  /\ \A x : x # c => /\ LiveOf(applications', x) = LiveOf(applications, x)
                    /\ AppliedTo(applications', x) = AppliedTo(applications, x)

LEMMA OneMore ==
  ASSUME CreditInv, NEW r, \A k \in DOMAIN applications : k.req # r,
         NEW c, NEW i, NEW a \in Int, Kind[c] # "note" => a > 0,
         NEW row, row = Row(r, c, i), applications' = WithRow(row, a)
  PROVE  Grown(row, c, a)
<1>2. row.credit = c /\ row.req = r /\ row \notin DOMAIN applications
  BY DEF Row
<1>3. PICK new : new = applications'
  OBVIOUS
<1>4. new = [k \in DOMAIN applications \cup {row} |->
               IF k = row THEN [amount |-> a, live |-> TRUE] ELSE applications[k]]
  BY <1>3 DEF WithRow
<1>5. /\ DOMAIN new = DOMAIN applications \cup {row} /\ new[row] = [amount |-> a, live |-> TRUE]
      /\ \A k \in DOMAIN applications : new[k] = applications[k]
  BY <1>2, <1>4
<1>6. AppsSound(applications) /\ Counts(applications)
  BY RowsSound DEF CreditInv
<1>7. \A x : /\ (row.credit # x => LiveOf(new, x) = LiveOf(applications, x))
             /\ AppliedTo(new, x) = IF row.credit = x THEN AppliedTo(applications, x) + a
                                   ELSE AppliedTo(applications, x)
  BY <1>2, <1>5, <1>6, AppliedOneMore
<1>8. Counts(new)
  BY <1>2, <1>5, <1>6 DEF Counts
<1> QED BY <1>2, <1>3, <1>5, <1>7, <1>8 DEF Grown

LEMMA CreditApplyCredit ==
  ASSUME ReceivablesAssumption, CreditsApart, CreditInv, LedgerInv', NEW p \in Procs, ApplyCredit(p)
  PROVE  CreditInv'
<1>0. PICK q : q = Asks(p)
  OBVIOUS
<1>1. PICK c : c = q.credit
  OBVIOUS
<1>2. PICK i : i = q.invoice
  OBVIOUS
<1> DEFINE credit == Drawn(seen[p][c], q.amount)
<1>3. /\ Ready(p, q) /\ q.kind = "apply" /\ job[p] # Idle /\ Fresh(p)
      /\ End(p) /\ todo' \subseteq todo /\ todo \ {job[p].req} \subseteq todo' /\ job[p].req \notin todo'
      /\ \A k \in DOMAIN applications : k.req # job[p].req
  <2>1. Committing(p, "apply")
    BY Zenon DEF ApplyCredit
  <2> QED BY <1>0, <2>1, CreditReady
<1>4. /\ c \in Credits /\ i \in Invoices /\ q.amount \in Int /\ q.amount > 0
      /\ c \in Docs /\ i \in Docs /\ c # i /\ \A x \in Credits : x \in Docs /\ x # i
  <2>1. c \in Credits /\ i \in Invoices /\ q.amount \in Int /\ q.amount > 0
    BY <1>0, <1>1, <1>2, <1>3, RequestIs DEF Ready
  <2> QED BY <2>1 DEF Docs, ReceivablesAssumption
<1>5. seen[p][c] = doc[c] /\ q.amount <= doc[c].left /\ doc[c].status \in OnBooks /\ doc[c].status # "none"
  BY <1>0, <1>1, <1>3 DEF Fresh, Open, OnBooks
<1>6. Written(Sources, c, doc[c]) /\ CreditOk(c, doc[c], applications) /\ AppliedTo(applications, c) \in Int
  BY <1>4, RowsSound, AppliedIs DEF CreditInv, CreditsOk, LedgerInv, DocsOk
<1>7. applications' = WithRow(Row(job[p].req, c, i), q.amount) /\ Sources \subseteq Sources'
  BY <1>0, <1>1, <1>2, Zenon DEF ApplyCredit, Asks, WithEntry, Sources
<1>8. /\ DOMAIN applications' = DOMAIN applications \cup {Row(job[p].req, c, i)}
      /\ Counts(applications')
      /\ AppliedTo(applications', c) = AppliedTo(applications, c) + q.amount
      /\ \A x : x # c => /\ LiveOf(applications', x) = LiveOf(applications, x)
                        /\ AppliedTo(applications', x) = AppliedTo(applications, x)
  <2>1. PICK row : row = Row(job[p].req, c, i)
    OBVIOUS
  <2>2. q.amount \in Int /\ (Kind[c] # "note" => q.amount > 0) /\ applications' = WithRow(row, q.amount)
    BY <1>4, <1>7, <2>1
  <2>3. Grown(row, c, q.amount)
    BY <1>3, <2>1, <2>2, OneMore
  <2> QED BY <2>1, <2>3 DEF Grown
<1>9. /\ doc'[c].left = credit.left /\ doc'[c].status = credit.status /\ doc'[c].amount = doc[c].amount
      /\ \A x \in Credits \ {c} : doc'[x] = doc[x]
  <2>1. doc' = [doc EXCEPT ![c].left = credit.left, ![c].status = credit.status,
                           ![i].left = seen[p][i].left - q.amount]
    BY <1>0, <1>1, <1>2, Zenon DEF ApplyCredit, Asks
  <2>2. DOMAIN doc = Docs /\ DOMAIN doc[c] = Fields
    BY <1>6 DEF CreditInv, LedgerInv, DocsOk, Written
  <2> DEFINE l == seen[p][i].left - q.amount
  <2> HIDE DEF credit, l
  <2> QED BY <1>4, <2>1, <2>2 DEF l, Fields
<1>10. PICK new : new = applications'
  OBVIOUS
<1>11. CreditOk(c, credit, new) /\ credit.status \in OnBooks /\ credit.amount = doc[c].amount
  BY <1>4, <1>5, <1>6, <1>8, <1>10, CreditDrawn
<1>12. CreditOk(c, doc'[c], applications') /\ doc'[c].status \in OnBooks
  <2> HIDE DEF credit
  <2> QED BY <1>9, <1>10, <1>11, CreditLike
<1>13. CreditsOk'
  <2>1. \A x \in Credits \ {c} : /\ doc'[x] = doc[x]
                                 /\ LiveOf(applications', x) = LiveOf(applications, x)
                                 /\ AppliedTo(applications', x) = AppliedTo(applications, x)
    BY <1>8, <1>9
  <2> HIDE DEF credit
  <2> QED BY <1>4, <1>12, <2>1, OneCredit
<1>14. Leaves(p)
  <2>1. \A k \in DOMAIN applications' : k \in DOMAIN applications \/ k.req \notin todo'
    BY <1>3, <1>8 DEF Row
  <2>2. Touches(p)
    BY <1>0, <1>3 DEF Touches
  <2>3. \A x \in Credits : doc'[x] = doc[x] \/ (x = c /\ doc'[x].status # "draft")
    BY <1>9, <1>12 DEF OnBooks
  <2> QED BY <1>3, <1>5, <1>7, <1>8, <1>13, <2>1, <2>2, <2>3 DEF Leaves
<1> QED BY <1>3, <1>14, CreditCommits

LEMMA CreditApplyNote ==
  ASSUME ReceivablesAssumption, CreditsApart, CreditInv, LedgerInv', NEW p \in Procs, ApplyNote(p)
  PROVE  CreditInv'
<1>0. PICK q : q = Asks(p)
  OBVIOUS
<1>1. PICK c : c = q.credit
  OBVIOUS
<1>2. PICK i : i = q.invoice
  OBVIOUS
<1>15. PICK a : a = Smaller(q.amount, seen[p][i].left)
  OBVIOUS
<1> DEFINE credit == DrawnByNote(seen[p][c], a)
<1>3. /\ Ready(p, q) /\ q.kind = "apply" /\ job[p] # Idle /\ Fresh(p)
      /\ End(p) /\ todo' \subseteq todo /\ todo \ {job[p].req} \subseteq todo' /\ job[p].req \notin todo'
      /\ \A k \in DOMAIN applications : k.req # job[p].req
  <2>1. Committing(p, "apply")
    BY Zenon DEF ApplyNote
  <2> QED BY <1>0, <2>1, CreditReady
<1>4. /\ c \in Credits /\ i \in Invoices /\ q.amount \in Int /\ Kind[c] = "note"
      /\ c \in Docs /\ i \in Docs /\ c # i /\ \A x \in Credits : x \in Docs /\ x # i
  <2>1. c \in Credits /\ i \in Invoices /\ q.amount \in Int
    BY <1>0, <1>1, <1>2, <1>3, RequestIs DEF Ready
  <2>2. Kind[c] = "note"
    BY <1>0, <1>1, Zenon DEF ApplyNote, Asks
  <2> QED BY <2>1, <2>2 DEF Docs, ReceivablesAssumption
<1>5. seen[p][c] = doc[c] /\ q.amount <= doc[c].left /\ doc[c].status \in OnBooks /\ doc[c].status # "none"
  BY <1>0, <1>1, <1>3 DEF Fresh, Open, OnBooks
<1>6. Written(Sources, c, doc[c]) /\ CreditOk(c, doc[c], applications) /\ AppliedTo(applications, c) \in Int
  BY <1>4, RowsSound, AppliedIs DEF CreditInv, CreditsOk, LedgerInv, DocsOk
<1>16. a \in Int /\ a <= q.amount /\ a <= doc[c].left
  <2>1. seen[p][i].left \in Int /\ doc[c].left \in Int
    BY <1>2, <1>3, <1>6 DEF Ready, Named, Written
  <2> QED BY <1>15, <1>4, <1>5, <2>1 DEF Smaller
<1>7. applications' = WithRow(Row(job[p].req, c, i), a) /\ Sources \subseteq Sources'
  BY <1>0, <1>1, <1>2, <1>15, Zenon DEF ApplyNote, Asks, Sources
<1>8. /\ DOMAIN applications' = DOMAIN applications \cup {Row(job[p].req, c, i)}
      /\ Counts(applications')
      /\ AppliedTo(applications', c) = AppliedTo(applications, c) + a
      /\ \A x : x # c => /\ LiveOf(applications', x) = LiveOf(applications, x)
                        /\ AppliedTo(applications', x) = AppliedTo(applications, x)
  <2>1. PICK row : row = Row(job[p].req, c, i)
    OBVIOUS
  <2>2. a \in Int /\ (Kind[c] # "note" => a > 0) /\ applications' = WithRow(row, a)
    BY <1>4, <1>7, <1>16, <2>1
  <2>3. Grown(row, c, a)
    BY <1>3, <2>1, <2>2, OneMore
  <2> QED BY <2>1, <2>3 DEF Grown
<1>9. /\ doc'[c].left = credit.left /\ doc'[c].status = credit.status /\ doc'[c].amount = doc[c].amount
      /\ \A x \in Credits \ {c} : doc'[x] = doc[x]
  <2>1. doc' = [doc EXCEPT ![c].left = credit.left, ![c].status = credit.status,
                           ![i] = NoteApplied(seen[p][i], q.amount)]
    BY <1>0, <1>1, <1>2, <1>15, Zenon DEF ApplyNote, Asks
  <2>2. DOMAIN doc = Docs /\ DOMAIN doc[c] = Fields
    BY <1>6 DEF CreditInv, LedgerInv, DocsOk, Written
  <2> DEFINE l == NoteApplied(seen[p][i], q.amount)
  <2> HIDE DEF credit, l
  <2> QED BY <1>4, <2>1, <2>2 DEF l, Fields
<1>10. PICK new : new = applications'
  OBVIOUS
<1>11. CreditOk(c, credit, new) /\ credit.status \in OnBooks /\ credit.amount = doc[c].amount
  BY <1>4, <1>5, <1>6, <1>8, <1>10, <1>16, CreditDrawn
<1>12. CreditOk(c, doc'[c], applications') /\ doc'[c].status \in OnBooks
  <2> HIDE DEF credit
  <2> QED BY <1>9, <1>10, <1>11, CreditLike
<1>13. CreditsOk'
  <2>1. \A x \in Credits \ {c} : /\ doc'[x] = doc[x]
                                 /\ LiveOf(applications', x) = LiveOf(applications, x)
                                 /\ AppliedTo(applications', x) = AppliedTo(applications, x)
    BY <1>8, <1>9
  <2> HIDE DEF credit
  <2> QED BY <1>4, <1>12, <2>1, OneCredit
<1>14. Leaves(p)
  <2>1. \A k \in DOMAIN applications' : k \in DOMAIN applications \/ k.req \notin todo'
    BY <1>3, <1>8 DEF Row
  <2>2. Touches(p)
    BY <1>0, <1>3 DEF Touches
  <2>3. \A x \in Credits : doc'[x] = doc[x] \/ (x = c /\ doc'[x].status # "draft")
    BY <1>9, <1>12 DEF OnBooks
  <2> QED BY <1>3, <1>5, <1>7, <1>8, <1>13, <2>1, <2>2, <2>3 DEF Leaves
<1> QED BY <1>3, <1>14, CreditCommits

LEMMA CreditUnapply ==
  ASSUME ReceivablesAssumption, CreditsApart, CreditInv, LedgerInv', NEW p \in Procs, Unapply(p)
  PROVE  CreditInv'
<1>0. PICK q : q = Asks(p)
  OBVIOUS
<1>1. PICK c : c = q.credit
  OBVIOUS
<1>2. PICK i : i = q.invoice
  OBVIOUS
<1>15. PICK k : k = job[p].app
  OBVIOUS
<1>16. PICK a : a = applications[k].amount
  OBVIOUS
<1> DEFINE credit == GivenBack(seen[p][c], a)
<1>3. /\ Ready(p, q) /\ q.kind = "unapply" /\ job[p] # Idle /\ Fresh(p)
      /\ End(p) /\ todo' \subseteq todo /\ todo \ {job[p].req} \subseteq todo' /\ job[p].req \notin todo'
  <2>1. Committing(p, "unapply")
    BY Zenon DEF Unapply
  <2> QED BY <1>0, <2>1, CreditReady
<1>4. /\ c \in Credits /\ i \in Invoices
      /\ c \in Docs /\ i \in Docs /\ c # i /\ \A x \in Credits : x \in Docs /\ x # i
  <2>1. c \in Credits /\ i \in Invoices
    BY <1>0, <1>1, <1>2, <1>3, RequestIs DEF Ready
  <2> QED BY <2>1 DEF Docs, ReceivablesAssumption
<1>5. /\ seen[p][c] = doc[c] /\ k \in DOMAIN applications /\ applications[k].live /\ k.credit = c
      /\ k \in LiveOf(applications, c)
  BY <1>0, <1>1, <1>3, <1>15 DEF Fresh, LiveOf
<1>6. /\ Written(Sources, c, doc[c]) /\ CreditOk(c, doc[c], applications)
      /\ AppliedTo(applications, c) \in Int /\ AppsSound(applications)
  BY <1>4, RowsSound, AppliedIs DEF CreditInv, CreditsOk, LedgerInv, DocsOk
<1>17. doc[c].status \in OnBooks /\ doc[c].status # "none" /\ a \in Int
  BY <1>5, <1>6, <1>16 DEF CreditOk, OnBooks, AppsSound
<1>7. /\ DOMAIN applications' = DOMAIN applications
      /\ \A j \in DOMAIN applications : /\ applications'[j].amount = applications[j].amount
                                        /\ applications'[j].live <=> applications[j].live /\ j # k
      /\ Sources \subseteq Sources'
  <2>1. applications' = [applications EXCEPT ![k].live = FALSE] /\ entries' = entries
    BY <1>15, Zenon DEF Unapply
  <2>2. \A j \in DOMAIN applications : DOMAIN applications[j] = {"amount", "live"}
    BY DEF CreditInv, LedgerInv, AppsOk
  <2> QED BY <1>5, <2>1, <2>2 DEF Sources
<1>10. PICK new : new = applications'
  OBVIOUS
<1>8. /\ AppliedTo(new, c) = AppliedTo(applications, c) - a
      /\ \A x : x # c => /\ LiveOf(new, x) = LiveOf(applications, x)
                        /\ AppliedTo(new, x) = AppliedTo(applications, x)
      /\ Counts(new)
  <2>1. Counts(new)
    BY <1>7, <1>10 DEF CreditInv, Counts
  <2>2. \A x : /\ (k.credit # x => LiveOf(new, x) = LiveOf(applications, x))
               /\ AppliedTo(new, x) = IF k.credit = x THEN AppliedTo(applications, x) - applications[k].amount
                                      ELSE AppliedTo(applications, x)
    BY <1>5, <1>6, <1>7, <1>10, AppliedOneLess
  <2> QED BY <1>5, <1>16, <2>1, <2>2
<1>9. /\ doc'[c].left = credit.left /\ doc'[c].status = credit.status /\ doc'[c].amount = doc[c].amount
      /\ \A x \in Credits \ {c} : doc'[x] = doc[x]
  <2> DEFINE left == seen[p][i].left + a
             st == IF Kind[c] # "note" THEN doc[i].status
                   ELSE IF left = seen[p][i].amount THEN "sent" ELSE "partially_paid"
  <2>1. doc' = [doc EXCEPT ![c].left = credit.left, ![c].status = credit.status,
                           ![i].left = left,
                           ![i].status = IF Kind[c] # "note" THEN @
                                         ELSE IF left = seen[p][i].amount THEN "sent" ELSE "partially_paid"]
    BY <1>0, <1>1, <1>2, <1>16, <1>15, Zenon DEF Unapply, Asks
  <2>2. DOMAIN doc = Docs /\ DOMAIN doc[c] = Fields
    BY <1>6 DEF CreditInv, LedgerInv, DocsOk, Written
  <2> HIDE DEF credit, left
  <2> QED BY <1>4, <2>1, <2>2 DEF Fields
<1>11. CreditOk(c, credit, new) /\ credit.status \in OnBooks /\ credit.amount = doc[c].amount
  BY <1>5, <1>6, <1>8, <1>17, CreditBack
<1>12. CreditOk(c, doc'[c], applications') /\ doc'[c].status \in OnBooks
  <2> HIDE DEF credit
  <2> QED BY <1>9, <1>10, <1>11, CreditLike
<1>13. CreditsOk'
  <2>1. \A x \in Credits \ {c} : /\ doc'[x] = doc[x]
                                 /\ LiveOf(applications', x) = LiveOf(applications, x)
                                 /\ AppliedTo(applications', x) = AppliedTo(applications, x)
    BY <1>8, <1>9, <1>10
  <2> HIDE DEF credit
  <2> QED BY <1>4, <1>12, <2>1, OneCredit
<1>14. Leaves(p)
  <2>2. Touches(p)
    BY <1>0, <1>3 DEF Touches
  <2>3. \A x \in Credits : doc'[x] = doc[x] \/ (x = c /\ doc'[x].status # "draft")
    BY <1>9, <1>12 DEF OnBooks
  <2> QED BY <1>3, <1>17, <1>7, <1>8, <1>10, <1>13, <2>2, <2>3 DEF Leaves
<1> QED BY <1>3, <1>14, CreditCommits

LEMMA CreditVoidCredit ==
  ASSUME ReceivablesAssumption, CreditsApart, CreditInv, LedgerInv', NEW p \in Procs, VoidCredit(p)
  PROVE  CreditInv'
<1>0. PICK q : q = Asks(p)
  OBVIOUS
<1>1. PICK c : c = q.credit
  OBVIOUS
<1>3. /\ Ready(p, q) /\ q.kind = "void" /\ job[p] # Idle /\ Fresh(p)
      /\ End(p) /\ todo' \subseteq todo /\ todo \ {job[p].req} \subseteq todo' /\ job[p].req \notin todo'
  <2>1. Committing(p, "void")
    BY Zenon DEF VoidCredit
  <2> QED BY <1>0, <2>1, CreditReady
<1>4. c \in Credits /\ c \in Docs /\ \A x \in Credits : x \in Docs
  <2>1. c \in Credits
    BY <1>0, <1>1, <1>3, RequestIs DEF Ready
  <2> QED BY <2>1 DEF Docs
<1>5. /\ seen[p][c].status \in {"draft", "open"}
      /\ seen[p][c] = doc[c] \/ doc[c].status = "voided"
      /\ Kind[c] = "note" => LiveOf(applications, c) = {}
  BY <1>0, <1>1, <1>3 DEF Fresh
<1>6. /\ Written(Sources, c, doc[c]) /\ CreditOk(c, doc[c], applications)
      /\ AppsSound(applications) /\ Counts(applications)
  BY <1>4, RowsSound DEF CreditInv, CreditsOk, LedgerInv, DocsOk
<1>7. LiveOf(applications, c) = {}
  <2>1. CASE doc[c].status = "open" /\ Kind[c] # "note"
    BY <1>6, <2>1, OpenIsUnused
  <2>2. CASE doc[c].status \in {"draft", "voided"}
    BY <1>6, <2>2 DEF CreditOk, OnBooks
  <2> QED BY <1>5, <2>1, <2>2
<1>8. applications' = applications /\ Sources \subseteq Sources'
  BY Zenon DEF VoidCredit, WithEntry, Sources
<1>9. doc'[c].status = "voided" /\ \A x \in Credits \ {c} : doc'[x] = doc[x]
  <2> DEFINE l == IF Kind[c] # "note" /\ seen[p][c].status = "open" THEN 0 ELSE doc[c].left
  <2>1. doc' = [doc EXCEPT ![c].status = "voided",
                           ![c].left = IF Kind[c] # "note" /\ seen[p][c].status = "open" THEN 0 ELSE @]
    BY <1>0, <1>1, Zenon DEF VoidCredit, Asks
  <2>2. DOMAIN doc = Docs /\ DOMAIN doc[c] = Fields
    BY <1>6 DEF CreditInv, LedgerInv, DocsOk, Written
  <2> QED BY <1>4, <2>1, <2>2 DEF Fields
<1>10. CreditOk(c, doc'[c], applications')
  BY <1>7, <1>8, <1>9 DEF CreditOk, OnBooks, OffBooks
<1>11. CreditsOk'
  <2>1. \A x \in Credits \ {c} : /\ doc'[x] = doc[x]
                                 /\ LiveOf(applications', x) = LiveOf(applications, x)
                                 /\ AppliedTo(applications', x) = AppliedTo(applications, x)
    BY <1>8, <1>9
  <2> QED BY <1>4, <1>10, <2>1, OneCredit
<1>12. doc[c].status # "none"
  BY <1>5
<1>13. Leaves(p)
  <2>1. Touches(p)
    BY <1>0, <1>3, <1>7, <1>8, <1>9 DEF Touches
  <2> QED BY <1>3, <1>6, <1>8, <1>9, <1>11, <1>12, <2>1 DEF Leaves, OnBooks
<1> QED BY <1>3, <1>13, CreditCommits

LEMMA CreditPost ==
  ASSUME ReceivablesAssumption, CreditsApart, CreditInv, LedgerInv', NEW p \in Procs, Post(p)
  PROVE  CreditInv'
<1>0. PICK q : q = Asks(p)
  OBVIOUS
<1>1. PICK c : c = q.credit
  OBVIOUS
<1>2. /\ Ready(p, q) /\ q.kind = "post" /\ job[p] # Idle /\ \A x \in Touched(q) : lock[x] \in {None, p}
      /\ End(p) /\ todo' \subseteq todo /\ todo \ {job[p].req} \subseteq todo' /\ job[p].req \notin todo'
      /\ \A k \in DOMAIN applications : k.req # job[p].req
  <2>1. Committing(p, "post")
    BY DEF Post
  <2> QED BY <1>0, <2>1, CreditReady
<1>3. c \in Credits /\ c \in Docs /\ \A x \in Credits : x \in Docs
  <2>1. c \in Credits
    BY <1>0, <1>1, <1>2, RequestIs DEF Ready
  <2> QED BY <2>1 DEF Docs
<1>4. /\ seen[p][c].status = "draft" /\ <<"post", c>> \notin Sources /\ c \notin Created
      /\ lock[c] \in {None, p}
  <2>1. CanCommit(p)
    BY DEF Post
  <2>2. seen[p][c].status = "draft" /\ <<"post", c>> \notin Sources
    BY <1>0, <1>1, <1>2, <2>1 DEF CanCommit, Asks, IsFree, Sources
  <2>3. c \in DOMAIN seen[p] /\ c \in Touched(q)
    BY <1>1, <1>2 DEF Ready, Named, Touched
  <2> QED BY <1>2, <2>2, <2>3 DEF CreditInv, NoDrafts
<1>5. /\ AppsSound(applications) /\ Counts(applications) /\ AppliedTo(applications, c) \in Int
      /\ doc[c].status \notin OnBooks /\ LiveOf(applications, c) = {}
  <2>1. doc[c].status \notin OnBooks
    BY <1>3, <1>4 DEF CreditInv, PostedOnce
  <2>2. CreditOk(c, doc[c], applications)
    BY <1>3 DEF CreditInv, CreditsOk
  <2>3. AppsSound(applications)
    BY RowsSound DEF CreditInv
  <2> QED BY <2>1, <2>2, <2>3, AppliedIs DEF CreditInv, CreditOk
<1>6. Sources \subseteq Sources' /\ <<"post", c>> \in Sources'
  <2>1. entries' = WithEntry(<<"post", c>>, PostingEntry(c))
    BY <1>0, <1>1 DEF Post, Asks
  <2> QED BY <2>1 DEF WithEntry, Sources
<1> DEFINE posted == PostedRow(c)
<1>7. /\ CreditOk(c, posted, applications) /\ posted.status \in OnBooks
      /\ posted.left = Amount[c] /\ posted.amount = Amount[c] /\ Amount[c] \in Nat
      /\ Written(Sources', c, posted)
  <2>1. Written(Sources', c, posted)
    BY <1>3, <1>6, PostedKept DEF Kept
  <2> QED BY <1>3, <1>5, <2>1, CreditPosted
<1>8. DOMAIN doc = Docs
  BY DEF CreditInv, LedgerInv, DocsOk
<1>9. CASE Linked(c) = {}
  <2>1. doc' = [doc EXCEPT ![c] = posted] /\ applications' = applications
    BY <1>0, <1>1, <1>9 DEF Post, Asks
  <2> HIDE DEF posted
  <2>2. doc'[c] = posted /\ \A x \in Credits \ {c} : doc'[x] = doc[x]
    BY <1>3, <1>8, <2>1
  <2>3. CreditsOk'
    <3>1. \A x \in Credits \ {c} : /\ doc'[x] = doc[x]
                                   /\ LiveOf(applications', x) = LiveOf(applications, x)
                                   /\ AppliedTo(applications', x) = AppliedTo(applications, x)
      BY <2>1, <2>2
    <3>2. CreditOk(c, doc'[c], applications')
      BY <1>7, <2>1, <2>2
    <3> QED BY <1>3, <3>1, <3>2, OneCredit
  <2>4. Touches(p)
    BY <1>0, <1>2, <1>4, <1>5, <2>1, <2>2 DEF Touches
  <2>5. \A x \in Credits : doc'[x] = doc[x] \/ (x = c /\ doc'[x].status # "draft")
    BY <1>7, <2>2 DEF OnBooks
  <2>6. Leaves(p)
    BY <1>2, <1>4, <1>5, <1>6, <2>1, <2>3, <2>4, <2>5 DEF Leaves
  <2> QED BY <1>2, <2>6, CreditCommits
<1>10. CASE Linked(c) # {}
  <2>1. PICK i \in Linked(c) :
          /\ doc' = [doc EXCEPT ![c] = DrawnByNote(PostedRow(c), Smaller(Amount[c], seen[p][i].left)),
                                ![i] = NoteApplied(seen[p][i], Amount[c])]
          /\ applications' = WithRow(Row(job[p].req, c, i), Smaller(Amount[c], seen[p][i].left))
    BY <1>0, <1>1, <1>10 DEF Post, Asks
  <2>2. PICK a : a = Smaller(Amount[c], seen[p][i].left)
    OBVIOUS
  <2>3. /\ i \in Invoices /\ Kind[c] = "note" /\ lock[i] \in {None, p} /\ i \in DOMAIN seen[p]
        /\ i # c /\ i \in Docs /\ \A x \in Credits : x # i
    <3>1. i \in Invoices /\ Kind[c] = "note"
      BY <1>3, LinkedIs
    <3>2. i \in DOMAIN seen[p] /\ i \in Touched(q)
      BY <1>1, <1>2 DEF Ready, Named, Touched
    <3> QED BY <1>2, <1>3, <3>1, <3>2 DEF Docs, ReceivablesAssumption
  <2>4. a \in Int /\ a <= Amount[c]
    <3>1. seen[p][i].left \in Int
      BY <1>2, <2>3 DEF Ready, Written
    <3> QED BY <1>7, <2>2, <3>1 DEF Smaller
  <2>5. PICK row : row = Row(job[p].req, c, i)
    OBVIOUS
  <2>6. Grown(row, c, a)
    <3>1. applications' = WithRow(row, a) /\ (Kind[c] # "note" => a > 0)
      BY <2>1, <2>2, <2>3, <2>5
    <3> QED BY <1>2, <2>4, <2>5, <3>1, OneMore
  <2>7. PICK new : new = applications'
    OBVIOUS
  <2> DEFINE credit == DrawnByNote(posted, a)
  <2>8. CreditOk(c, credit, new) /\ credit.status \in OnBooks
    <3>1. AppliedTo(new, c) = AppliedTo(applications, c) + a /\ a <= posted.left
      BY <1>7, <2>4, <2>6, <2>7 DEF Grown
    <3> HIDE DEF posted
    <3> QED BY <1>5, <1>7, <2>3, <2>4, <3>1, CreditDrawn
  <2>9. doc'[c] = credit /\ \A x \in Credits \ {c} : doc'[x] = doc[x]
    <3>1. doc' = [doc EXCEPT ![c] = credit, ![i] = NoteApplied(seen[p][i], Amount[c])]
      BY <2>1, <2>2
    <3> HIDE DEF credit
    <3> QED BY <1>3, <1>8, <2>3, <3>1
  <2> HIDE DEF credit
  <2>10. CreditsOk'
    <3>1. CreditOk(c, doc'[c], applications')
      BY <2>7, <2>8, <2>9
    <3>2. \A x \in Credits \ {c} : /\ doc'[x] = doc[x]
                                   /\ LiveOf(applications', x) = LiveOf(applications, x)
                                   /\ AppliedTo(applications', x) = AppliedTo(applications, x)
      BY <2>6, <2>9 DEF Grown
    <3> QED BY <1>3, <3>1, <3>2, OneCredit
  <2>11. /\ DOMAIN applications \subseteq DOMAIN applications' /\ Counts(applications')
         /\ \A k \in DOMAIN applications : applications'[k] = applications[k]
         /\ \A k \in DOMAIN applications' \ DOMAIN applications :
              k.invoice = i /\ k.req = job[p].req
    BY <2>5, <2>6 DEF Grown, Row
  <2>12. Touches(p)
    BY <1>0, <1>2, <1>4, <1>5, <2>3, <2>9, <2>11 DEF Touches
  <2>13. \A x \in Credits : doc'[x] = doc[x] \/ (x = c /\ doc'[x].status # "draft")
    BY <2>8, <2>9 DEF OnBooks
  <2>14. \A k \in DOMAIN applications' : k \in DOMAIN applications \/ k.req \notin todo'
    BY <1>2, <2>11
  <2>15. Leaves(p)
    BY <1>2, <1>4, <1>6, <2>10, <2>11, <2>12, <2>13, <2>14 DEF Leaves
  <2> QED BY <1>2, <2>15, CreditCommits
<1> QED BY <1>9, <1>10

(* What a payment uses of a credit is applied, spread over its invoices.   *)
LEMMA PaymentSpreads ==
  ASSUME ReceivablesAssumption, NEW q, IsPayment(q), NEW rows, RowsKnown(q, rows), CanPay(q, rows),
         NEW r, NEW A, A = {k \in PaymentRows(r, q) : PaidBy(q, rows, k) > 0},
         NEW g, \A k \in A : g[k] = PaidBy(q, rows, k), NEW c \in DOMAIN q.uses
  PROVE  SumFunctionOnSet(g, RowsOf(A, c)) = q.uses[c]
<1>1. PICK T : T = q.uses[c]
  OBVIOUS
<1> DEFINE D == DOMAIN q.lines
           w == SpreadOf(D, SharesOf(q, rows, T), T)
           P == {i \in D : w[i] > 0}
           R == RowsOf(A, c)
           b == [i \in P |-> Row(r, c, i)]
<1>2. T \in Nat /\ T > 0 /\ T <= TotalSettled(q, rows)
  BY <1>1, SharesAreNat
<1>3. /\ Shares(D, SettledOf(q, rows), SharesOf(q, rows, T), T)
      /\ \A i \in D : ProRata(q, rows, T)[i] = w[i]
  <2>1. T # 0
    BY <1>2
  <2> QED BY <1>2, <2>1, ProRataIs
<1>4. SumFunctionOnSet(w, D) = T /\ \A i \in D : w[i] \in Nat
  BY <1>3, SpreadAddsUp, SpreadIsNat
<1>5. IsFiniteSet(D) /\ IsFiniteSet(P)
  <2>1. P \in SUBSET D /\ IsFiniteSet(D)
    BY LinesAre
  <2> QED BY <2>1, FS_Subset
<1>6. \A i \in D : Row(r, c, i) \in PaymentRows(r, q) /\ PaidBy(q, rows, Row(r, c, i)) = w[i]
  BY <1>1, <1>3 DEF PaymentRows, PaidBy, Row
<1>7. \A k \in R : k.invoice \in D /\ k = Row(r, c, k.invoice) /\ PaidBy(q, rows, k) > 0
  BY DEF RowsOf, PaymentRows, Row
<1> HIDE DEF w
<1>8. \A i \in P : Row(r, c, i) \in R /\ g[Row(r, c, i)] = w[i]
  <2>1. ASSUME NEW i \in P PROVE Row(r, c, i) \in A /\ PaidBy(q, rows, Row(r, c, i)) = w[i]
    BY <1>6
  <2>2. ASSUME NEW i \in P PROVE Row(r, c, i).credit = c
    BY DEF Row
  <2> QED BY <2>1, <2>2 DEF RowsOf
<1>9. \A k \in R : k.invoice \in P
  BY <1>6, <1>7
<1>10. b \in Bijection(P, R)
  <2>1. DOMAIN b = P /\ \A i \in P : b[i] = Row(r, c, i)
    OBVIOUS
  <2>2. b \in [P -> R]
    BY <1>8
  <2>3. \A i, j \in P : b[i] = b[j] => i = j
    BY <2>1 DEF Row
  <2>4. \A k \in R : \E i \in P : b[i] = k
    BY <1>7, <1>9, <2>1
  <2> HIDE DEF b, R, P
  <2> QED BY <2>2, <2>3, <2>4 DEF Bijection, Injection, Surjection, IsInjective
<1>11. \A i \in P : g[b[i]] = w[i]
  BY <1>8
<1>12. SumFunctionOnSet(w, D) = SumFunctionOnSet(w, P)
  <2>1. P \in SUBSET D /\ IntOn(w, P) /\ \A i \in D \ P : w[i] = 0
    BY <1>4 DEF IntOn
  <2> HIDE DEF P
  <2> QED BY <1>5, <2>1, SumSupport
<1>13. IntOn(w, P)
  BY <1>4 DEF IntOn
<1> HIDE DEF P, R, b, D
<1>14. SumFunctionOnSet(g, R) = SumFunctionOnSet(w, P)
  BY <1>5, <1>10, <1>11, <1>13, SumRenamed
<1> QED BY <1>1, <1>4, <1>12, <1>14 DEF R

LEMMA CreditPay ==
  ASSUME ReceivablesAssumption, CreditsApart, CreditInv, LedgerInv', NEW p \in Procs, Pay(p)
  PROVE  CreditInv'
<1>0. PICK q : q = Asks(p)
  OBVIOUS
<1>1. PICK rows : rows = seen[p]
  OBVIOUS
<1>2. PICK r : r = job[p].req
  OBVIOUS
<1>3. /\ Ready(p, q) /\ q.kind = "pay" /\ job[p] # Idle /\ job[p].stage = "entered" /\ Fresh(p)
      /\ \A x \in Touched(q) : lock[x] \in {None, p}
      /\ End(p) /\ todo' \subseteq todo /\ todo \ {r} \subseteq todo' /\ r \notin todo'
      /\ \A k \in DOMAIN applications : k.req # r
  <2>1. Committing(p, "pay")
    BY DEF Pay
  <2> QED BY <1>0, <1>2, <2>1, CreditReady
<1>4. CanPay(q, rows)
  <2>1. CanCommit(p)
    BY DEF Pay
  <2> QED BY <1>0, <1>1, <1>3, <2>1 DEF CanCommit, Asks
<1>5. /\ IsPayment(q) /\ r \in DOMAIN Request /\ q = Request[r] /\ r \in todo
      /\ q.makes \in Created \cup {None}
      /\ DOMAIN q.lines \subseteq Invoices /\ DOMAIN q.uses \subseteq Credits
      /\ IsFiniteSet(DOMAIN q.lines) /\ IsFiniteSet(DOMAIN q.uses)
      /\ DOMAIN q.lines \subseteq DOMAIN rows /\ DOMAIN q.uses \subseteq DOMAIN rows
  <2>1. r \in DOMAIN Request /\ q = Request[r] /\ IsPayment(q)
    BY <1>2, <1>3, RequestIs DEF Ready
  <2>2. q.makes \in Created \cup {None}
    BY <1>3, <2>1 DEF ReceivablesAssumption
  <2>3. r \in todo
    BY <1>2, <1>3 DEF CreditInv, Together
  <2> QED BY <1>1, <1>3, <2>1, <2>2, <2>3, LinesAre DEF Ready, Named
<1>6. RowsKnown(q, rows)
  BY <1>1, <1>3, <1>5 DEF RowsKnown, Ready, Written
<1>7. PICK A : A = {k \in PaymentRows(r, q) : PaidBy(q, rows, k) > 0}
  OBVIOUS
<1>8. /\ IsFiniteSet(A) /\ \A k \in A : /\ k.credit \in DOMAIN q.uses /\ k.invoice \in DOMAIN q.lines
                                        /\ k.req = r /\ PaidBy(q, rows, k) > 0
                                        /\ PaidBy(q, rows, k) \in Int
  <2>1. /\ IsFiniteSet(PaymentRows(r, q))
        /\ \A k \in PaymentRows(r, q) :
             k.credit \in DOMAIN q.uses /\ k.invoice \in DOMAIN q.lines /\ k = Row(r, k.credit, k.invoice)
    BY <1>5, PaymentRowsAre
  <2>2. A \in SUBSET PaymentRows(r, q)
    BY <1>7
  <2>3. \A k \in PaymentRows(r, q) : k.req = r
    BY <2>1 DEF Row
  <2>4. ASSUME NEW k \in A PROVE PaidBy(q, rows, k) \in Int
    <3>1. k.credit \in DOMAIN q.uses /\ k.invoice \in DOMAIN q.lines
      BY <2>1, <2>2
    <3> QED BY <1>4, <1>5, <1>6, <3>1, SharesAreNat DEF PaidBy
  <2> QED BY <1>7, <2>1, <2>2, <2>3, <2>4, FS_Subset
<1>9. PICK new : new = applications'
  OBVIOUS
<1>10. /\ DOMAIN new = DOMAIN applications \cup A
       /\ \A k \in DOMAIN applications : new[k] = applications[k]
       /\ \A k \in A : new[k] = [amount |-> PaidBy(q, rows, k), live |-> TRUE]
  <2>1. new = [k \in DOMAIN applications \cup A |->
                 IF k \in A THEN [amount |-> PaidBy(q, rows, k), live |-> TRUE] ELSE applications[k]]
    BY <1>0, <1>1, <1>2, <1>7, <1>9 DEF Pay, Asks
  <2>2. \A k \in DOMAIN applications : k \notin A
    BY <1>3, <1>8
  <2> QED BY <2>1, <2>2
<1>11. AppsSound(applications) /\ More(applications, A, new)
  <2>1. A \cap DOMAIN applications = {}
    BY <1>3, <1>8
  <2>2. \A k \in A : new[k].live = TRUE /\ new[k].amount \in Int
    BY <1>8, <1>10
  <2> QED BY <1>8, <1>10, <2>1, <2>2, RowsSound DEF More, CreditInv
<1>12. Counts(new)
  BY <1>8, <1>10 DEF CreditInv, Counts
<1>13. PICK extra : extra = NewDeposit(q, rows)
  OBVIOUS
<1>14. \A x \in Credits :
         doc'[x] = IF x \in DOMAIN q.uses THEN Drawn(rows[x], q.uses[x])
                   ELSE IF x = q.makes /\ extra > 0
                        THEN [status |-> "open", amount |-> extra, left |-> extra, entry |-> <<"pay", r>>]
                   ELSE doc[x]
  <2>1. \A x \in Credits : x \in Docs /\ x \notin DOMAIN q.lines
    BY <1>5 DEF Docs, ReceivablesAssumption
  <2>2. doc' = [x \in Docs |->
                  IF x \in DOMAIN q.lines THEN PaidDown(rows[x], Settles(q, rows, x))
                  ELSE IF x \in DOMAIN q.uses THEN Drawn(rows[x], q.uses[x])
                  ELSE IF x = q.makes /\ extra > 0
                       THEN [status |-> "open", amount |-> extra, left |-> extra, entry |-> <<"pay", r>>]
                  ELSE doc[x]]
    BY <1>0, <1>1, <1>2, <1>13 DEF Pay, Asks
  <2> QED BY <2>1, <2>2
<1>15. ASSUME NEW c \in DOMAIN q.uses
       PROVE  /\ c \in Credits /\ doc[c].status \in OnBooks /\ lock[c] \in {None, p}
              /\ CreditOk(c, doc'[c], new) /\ doc'[c].status \in OnBooks
  <2>1. c \in Credits /\ c \in Docs
    BY <1>5, <1>15 DEF Docs
  <2>2. rows[c] = doc[c] /\ doc[c].status \in OnBooks /\ q.uses[c] <= doc[c].left /\ q.uses[c] \in Int
    <3>1. Open(rows[c]) /\ q.uses[c] <= rows[c].left
      BY <1>4, <1>15 DEF CanPay
    <3>2. rows[c] = doc[c] \/ rows[c].status = "none"
      BY <1>0, <1>1, <1>3, <1>15 DEF Fresh
    <3> QED BY <1>5, <3>1, <3>2, LinesAre DEF Open, OnBooks
  <2>3. lock[c] \in {None, p}
    BY <1>3, <1>15 DEF Touched
  <2>4. AppliedTo(new, c) = AppliedTo(applications, c) + q.uses[c]
    <3>1. \A k \in A : AmountsOf(new)[k] = PaidBy(q, rows, k)
      BY <1>10 DEF AmountsOf
    <3>2. SumFunctionOnSet(AmountsOf(new), RowsOf(A, c)) = q.uses[c]
      BY <1>4, <1>5, <1>6, <1>7, <3>1, PaymentSpreads
    <3> QED BY <1>11, <3>2, AppliedMore
  <2>5. /\ Written(Sources, c, doc[c]) /\ CreditOk(c, doc[c], applications)
        /\ AppliedTo(applications, c) \in Int
    BY <1>11, <2>1, AppliedIs DEF CreditInv, CreditsOk, LedgerInv, DocsOk
  <2>6. CreditOk(c, Drawn(doc[c], q.uses[c]), new) /\ Drawn(doc[c], q.uses[c]).status \in OnBooks
    BY <2>2, <2>4, <2>5, CreditDrawn
  <2>7. doc'[c] = Drawn(doc[c], q.uses[c])
    BY <1>14, <1>15, <2>1, <2>2
  <2> QED BY <2>1, <2>2, <2>3, <2>6, <2>7
<1>16. ASSUME NEW c \in Credits, c \notin DOMAIN q.uses
       PROVE  LiveOf(new, c) = LiveOf(applications, c) /\ AppliedTo(new, c) = AppliedTo(applications, c)
  <2>1. RowsOf(A, c) = {}
    BY <1>8, <1>16 DEF RowsOf
  <2>2. LiveOf(new, c) = LiveOf(applications, c) \cup RowsOf(A, c)
    BY <1>11, AppliedMore
  <2>3. AppliedTo(new, c) = AppliedTo(applications, c)
    BY <1>11, <2>1, AppliedMore
  <2> QED BY <2>1, <2>2, <2>3
<1>17. ASSUME NEW c \in Credits, c \notin DOMAIN q.uses, c = q.makes, extra > 0
       PROVE  /\ doc[c].status = "none" /\ c \in Created /\ doc'[c].status = "open"
              /\ CreditOk(c, doc'[c], new)
  <2>1. c \in Created
    <3>1. c # None
      BY <1>17, Zenon DEF ReceivablesAssumption
    <3> QED BY <1>5, <1>17, <3>1
  <2>2. doc[c].status = "none"
    <3>1. Request[r].kind = "pay" /\ Request[r].makes = c /\ c # None
      BY <1>3, <1>5, <1>17, Zenon DEF ReceivablesAssumption
    <3> QED BY <1>5, <3>1 DEF CreditInv, NotMade
  <2>3. LiveOf(applications, c) = {}
    BY <2>2 DEF CreditInv, CreditsOk, CreditOk, OnBooks
  <2>4. AppliedTo(new, c) = 0
    BY <1>11, <1>16, <1>17, <2>3, AppliedIs
  <2>5. doc'[c].status = "open" /\ doc'[c].left = extra /\ doc'[c].amount = extra
    <3>1. doc'[c] = [status |-> "open", amount |-> extra, left |-> extra, entry |-> <<"pay", r>>]
      BY <1>14, <1>17, Zenon
    <3> QED BY <3>1
  <2>6. extra \in Int
    <3>1. SumFunction(q.lines) \in Int
      BY <1>5, LinesAre, SumNat DEF SumFunction
    <3>2. TotalSettled(q, rows) \in Int /\ q.extra \in Int
      BY <1>5, <1>6, SettlesIs DEF IsPayment
    <3> QED BY <1>13, <3>1, <3>2 DEF NewDeposit, Overage
  <2>7. CreditOk(c, doc'[c], new)
    BY <2>4, <2>5, <2>6 DEF CreditOk, OnBooks
  <2> QED BY <2>1, <2>2, <2>5, <2>7
<1>18. ASSUME NEW c \in Credits
       PROVE  \/ doc'[c] = doc[c] /\ c \notin DOMAIN q.uses
              \/ c \in DOMAIN q.uses
              \/ c \notin DOMAIN q.uses /\ c = q.makes /\ extra > 0
  BY <1>14
<1>19. CreditsOk'
  <2>1. ASSUME NEW c \in Credits PROVE CreditOk(c, doc'[c], new)
    <3>1. CASE doc'[c] = doc[c] /\ c \notin DOMAIN q.uses
      BY <1>16, <3>1, CreditLike DEF CreditInv, CreditsOk
    <3> QED BY <1>15, <1>17, <1>18, <3>1
  <2> QED BY <1>9, <2>1 DEF CreditsOk
<1>20. Leaves(p)
  <2>1. \A c \in Credits : doc'[c] = doc[c] \/ lock[c] \in {None, p} \/ doc[c].status = "none"
    BY <1>15, <1>17, <1>18
  <2>2. Touches(p)
    BY <1>0, <1>3, <2>1 DEF Touches
  <2>3. ASSUME NEW c \in Credits
        PROVE  \/ doc'[c] = doc[c]
               \/ /\ doc'[c].status # "draft"
                  /\ doc[c].status \in OnBooks \/ c \in Created
                  /\ doc[c].status # "none" \/ Asks(p).makes = c
    BY <1>0, <1>15, <1>17, <1>18 DEF OnBooks
  <2>4. Sources \subseteq Sources'
    BY DEF Pay, WithEntry, Sources
  <2>5. \A k \in DOMAIN applications' : k \in DOMAIN applications \/ k.req \notin todo'
    BY <1>3, <1>8, <1>9, <1>10
  <2> QED BY <1>0, <1>2, <1>3, <1>9, <1>12, <1>19, <2>2, <2>3, <2>4, <2>5 DEF Leaves
<1> QED BY <1>3, <1>20, CreditCommits

LEMMA AmountsAre ==
  ASSUME CreditInv, NEW S, S \in SUBSET DOMAIN applications
  PROVE  AmountOf(S) = SumFunctionOnSet(AmountsOf(applications), S) /\ AmountOf(S) \in Int
<1> DEFINE g == [k \in S |-> applications[k].amount]
           f == AmountsOf(applications)
<1>1. DOMAIN g = S /\ IsFiniteSet(S) /\ IntOn(f, S) /\ \A k \in S : g[k] = f[k]
  <2>1. AppsSound(applications)
    BY RowsSound DEF CreditInv
  <2> QED BY <2>1, FS_Subset DEF AppsSound, AmountsOf, IntOn
<1>2. AmountOf(S) = SumFunction(g)
  BY DEF AmountOf
<1> HIDE DEF f, g
<1>3. SumFunction(g) = SumFunctionOnSet(f, S)
  BY <1>1, SumOfIs
<1>4. SumFunctionOnSet(f, S) \in Int
  BY <1>1, SumInt
<1> QED BY <1>2, <1>3, <1>4 DEF f

LEMMA CreditVoidInvoice ==
  ASSUME ReceivablesAssumption, CreditsApart, CreditInv, LedgerInv', NEW p \in Procs, VoidInvoice(p)
  PROVE  CreditInv'
<1>0. PICK q : q = Asks(p)
  OBVIOUS
<1>1. PICK i : i = q.invoice
  OBVIOUS
<1>2. PICK N : N = NotesOn(i)
  OBVIOUS
<1>3. /\ Ready(p, q) /\ q.kind = "voidInvoice" /\ job[p] # Idle /\ job[p].stage = "entered" /\ Fresh(p)
      /\ End(p) /\ todo' \subseteq todo /\ todo \ {job[p].req} \subseteq todo' /\ job[p].req \notin todo'
  <2>1. Committing(p, "voidInvoice")
    BY Zenon DEF VoidInvoice
  <2> QED BY <1>0, <2>1, CreditReady
<1>4. i \in Invoices /\ \A c \in Credits : c \in Docs /\ c # i
  <2>1. i \in Invoices
    BY <1>1, <1>3, RequestIs DEF Ready
  <2> QED BY <2>1 DEF Docs, ReceivablesAssumption
<1>5. /\ \A k \in N : /\ k.credit \in DOMAIN seen[p] /\ k \in DOMAIN applications
                      /\ applications[k].live /\ Kind[k.credit] = "note"
      /\ \A c \in DOMAIN seen[p] \ {i} : seen[p][c] = doc[c] /\ \E k \in N : k.credit = c
  BY <1>0, <1>1, <1>2, <1>3 DEF Fresh, NotesOn, Live
<1>6. PICK new : new = applications'
  OBVIOUS
<1>7. AppsSound(applications) /\ Less(applications, N, new) /\ Counts(new)
  <2>1. new = [k \in DOMAIN applications |->
                 [applications[k] EXCEPT !.live = @ /\ k \notin N]]
    BY <1>0, <1>1, <1>2, <1>6, Zenon DEF VoidInvoice, Asks
  <2>2. \A k \in DOMAIN applications : DOMAIN applications[k] = {"amount", "live"}
    BY DEF CreditInv, LedgerInv, AppsOk
  <2>3. DOMAIN new = DOMAIN applications
        /\ \A k \in DOMAIN applications : /\ new[k].amount = applications[k].amount
                                          /\ new[k].live <=> applications[k].live /\ k \notin N
    BY <2>1, <2>2, Zenon
  <2>4. Counts(new)
    BY <2>3 DEF CreditInv, Counts
  <2> QED BY <1>5, <2>3, <2>4, RowsSound DEF Less, CreditInv
<1>8. \A c \in Credits :
        doc'[c] = IF c \in DOMAIN seen[p]
                  THEN GivenBack(seen[p][c], AmountOf({k \in N : k.credit = c})) ELSE doc[c]
  <2>1. doc' = [x \in Docs |->
                  IF x = i THEN [doc[i] EXCEPT !.status = "voided", !.left = 0]
                  ELSE IF x \in DOMAIN seen[p]
                       THEN GivenBack(seen[p][x], AmountOf({k \in N : k.credit = x}))
                  ELSE doc[x]]
    BY <1>0, <1>1, <1>2, Zenon DEF VoidInvoice, Asks
  <2> QED BY <1>4, <2>1
<1>9. ASSUME NEW c \in Credits, c \in DOMAIN seen[p]
      PROVE  /\ Kind[c] = "note" /\ LiveOf(applications, c) # {} /\ doc[c].status \in OnBooks
             /\ CreditOk(c, doc'[c], new) /\ doc'[c].status \in OnBooks
  <2>1. seen[p][c] = doc[c] /\ \E k \in N : k.credit = c
    BY <1>4, <1>5, <1>9
  <2>2. Kind[c] = "note" /\ LiveOf(applications, c) # {}
    BY <1>5, <2>1 DEF LiveOf
  <2>3. /\ Written(Sources, c, doc[c]) /\ CreditOk(c, doc[c], applications)
        /\ AppliedTo(applications, c) \in Int
    BY <1>4, <1>7, AppliedIs DEF CreditInv, CreditsOk, LedgerInv, DocsOk
  <2>4. doc[c].status \in OnBooks
    BY <2>2, <2>3 DEF CreditOk
  <2>5. PICK S : S = RowsOf(N, c)
    OBVIOUS
  <2>6. PICK a : a = AmountOf(S)
    OBVIOUS
  <2>7. a = SumFunctionOnSet(AmountsOf(applications), S) /\ a \in Int
    <3>1. S \in SUBSET DOMAIN applications
      BY <1>5, <2>5 DEF RowsOf
    <3> QED BY <2>6, <3>1, AmountsAre
  <2>8. AppliedTo(new, c) = AppliedTo(applications, c) - a
    BY <1>7, <2>5, <2>7, AppliedLess
  <2>9. CreditOk(c, GivenBack(doc[c], a), new) /\ GivenBack(doc[c], a).status \in OnBooks
    BY <2>3, <2>4, <2>7, <2>8, CreditBack
  <2>10. doc'[c] = GivenBack(doc[c], a)
    BY <1>8, <1>9, <2>1, <2>5, <2>6 DEF RowsOf
  <2> QED BY <2>2, <2>4, <2>9, <2>10
<1>10. ASSUME NEW c \in Credits, c \notin DOMAIN seen[p]
       PROVE  doc'[c] = doc[c] /\ CreditOk(c, doc'[c], new)
  <2>1. RowsOf(N, c) = {}
    BY <1>5, <1>10 DEF RowsOf
  <2>2. LiveOf(new, c) = LiveOf(applications, c) /\ AppliedTo(new, c) = AppliedTo(applications, c)
    BY <1>7, <2>1, AppliedLess
  <2>3. doc'[c] = doc[c]
    BY <1>8, <1>10
  <2> QED BY <2>2, <2>3, CreditLike DEF CreditInv, CreditsOk
<1>11. CreditsOk'
  BY <1>6, <1>9, <1>10 DEF CreditsOk
<1>12. \A c \in Credits : LiveOf(new, c) \subseteq LiveOf(applications, c)
  BY <1>7, AppliedLess
<1>13. Leaves(p)
  <2>1. Touches(p)
    BY <1>0, <1>3, <1>6, <1>9, <1>10, <1>12 DEF Touches
  <2>2. Sources \subseteq Sources'
    BY Zenon DEF VoidInvoice, WithEntry, Sources
  <2>3. DOMAIN applications' = DOMAIN applications
    BY <1>6, <1>7 DEF Less
  <2>4. \A c \in Credits : \/ doc'[c] = doc[c]
                           \/ /\ doc'[c].status # "draft" /\ doc[c].status \in OnBooks
                              /\ doc[c].status # "none"
    BY <1>9, <1>10 DEF OnBooks
  <2> QED BY <1>3, <1>6, <1>7, <1>11, <2>1, <2>2, <2>3, <2>4 DEF Leaves
<1> QED BY <1>3, <1>13, CreditCommits

LEMMA CreditBegins ==
  ASSUME ReceivablesAssumption, CreditInv, LedgerInv', NEW p \in Procs, BeginAny(p)
  PROVE  CreditInv'
<1>1. PICK r \in todo :
        \/ BeginPost(p, r) \/ BeginApply(p, r) \/ BeginUnapply(p, r) \/ BeginVoid(p, r)
        \/ BeginPay(p, r) \/ BeginVoidInvoice(p, r) \/ BeginSend(p, r)
  BY DEF BeginAny
<1>2. PICK q : q = Request[r]
  OBVIOUS
<1>3. CASE BeginPost(p, r) \/ BeginPay(p, r) \/ BeginVoidInvoice(p, r) \/ BeginSend(p, r)
  <2>1. Begin(p, r, None) /\ q.kind \in {"post", "pay", "voidInvoice", "send"}
    BY <1>2, <1>3 DEF BeginPost, BeginPay, BeginVoidInvoice, BeginSend
  <2> QED BY <1>2, <2>1, CreditBegin
<1>4. CASE BeginApply(p, r)
  <2>1. /\ Begin(p, r, None) /\ q.kind = "apply"
        /\ Open(doc[q.credit]) /\ q.amount <= doc[q.credit].left
    BY <1>2, <1>4 DEF BeginApply
  <2> QED BY <1>2, <2>1, CreditBegin
<1>5. CASE BeginUnapply(p, r)
  <2>1. PICK k \in DOMAIN applications :
          Live(k) /\ k.credit = q.credit /\ q.kind = "unapply" /\ Begin(p, r, k)
    BY <1>2, <1>5 DEF BeginUnapply
  <2>2. k \in LiveOf(applications, q.credit)
    BY <2>1 DEF Live, LiveOf
  <2> QED BY <1>2, <2>1, <2>2, CreditBegin
<1>6. CASE BeginVoid(p, r)
  <2>1. /\ Begin(p, r, None) /\ q.kind = "void" /\ doc[q.credit].status \in {"draft", "open"}
        /\ Kind[q.credit] = "note" => \A k \in DOMAIN applications : ~(Live(k) /\ k.credit = q.credit)
    BY <1>2, <1>6 DEF BeginVoid
  <2>2. Kind[q.credit] = "note" => LiveOf(applications, q.credit) = {}
    BY <2>1 DEF Live, LiveOf
  <2> QED BY <1>2, <2>1, <2>2, CreditBegin
<1> QED BY <1>1, <1>3, <1>4, <1>5, <1>6

LEMMA CreditStep ==
  ASSUME ReceivablesAssumption, CreditsApart, CreditInv, [Next]_vars
  PROVE  CreditInv'
<1>1. LedgerInv'
  BY LedgerStep DEF CreditInv
<1>2. CASE UNCHANGED vars
  <2>1. UNCHANGED <<doc, applications, settled, entries, lock, seen, job, todo>>
    BY <1>2 DEF vars
  <2>2. CreditsOk' /\ Counts(applications') /\ PostedOnce' /\ NoDrafts' /\ NotMade' /\ Pending' /\ Together'
    BY <2>1 DEF CreditInv, CreditsOk, Counts, PostedOnce, Sources, NoDrafts, NotMade, Pending, Together, Asks
  <2>3. ASSUME NEW p \in Procs, job'[p] # Idle PROVE Held(p)' /\ Fresh(p)'
    <3>1. Held(p) /\ Fresh(p) /\ Asks(p)' = Asks(p)
      BY <2>1, <2>3 DEF CreditInv, Asks
    <3> QED BY <2>1, <3>1 DEF Held, Fresh, NotesOn, Live
  <2> QED BY <1>1, <2>2, <2>3 DEF CreditInv
<1>3. ASSUME NEW p \in Procs, BeginAny(p) \/ Enter(p) \/ Commit(p) \/ Refuse(p) \/ Crash(p)
      PROVE  CreditInv'
  <2>1. CASE BeginAny(p)
    BY <1>1, <2>1, CreditBegins
  <2>2. CASE Enter(p)
    BY <1>1, <2>2, CreditEnter
  <2>3. CASE Refuse(p) \/ Crash(p)
    BY <1>1, <2>3, CreditRefuse
  <2>4. CASE Commit(p)
    BY <1>1, <2>4, CreditPost, CreditApplyCredit, CreditApplyNote, CreditUnapply, CreditVoidCredit,
       CreditPay, CreditVoidInvoice, CreditSend DEF Commit
  <2> QED BY <1>3, <2>1, <2>2, <2>3, <2>4
<1> QED BY <1>2, <1>3 DEF Next

LEMMA CreditMeans ==
  ASSUME CreditInv
  PROVE  CreditIsAccounted
<1>1. ASSUME NEW c \in Credits
      PROVE  LET applied == AmountOf({k \in DOMAIN applications : Live(k) /\ k.credit = c})
             IN CASE doc[c].status \in {"open", "part", "full"} -> doc[c].left = doc[c].amount - applied
                  [] OTHER -> applied = 0
  <2>1. PICK S : S = LiveOf(applications, c)
    OBVIOUS
  <2>2. {k \in DOMAIN applications : Live(k) /\ k.credit = c} = S
    BY <2>1 DEF LiveOf, Live
  <2>3. AmountOf(S) = AppliedTo(applications, c)
    <3>1. S \in SUBSET DOMAIN applications
      BY <2>1 DEF LiveOf
    <3> QED BY <2>1, <3>1, AmountsAre DEF AppliedTo
  <2>4. CreditOk(c, doc[c], applications) /\ (LiveOf(applications, c) = {} => AppliedTo(applications, c) = 0)
    BY RowsSound, AppliedIs DEF CreditInv, CreditsOk
  <2> QED BY <2>2, <2>3, <2>4 DEF CreditOk, OnBooks
<1> QED BY <1>1 DEF CreditIsAccounted

(* What is left of a credit is its amount less what is applied of it, and  *)
(* nothing of a voided one is applied, whoever posts, applies, voids and   *)
(* pays together, as long as they leave one another's credits alone.       *)
THEOREM CreditsAreAccounted == CreditsApart => (Spec => []CreditIsAccounted)
<1> SUFFICES ASSUME CreditsApart PROVE Spec => []CreditIsAccounted
  OBVIOUS
<1>1. Init => CreditInv
  BY ReceivablesAssumption, CreditInit
<1>2. CreditInv /\ [Next]_vars => CreditInv'
  BY ReceivablesAssumption, CreditStep
<1>3. CreditInv => CreditIsAccounted
  BY CreditMeans
<1> QED BY <1>1, <1>2, <1>3, PTL DEF Spec

-----------------------------------------------------------------------------
(* What the books hold against the documents: each document by what it     *)
(* carries into the two control accounts of the customers.                 *)

Controls == {"ar", "deposits"}

Carried(account, x, row) ==
  IF row.status \in OffBooks THEN 0
  ELSE IF account = "ar"
       THEN IF x \in Invoices THEN row.left ELSE IF Kind[x] = "deposit" THEN 0 ELSE -row.left
       ELSE IF x \in Credits /\ Kind[x] = "deposit" THEN -row.left ELSE 0

CarriedIn(account, d) == [x \in Docs |-> Carried(account, x, d[x])]
CarriedBy(account, d) == SumFunctionOnSet(CarriedIn(account, d), Docs)

InBalance == \A account \in Controls : Balance(account) = CarriedBy(account, doc)

(* What is applied to an invoice, from the application rows.               *)
OnInvoice(apps, i) == {k \in DOMAIN apps : apps[k].live /\ k.invoice = i}
PaidOf(apps, i) == SumFunctionOnSet(AmountsOf(apps), OnInvoice(apps, i))

(* The entry of the invoice has been reversed.                             *)
Returned(i) == <<"reverse", <<"post", i>>>> \in Sources

(* An invoice that no payment was received for owes its amount less what   *)
(* is applied to it; a voided one owes nothing.                            *)
InvoiceOk(i) ==
  /\ doc[i].entry = <<"post", i>> /\ doc[i].status \notin {"none", "draft"} /\ doc[i].left >= 0
  /\ doc[i].status = "voided" =>
       /\ doc[i].left = 0 /\ Returned(i)
       /\ \A k \in OnInvoice(applications, i) : Kind[k.credit] = "note"
  /\ ~Returned(i) /\ i \notin settled => doc[i].left = Amount[i] - PaidOf(applications, i)

InvoicesOk == \A i \in Invoices : InvoiceOk(i)

(* The posting of a document has its entry, whatever else was entered.     *)
Posting(x) == IF x \in Invoices THEN Entry(0, Amount[x], 0, -Amount[x]) ELSE PostingEntry(x)
Exact == \A x \in Docs : <<"post", x>> \in Sources => entries[<<"post", x>>] = Posting(x)

(* A credit that no payment made has its own entry, of its amount.         *)
Backed ==
  \A c \in Credits \ Created :
    doc[c].status \in OnBooks => doc[c].entry = <<"post", c>> /\ doc[c].amount = Amount[c]

(* What a request read of the invoices still stands, and a credit read as  *)
(* open has been voided by reversing its entry.                            *)
Known(p) ==
  LET q == Asks(p)
  IN CASE q.kind = "apply" ->
            /\ seen[p][q.invoice] = doc[q.invoice]
            /\ Kind[q.credit] # "note" => q.amount <= doc[q.invoice].left
       [] q.kind = "unapply" ->
            /\ seen[p][q.invoice] = doc[q.invoice] /\ job[p].app.invoice = q.invoice
            /\ Kind[q.credit] # "deposit"
            /\ Kind[q.credit] = "note" => doc[q.invoice].status # "voided"
       [] q.kind = "send" ->
            seen[p][q.invoice] = doc[q.invoice] /\ doc[q.invoice].status \in {"issued", "sent"}
       [] q.kind = "void" ->
            seen[p][q.credit].status = "open" /\ doc[q.credit].status = "voided" =>
              <<"reverse", seen[p][q.credit].entry>> \in Sources
       [] OTHER ->
            job[p].stage = "entered" =>
              \A i \in Locked(q) : i \in Invoices => seen[p][i] = doc[i]

NoneBelowZero == \A k \in DOMAIN applications : applications[k].amount >= 0

ControlInv ==
  /\ CreditInv /\ InBalance /\ InvoicesOk /\ Exact /\ Backed /\ NoneBelowZero
  /\ \A p \in Procs : job[p] # Idle => Known(p)

(* Payments, postings and voids may overlap, the rest is one at a time.    *)
InvoicesApart ==
  Overlap \subseteq {{"pay"}, {"post"}, {"void"}, {"voidInvoice"}, {"pay", "post"},
                     {"voidInvoice", "post"}, {"voidInvoice", "void"}}

(* A payment is received for invoices that owe something, and what is too  *)
(* much of it becomes a deposit.                                           *)
PaysWhatIsOwed(p) ==
  Pay(p) => LET q == Asks(p) rows == seen[p]
            IN /\ \A i \in DOMAIN q.lines : rows[i].left > 0 \/ rows[i].amount = 0
               /\ NewDeposit(q, rows) > 0 => q.makes # None

(* An invoice is voided when no deposit or receipt is applied to it.       *)
VoidsWhatIsFree(p) ==
  VoidInvoice(p) => \A k \in OnInvoice(applications, Asks(p).invoice) : Kind[k.credit] = "note"

(* A deposit that a payment made is not voided.                            *)
VoidsWhatWasPosted(p) == VoidCredit(p) => Asks(p).credit \notin Created

Heeded == \A p \in Procs : PaysWhatIsOwed(p) /\ VoidsWhatIsFree(p) /\ VoidsWhatWasPosted(p)

-----------------------------------------------------------------------------
(* Sums that a commit moves.                                               *)

LEMMA SumNegated ==
  ASSUME NEW S, IsFiniteSet(S), NEW f, NEW g, IntOn(f, S), \A x \in S : g[x] = -f[x]
  PROVE  SumFunctionOnSet(g, S) = -SumFunctionOnSet(f, S) /\ IntOn(g, S)
<1> DEFINE h == [x \in S |-> 0]
<1>1. IntOn(g, S)
  BY DEF IntOn
<1>2. \A x \in S : h[x] = f[x] + g[x]
  BY DEF IntOn
<1>3. SumFunctionOnSet(h, S) = 0
  BY SumZero
<1> HIDE DEF h
<1>4. SumFunctionOnSet(h, S) = SumFunctionOnSet(f, S) + SumFunctionOnSet(g, S)
  BY <1>1, <1>2, SumPlus
<1>5. SumFunctionOnSet(f, S) \in Int /\ SumFunctionOnSet(g, S) \in Int
  BY <1>1, SumInt
<1> QED BY <1>1, <1>3, <1>4, <1>5

(* A part of a set, in a sum over all of it.                               *)
LEMMA SumOfPart ==
  ASSUME NEW S, IsFiniteSet(S), NEW T, T \in SUBSET S, NEW f, IntOn(f, T),
         NEW g, \A x \in S : g[x] = IF x \in T THEN f[x] ELSE 0
  PROVE  SumFunctionOnSet(g, S) = SumFunctionOnSet(f, T) /\ IntOn(g, S)
<1>1. IsFiniteSet(T)
  BY FS_Subset
<1>2. IntOn(g, T) /\ IntOn(g, S) /\ (\A x \in T : f[x] = g[x]) /\ \A x \in S \ T : g[x] = 0
  BY DEF IntOn
<1>3. SumFunctionOnSet(g, S) = SumFunctionOnSet(g, T)
  BY <1>2, SumSupport
<1>4. SumFunctionOnSet(f, T) = SumFunctionOnSet(g, T)
  BY <1>1, <1>2, SumSame
<1> QED BY <1>2, <1>3, <1>4

(* A balance grows by what is entered, under a new source or an old one.   *)
LEMMA BalanceMoves ==
  ASSUME LedgerOk, NEW source, NEW e, Balanced(e), entries' = WithEntry(source, e),
         NEW account \in Accounts
  PROVE  Balance(account)' = Balance(account) + e[account]
<1> DEFINE S == DOMAIN entries
           U == DOMAIN entries'
           f == [s \in S |-> entries[s][account]]
           g == [s \in U |-> entries'[s][account]]
<1>1. Balance(account) = SumFunctionOnSet(f, S) /\ Balance(account)' = SumFunctionOnSet(g, U)
  BY DEF Balance, SumFunction
<1>2. /\ U = S \cup {source} /\ IsFiniteSet(S) /\ IntOn(f, S) /\ e[account] \in Int
      /\ DOMAIN e = Accounts
  BY DEF WithEntry, LedgerOk, Balanced, IntOn
<1>3. LedgerOk'
  BY LedgerGrows
<1>4. \A s \in S \ {source} : g[s] = f[s]
  BY <1>2 DEF WithEntry
<1>5. IntOn(g, U)
  BY <1>3 DEF LedgerOk, Balanced, IntOn
<1>6. CASE source \notin S
  <2>1. g[source] = e[account]
    BY <1>2, <1>6 DEF WithEntry
  <2>2. (\A s \in S : g[s] = f[s]) /\ g[source] \in Int
    BY <1>2, <1>4, <1>6, <2>1
  <2> HIDE DEF f, g, S, U
  <2>4. SumFunctionOnSet(g, S) = SumFunctionOnSet(f, S)
    BY <1>2, <2>2, SumSame
  <2>5. IntOn(g, S)
    BY <1>2, <2>2 DEF IntOn
  <2>3. SumFunctionOnSet(g, U) = g[source] + SumFunctionOnSet(g, S)
    BY <1>2, <1>6, <2>2, <2>5, SumAdd
  <2>6. SumFunctionOnSet(f, S) \in Int
    BY <1>2, SumInt
  <2> QED BY <1>1, <2>1, <2>2, <2>3, <2>4, <2>6
<1>7. CASE source \in S
  <2>1. entries'[source] = Both(entries[source], e)
    BY <1>7 DEF WithEntry, Both
  <2>2. g[source] = f[source] + e[account] /\ U = S /\ f[source] \in Int /\ g[source] \in Int
    BY <1>2, <1>7, <2>1 DEF Both, IntOn
  <2>5. IntOn(g, S)
    BY <1>5, <2>2 DEF IntOn
  <2> HIDE DEF f, g, S, U
  <2>3. SumFunctionOnSet(g, S) = SumFunctionOnSet(f, S) - f[source] + g[source]
    BY <1>2, <1>4, <1>7, <2>5, SumChange
  <2>4. SumFunctionOnSet(f, S) \in Int
    BY <1>2, SumInt
  <2>6. SumFunctionOnSet(g, U) = SumFunctionOnSet(f, S) + e[account]
    <3>1. e[account] \in Int
      BY <1>2
    <3>2. SumFunctionOnSet(g, U) = SumFunctionOnSet(g, S)
      BY <2>2
    <3>3. g[source] = f[source] + e[account] /\ f[source] \in Int
      BY <2>2
    <3> QED BY <2>3, <2>4, <3>1, <3>2, <3>3
  <2> QED BY <1>1, <2>6
<1> QED BY <1>6, <1>7

LEMMA CarriedIsInt ==
  ASSUME NEW E, NEW d, \A x \in Docs : Written(E, x, d[x]), NEW account
  PROVE  /\ \A x \in Docs : Carried(account, x, d[x]) \in Int
         /\ \A x \in Docs : CarriedIn(account, d)[x] = Carried(account, x, d[x])
         /\ IntOn(CarriedIn(account, d), Docs)
<1>1. ASSUME NEW x \in Docs PROVE Carried(account, x, d[x]) \in Int
  <2>1. d[x].left \in Int
    BY DEF Written
  <2> QED BY <2>1 DEF Carried
<1> QED BY <1>1 DEF CarriedIn, IntOn

(* Every document may move.                                                *)
LEMMA CarriedMoves ==
  ASSUME ReceivablesAssumption, LedgerInv, LedgerInv', NEW account, NEW move, IntOn(move, Docs),
         \A x \in Docs : Carried(account, x, doc'[x]) = Carried(account, x, doc[x]) + move[x]
  PROVE  CarriedBy(account, doc') = CarriedBy(account, doc) + SumFunctionOnSet(move, Docs)
<1>1. IsFiniteSet(Docs)
  BY DEF ReceivablesAssumption
<1>2. PICK E : E = Sources
  OBVIOUS
<1>3. \A x \in Docs : Written(E, x, doc[x])
  BY <1>2 DEF LedgerInv, DocsOk
<1>4. PICK F : F = Sources'
  OBVIOUS
<1>5. \A x \in Docs : Written(F, x, doc'[x])
  BY <1>4 DEF LedgerInv, DocsOk
<1> DEFINE f == CarriedIn(account, doc)
           g == CarriedIn(account, doc')
<1>6. IntOn(f, Docs) /\ \A x \in Docs : f[x] = Carried(account, x, doc[x])
  BY <1>3, CarriedIsInt
<1>7. \A x \in Docs : g[x] = Carried(account, x, doc'[x])
  BY <1>5, CarriedIsInt
<1> HIDE DEF f, g
<1>8. \A x \in Docs : g[x] = f[x] + move[x]
  BY <1>6, <1>7
<1>9. SumFunctionOnSet(g, Docs) = SumFunctionOnSet(f, Docs) + SumFunctionOnSet(move, Docs)
  BY <1>1, <1>6, <1>8, SumPlus
<1> QED BY <1>9 DEF CarriedBy, f, g

LEMMA CarriedIs ==
  ASSUME ReceivablesAssumption, LedgerInv, NEW account
  PROVE  /\ \A x \in Docs : Carried(account, x, doc[x]) \in Int
         /\ IntOn(CarriedIn(account, doc), Docs) /\ CarriedBy(account, doc) \in Int
<1>1. PICK E : E = Sources
  OBVIOUS
<1>2. \A x \in Docs : Written(E, x, doc[x])
  BY <1>1 DEF LedgerInv, DocsOk
<1>3. IsFiniteSet(Docs)
  BY DEF ReceivablesAssumption
<1> QED BY <1>2, <1>3, CarriedIsInt, SumInt DEF CarriedBy

(* One document moves.                                                     *)
LEMMA OneMoves ==
  ASSUME ReceivablesAssumption, LedgerInv, LedgerInv', NEW account, NEW x \in Docs, NEW a \in Int,
         \A z \in Docs \ {x} : Carried(account, z, doc'[z]) = Carried(account, z, doc[z]),
         Carried(account, x, doc'[x]) = Carried(account, x, doc[x]) + a
  PROVE  CarriedBy(account, doc') = CarriedBy(account, doc) + a
<1> DEFINE move == [z \in Docs |-> IF z = x THEN a ELSE 0]
           T == {x}
<1>1. IsFiniteSet(Docs) /\ T \in SUBSET Docs /\ IntOn(move, Docs)
  BY DEF ReceivablesAssumption, IntOn
<1>2. \A z \in Docs : Carried(account, z, doc'[z]) = Carried(account, z, doc[z]) + move[z]
  BY CarriedIs
<1>3. (\A z \in Docs \ T : move[z] = 0) /\ IntOn(move, T) /\ move[x] = a
  BY DEF IntOn
<1> HIDE DEF move
<1>4. CarriedBy(account, doc') = CarriedBy(account, doc) + SumFunctionOnSet(move, Docs)
  BY <1>1, <1>2, CarriedMoves
<1>5. SumFunctionOnSet(move, T) = a
  BY <1>3, SumOfOne
<1> HIDE DEF T
<1>6. SumFunctionOnSet(move, Docs) = SumFunctionOnSet(move, T)
  BY <1>1, <1>3, SumSupport
<1> QED BY <1>4, <1>5, <1>6

(* Two documents move.                                                     *)
LEMMA TwoMove ==
  ASSUME ReceivablesAssumption, LedgerInv, LedgerInv', NEW account, NEW x \in Docs, NEW y \in Docs,
         x # y, NEW a \in Int, NEW b \in Int,
         \A z \in Docs \ {x, y} : Carried(account, z, doc'[z]) = Carried(account, z, doc[z]),
         Carried(account, x, doc'[x]) = Carried(account, x, doc[x]) + a,
         Carried(account, y, doc'[y]) = Carried(account, y, doc[y]) + b
  PROVE  CarriedBy(account, doc') = CarriedBy(account, doc) + (a + b)
<1> DEFINE move == [z \in Docs |-> IF z = x THEN a ELSE IF z = y THEN b ELSE 0]
           T == {x, y}
<1>1. IsFiniteSet(Docs) /\ T \in SUBSET Docs /\ IntOn(move, Docs)
  BY DEF ReceivablesAssumption, IntOn
<1>2. \A z \in Docs : Carried(account, z, doc'[z]) = Carried(account, z, doc[z]) + move[z]
  BY CarriedIs
<1>3. (\A z \in Docs \ T : move[z] = 0) /\ IntOn(move, T) /\ move[x] = a /\ move[y] = b
  BY DEF IntOn
<1> HIDE DEF move
<1>4. CarriedBy(account, doc') = CarriedBy(account, doc) + SumFunctionOnSet(move, Docs)
  BY <1>1, <1>2, CarriedMoves
<1>5. SumFunctionOnSet(move, T) = a + b
  <2>1. PICK S : S = {x}
    OBVIOUS
  <2>2. T = S \cup {y} /\ y \notin S /\ IsFiniteSet(S) /\ IntOn(move, S)
    BY <1>3, <2>1, FS_Singleton DEF IntOn
  <2> HIDE DEF T
  <2>3. SumFunctionOnSet(move, S) = a
    BY <1>3, <2>1, SumOfOne
  <2>4. SumFunctionOnSet(move, T) = move[y] + SumFunctionOnSet(move, S)
    BY <1>3, <2>2, SumAdd
  <2> QED BY <1>3, <2>3, <2>4
<1> HIDE DEF T
<1>6. SumFunctionOnSet(move, Docs) = SumFunctionOnSet(move, T)
  BY <1>1, <1>3, SumSupport
<1> QED BY <1>4, <1>5, <1>6

-----------------------------------------------------------------------------
(* What a commit leaves of the entries and of the rows on an invoice.      *)

(* An entry that is no posting.                                            *)
LEMMA Entered ==
  ASSUME FewLines, LedgerInv, Exact, NEW source, NEW e, Balanced(e), entries' = WithEntry(source, e),
         \A x \in Docs : source # <<"post", x>>
  PROVE  /\ Sources' = Sources \cup {source} /\ Exact'
         /\ Balance("ar")' = Balance("ar") + e["ar"]
         /\ Balance("deposits")' = Balance("deposits") + e["deposits"]
         /\ \A i : source # <<"reverse", <<"post", i>>>> => (Returned(i)' <=> Returned(i))
<1>1. LedgerOk
  BY DEF LedgerInv, Books
<1>2. Sources' = Sources \cup {source} /\ \A s \in Sources : s # source => entries'[s] = entries[s]
  BY DEF WithEntry, Sources
<1>3. Exact'
  BY <1>2 DEF Exact
<1>4. /\ Balance("ar")' = Balance("ar") + e["ar"]
      /\ Balance("deposits")' = Balance("deposits") + e["deposits"]
  <2>1. "ar" \in Accounts /\ "deposits" \in Accounts
    BY DEF Accounts
  <2> QED BY <1>1, <2>1, BalanceMoves
<1>5. \A i : source # <<"reverse", <<"post", i>>>> => (Returned(i)' <=> Returned(i))
  BY <1>2 DEF Returned
<1> QED BY <1>2, <1>3, <1>4, <1>5

LEMMA NotEntered ==
  ASSUME Exact, entries' = entries
  PROVE  /\ Sources' = Sources /\ Exact'
         /\ Balance("ar")' = Balance("ar") /\ Balance("deposits")' = Balance("deposits")
         /\ \A i : Returned(i)' <=> Returned(i)
BY DEF Sources, Exact, Balance, Returned

LEMMA PaidIs ==
  ASSUME NEW apps, AppsSound(apps), NEW i
  PROVE  /\ IsFiniteSet(OnInvoice(apps, i)) /\ IntOn(AmountsOf(apps), OnInvoice(apps, i))
         /\ \A k \in OnInvoice(apps, i) : AmountsOf(apps)[k] = apps[k].amount
         /\ PaidOf(apps, i) \in Int /\ (OnInvoice(apps, i) = {} => PaidOf(apps, i) = 0)
<1>1. OnInvoice(apps, i) \in SUBSET DOMAIN apps
  BY DEF OnInvoice
<1>2. IsFiniteSet(OnInvoice(apps, i))
  BY <1>1, FS_Subset DEF AppsSound
<1>3. \A k \in OnInvoice(apps, i) : AmountsOf(apps)[k] = apps[k].amount /\ apps[k].amount \in Int
  BY <1>1 DEF AppsSound, AmountsOf
<1>4. IntOn(AmountsOf(apps), OnInvoice(apps, i))
  BY <1>3 DEF IntOn
<1> QED BY <1>2, <1>3, <1>4, SumInt, SumEmpty DEF PaidOf

LEMMA PaidLike ==
  ASSUME NEW apps, AppsSound(apps), NEW new, AppsSound(new), NEW i,
         OnInvoice(new, i) = OnInvoice(apps, i),
         \A k \in OnInvoice(apps, i) : new[k].amount = apps[k].amount
  PROVE  PaidOf(new, i) = PaidOf(apps, i)
<1>1. PICK S : S = OnInvoice(apps, i)
  OBVIOUS
<1>2. /\ IsFiniteSet(S) /\ IntOn(AmountsOf(apps), S)
      /\ \A k \in S : AmountsOf(apps)[k] = AmountsOf(new)[k]
  BY <1>1, PaidIs
<1>3. SumFunctionOnSet(AmountsOf(apps), S) = SumFunctionOnSet(AmountsOf(new), S)
  BY <1>2, SumSame
<1> QED BY <1>1, <1>3 DEF PaidOf

LEMMA PaidOneMore ==
  ASSUME NEW apps, AppsSound(apps), NEW row, row \notin DOMAIN apps, NEW new, AppsSound(new), NEW a \in Int,
         DOMAIN new = DOMAIN apps \cup {row}, \A k \in DOMAIN apps : new[k] = apps[k],
         new[row] = [amount |-> a, live |-> TRUE], NEW i
  PROVE  /\ PaidOf(new, i) = IF row.invoice = i THEN PaidOf(apps, i) + a ELSE PaidOf(apps, i)
         /\ OnInvoice(new, i) = IF row.invoice = i THEN OnInvoice(apps, i) \cup {row}
                                ELSE OnInvoice(apps, i)
<1>1. PICK S : S = OnInvoice(apps, i)
  OBVIOUS
<1>2. PICK U : U = OnInvoice(new, i)
  OBVIOUS
<1>3. U = IF row.invoice = i THEN S \cup {row} ELSE S
  BY <1>1, <1>2 DEF OnInvoice
<1>4. /\ \A k \in S : new[k] = apps[k]
      /\ IsFiniteSet(S) /\ IntOn(AmountsOf(apps), S) /\ row \notin S
      /\ \A k \in S : AmountsOf(apps)[k] = apps[k].amount
      /\ AmountsOf(new)[row] = a
  <2>1. \A k \in S : k \in DOMAIN apps
    BY <1>1 DEF OnInvoice
  <2>2. AmountsOf(new)[row] = a
    BY DEF AmountsOf
  <2> QED BY <1>1, <2>1, <2>2, PaidIs
<1>5. CASE row.invoice = i
  <2>1. \A k \in S : AmountsOf(new)[k] = AmountsOf(apps)[k]
    <3>1. \A k \in S : k \in DOMAIN apps /\ k \in DOMAIN new
      BY <1>1 DEF OnInvoice
    <3> QED BY <1>4, <3>1 DEF AmountsOf
  <2>2. SumFunctionOnSet(AmountsOf(new), U) = SumFunctionOnSet(AmountsOf(apps), S) + a
    <3>1. U = S \cup {row}
      BY <1>3, <1>5
    <3>2. PICK f : f = AmountsOf(apps)
      OBVIOUS
    <3>3. PICK g : g = AmountsOf(new)
      OBVIOUS
    <3>4. IsFiniteSet(S) /\ IntOn(f, S) /\ row \notin S /\ g[row] \in Int /\ \A k \in S : g[k] = f[k]
      BY <1>4, <2>1, <3>2, <3>3
    <3>5. SumFunctionOnSet(g, U) = SumFunctionOnSet(f, S) + g[row]
      BY <3>1, <3>4, SumGrows
    <3> QED BY <1>4, <3>2, <3>3, <3>5
  <2> QED BY <1>1, <1>2, <1>3, <1>5, <2>2 DEF PaidOf
<1>6. CASE row.invoice # i
  <2>1. OnInvoice(new, i) = OnInvoice(apps, i)
    BY <1>1, <1>2, <1>3, <1>6
  <2>2. PaidOf(new, i) = PaidOf(apps, i)
    BY <1>1, <1>4, <2>1, PaidLike
  <2> QED BY <1>6, <2>1, <2>2
<1> QED BY <1>5, <1>6

LEMMA PaidOneLess ==
  ASSUME NEW apps, AppsSound(apps), NEW k \in DOMAIN apps, apps[k].live, NEW new, AppsSound(new),
         DOMAIN new = DOMAIN apps, \A j \in DOMAIN apps : new[j].amount = apps[j].amount,
         \A j \in DOMAIN apps : new[j].live <=> apps[j].live /\ j # k, NEW i
  PROVE  /\ PaidOf(new, i) = IF k.invoice = i THEN PaidOf(apps, i) - apps[k].amount ELSE PaidOf(apps, i)
         /\ OnInvoice(new, i) \subseteq OnInvoice(apps, i)
         /\ k.invoice # i => OnInvoice(new, i) = OnInvoice(apps, i)
<1>1. PICK S : S = OnInvoice(apps, i)
  OBVIOUS
<1>2. PICK U : U = OnInvoice(new, i)
  OBVIOUS
<1>3. U = S \ {k} /\ (k.invoice = i => k \in S) /\ (k.invoice # i => k \notin S)
  BY <1>1, <1>2 DEF OnInvoice
<1>4. \A j \in S : new[j].amount = apps[j].amount
  BY <1>1 DEF OnInvoice
<1>5. CASE k.invoice = i
  <2>1. IsFiniteSet(U) /\ IntOn(AmountsOf(new), U) /\ (\A j \in U : AmountsOf(new)[j] = new[j].amount)
    BY <1>2, PaidIs
  <2>2. /\ (\A j \in S : AmountsOf(apps)[j] = apps[j].amount) /\ IntOn(AmountsOf(apps), S)
        /\ SumFunctionOnSet(AmountsOf(apps), S) \in Int
    BY <1>1, PaidIs DEF PaidOf
  <2>3. S = U \cup {k} /\ k \notin U
    BY <1>3, <1>5
  <2>4. /\ AmountsOf(apps)[k] = apps[k].amount /\ apps[k].amount \in Int
        /\ \A j \in U : AmountsOf(apps)[j] = AmountsOf(new)[j]
    BY <1>3, <1>4, <1>5, <2>1, <2>2 DEF IntOn
  <2>5. SumFunctionOnSet(AmountsOf(apps), S) = SumFunctionOnSet(AmountsOf(new), U) + AmountsOf(apps)[k]
    BY <2>1, <2>3, <2>4, SumGrows
  <2>6. SumFunctionOnSet(AmountsOf(new), U) \in Int
    BY <2>1, SumInt
  <2>7. PaidOf(new, i) = PaidOf(apps, i) - apps[k].amount
    BY <1>1, <1>2, <2>4, <2>5, <2>6 DEF PaidOf
  <2> QED BY <1>1, <1>2, <1>3, <1>5, <2>7
<1>6. CASE k.invoice # i
  <2>1. OnInvoice(new, i) = OnInvoice(apps, i)
    BY <1>1, <1>2, <1>3, <1>6
  <2>2. PaidOf(new, i) = PaidOf(apps, i)
    BY <1>1, <1>4, <2>1, PaidLike
  <2> QED BY <1>6, <2>1, <2>2
<1> QED BY <1>5, <1>6

(* An invoice that a commit leaves alone.                                  *)
LEMMA InvoiceLike ==
  ASSUME LedgerInv, LedgerInv', NEW i \in Invoices, InvoiceOk(i), doc'[i] = doc[i],
         Returned(i)' <=> Returned(i), i \in settled' <=> i \in settled,
         OnInvoice(applications', i) = OnInvoice(applications, i),
         \A k \in OnInvoice(applications, i) : applications'[k].amount = applications[k].amount
  PROVE  InvoiceOk(i)'
<1>1. PICK apps : apps = applications
  OBVIOUS
<1>2. PICK new : new = applications'
  OBVIOUS
<1>3. AppsSound(apps) /\ AppsSound(new)
  BY <1>1, <1>2, RowsSound DEF LedgerInv, AppsOk, AppsSound
<1>4. PaidOf(new, i) = PaidOf(apps, i)
  BY <1>1, <1>2, <1>3, PaidLike
<1> QED BY <1>1, <1>2, <1>4 DEF InvoiceOk

(* An invoice of which b is paid, or given back.                           *)
LEMMA InvoiceMoves ==
  ASSUME ReceivablesAssumption, LedgerInv, NEW i \in Invoices, InvoiceOk(i), NEW b \in Int,
         b <= doc[i].left, doc'[i].entry = doc[i].entry, doc'[i].left = doc[i].left - b,
         doc'[i].status \notin OffBooks, Returned(i)' <=> Returned(i), i \in settled' <=> i \in settled,
         PaidOf(applications', i) = PaidOf(applications, i) + b
  PROVE  InvoiceOk(i)'
<1>1. AppsSound(applications) /\ doc[i].left \in Int /\ Amount[i] \in Int
  BY RowsSound DEF LedgerInv, DocsOk, Written, Docs, ReceivablesAssumption
<1>2. PaidOf(applications, i) \in Int
  BY <1>1, PaidIs
<1>3. ~Returned(i) /\ i \notin settled => doc'[i].left = Amount[i] - PaidOf(applications', i)
  BY <1>1, <1>2 DEF InvoiceOk
<1> QED BY <1>1, <1>3 DEF InvoiceOk, OffBooks

LEMMA OneInvoice ==
  ASSUME LedgerInv, LedgerInv', InvoicesOk, NEW i \in Invoices, InvoiceOk(i)',
         \A j \in Invoices \ {i} :
           /\ doc'[j] = doc[j] /\ (Returned(j)' <=> Returned(j)) /\ (j \in settled' <=> j \in settled)
           /\ OnInvoice(applications', j) = OnInvoice(applications, j)
           /\ \A k \in OnInvoice(applications, j) : applications'[k].amount = applications[k].amount
  PROVE  InvoicesOk'
<1>1. ASSUME NEW j \in Invoices \ {i} PROVE InvoiceOk(j)'
  BY InvoiceLike DEF InvoicesOk
<1> QED BY <1>1 DEF InvoicesOk

LEMMA SameInvoices ==
  ASSUME LedgerInv, LedgerInv', InvoicesOk, settled' = settled, applications' = applications,
         \A j \in Invoices : doc'[j] = doc[j] /\ (Returned(j)' <=> Returned(j))
  PROVE  InvoicesOk'
<1>1. ASSUME NEW j \in Invoices PROVE InvoiceOk(j)'
  BY InvoiceLike DEF InvoicesOk
<1> QED BY <1>1 DEF InvoicesOk

-----------------------------------------------------------------------------
(* What a commit keeps, and the requests beside it.                        *)

LEMMA Alone ==
  ASSUME InvoicesApart, CreditInv, NEW p \in Procs, NEW o \in Procs \ {p}, job[p] # Idle, job[o] # Idle
  PROVE  /\ Asks(p).kind \in {"pay", "post", "void", "voidInvoice"}
         /\ Asks(o).kind \in {"pay", "post", "void", "voidInvoice"}
<1>1. PICK k : k = Asks(p).kind
  OBVIOUS
<1>2. PICK m : m = Asks(o).kind
  OBVIOUS
<1>3. {m, k} \in Overlap
  BY <1>1, <1>2 DEF CreditInv, Together
<1>4. {m, k} \subseteq {"pay", "post", "void", "voidInvoice"}
  <2>1. {m, k} \in {{"pay"}, {"post"}, {"void"}, {"voidInvoice"}, {"pay", "post"},
                    {"voidInvoice", "post"}, {"voidInvoice", "void"}}
    BY <1>3 DEF InvoicesApart
  <2> QED BY <2>1
<1> QED BY <1>1, <1>2, <1>4

(* A commit moves the balances with the documents, and of the invoices     *)
(* that others hold it leaves what they read.                              *)
Moves(p) ==
  /\ InBalance' /\ InvoicesOk' /\ Exact' /\ Backed' /\ NoneBelowZero' /\ Sources \subseteq Sources'
  /\ \/ Asks(p).kind \in {"apply", "unapply", "send"}
     \/ \A i \in Invoices : doc'[i] = doc[i] \/ lock[i] \in {None, p}
  /\ \A c \in Credits :
       doc[c].status = "open" /\ doc'[c].status = "voided" => <<"reverse", doc[c].entry>> \in Sources'

LEMMA ControlCommits ==
  ASSUME ReceivablesAssumption, InvoicesApart, ControlInv, CreditInv', NEW p \in Procs,
         job[p] # Idle, End(p), Moves(p)
  PROVE  ControlInv'
<1>1. DOMAIN job = Procs /\ DOMAIN seen = Procs /\ CreditInv
  BY DEF ControlInv, CreditInv, LedgerInv, JobsOk
<1>2. /\ job'[p] = Idle
      /\ \A o \in Procs \ {p} : job'[o] = job[o] /\ seen'[o] = seen[o]
  BY <1>1 DEF End
<1>3. ASSUME NEW o \in Procs, job'[o] # Idle PROVE Known(o)'
  <2>1. o # p /\ job'[o] = job[o] /\ seen'[o] = seen[o] /\ job[o] # Idle /\ o # None
    BY <1>2, <1>3 DEF ReceivablesAssumption
  <2>2. PICK q : q = Asks(o)
    OBVIOUS
  <2>3. Asks(o)' = q /\ Known(o) /\ Held(o) /\ Fresh(o) /\ job[o].req \in DOMAIN Request
    BY <1>1, <2>1, <2>2 DEF Asks, ControlInv, CreditInv, LedgerInv, JobsOk, JobOk
  <2>4. /\ Asks(p).kind \in {"pay", "post", "void", "voidInvoice"}
        /\ q.kind \in {"pay", "post", "void", "voidInvoice"}
    BY <1>1, <2>1, <2>2, Alone
  <2>5. CASE q.kind = "void"
    <3>1. PICK c : c = q.credit
      OBVIOUS
    <3>2. c \in Credits
      BY <2>2, <2>3, <2>5, <3>1, RequestIs DEF Asks
    <3>3. /\ seen[o][c] = doc[c] \/ doc[c].status = "voided"
          /\ seen[o][c].status = "open" /\ doc[c].status = "voided" =>
               <<"reverse", seen[o][c].entry>> \in Sources
      BY <2>2, <2>3, <2>5, <3>1 DEF Fresh, Known
    <3>4. seen'[o][c].status = "open" /\ doc'[c].status = "voided" =>
            <<"reverse", seen'[o][c].entry>> \in Sources'
      BY <2>1, <3>2, <3>3 DEF Moves
    <3> QED BY <2>3, <2>5, <3>1, <3>4 DEF Known
  <2>6. CASE q.kind # "void"
    <3>1. ASSUME job[o].stage = "entered", NEW i \in Locked(q), i \in Invoices PROVE seen'[o][i] = doc'[i]
      <4>1. lock[i] = o /\ seen[o][i] = doc[i]
        BY <2>2, <2>3, <2>4, <2>6, <3>1 DEF Held, Known
      <4>2. doc'[i] = doc[i]
        BY <2>1, <2>4, <3>1, <4>1 DEF Moves
      <4> QED BY <2>1, <4>1, <4>2
    <3> QED BY <2>1, <2>3, <2>4, <2>6, <3>1 DEF Known
  <2> QED BY <2>5, <2>6
<1> QED BY <1>3 DEF ControlInv, Moves

(* The two balances, when the documents carry as much more.                *)
LEMMA InBalanceMoves ==
  ASSUME InBalance, NEW a \in Int, NEW b \in Int,
         Balance("ar")' = Balance("ar") + a, CarriedBy("ar", doc') = CarriedBy("ar", doc) + a,
         Balance("deposits")' = Balance("deposits") + b,
         CarriedBy("deposits", doc') = CarriedBy("deposits", doc) + b
  PROVE  InBalance'
BY DEF InBalance, Controls

LEMMA TwoSides ==
  ASSUME ReceivablesAssumption, NEW c \in Credits, NEW i \in Invoices
  PROVE  c \in Docs /\ i \in Docs /\ c # i /\ c \notin Invoices /\ i \notin Credits
<1>1. Invoices \cap Credits = {}
  BY DEF ReceivablesAssumption
<1>2. c \in Docs /\ i \in Docs
  BY DEF Docs
<1> QED BY <1>1, <1>2

(* A credit and an invoice move together, by what is applied or given back. *)
LEMMA BothMove ==
  ASSUME ReceivablesAssumption, LedgerInv, LedgerInv', NEW c \in Credits, NEW i \in Invoices, NEW a \in Int,
         \A x \in Docs : x # c /\ x # i => doc'[x] = doc[x],
         doc[c].status \notin OffBooks, doc'[c].status \notin OffBooks, doc'[c].left = doc[c].left - a,
         Carried("ar", i, doc'[i]) = Carried("ar", i, doc[i]) - a
  PROVE  /\ CarriedBy("ar", doc') = CarriedBy("ar", doc) + (IF Kind[c] = "deposit" THEN -a ELSE 0)
         /\ CarriedBy("deposits", doc') = CarriedBy("deposits", doc) + (IF Kind[c] = "deposit" THEN a ELSE 0)
<1>1. c \in Docs /\ i \in Docs /\ c # i /\ c \notin Invoices /\ i \notin Credits
  BY TwoSides
<1>2. doc[c].left \in Int /\ Carried("ar", i, doc[i]) \in Int
  BY <1>1, CarriedIs DEF LedgerInv, DocsOk, Written
<1>3. PICK b \in Int : b = IF Kind[c] = "deposit" THEN 0 ELSE a
  OBVIOUS
<1>4. PICK d \in Int : d = IF Kind[c] = "deposit" THEN a ELSE 0
  OBVIOUS
<1>5. Carried("ar", c, doc'[c]) = Carried("ar", c, doc[c]) + b
  BY <1>1, <1>2, <1>3 DEF Carried
<1>6. Carried("deposits", c, doc'[c]) = Carried("deposits", c, doc[c]) + d
  BY <1>1, <1>2, <1>4 DEF Carried
<1>7. Carried("deposits", i, doc[i]) = 0 /\ Carried("deposits", i, doc'[i]) = 0
  BY <1>1 DEF Carried
<1>8. CarriedBy("ar", doc') = CarriedBy("ar", doc) + (b + (-a))
  <2>1. \A x \in Docs \ {c, i} : Carried("ar", x, doc'[x]) = Carried("ar", x, doc[x])
    OBVIOUS
  <2>2. Carried("ar", i, doc'[i]) = Carried("ar", i, doc[i]) + (-a) /\ -a \in Int
    BY <1>2
  <2> QED BY <1>1, <1>5, <2>1, <2>2, TwoMove
<1>9. CarriedBy("deposits", doc') = CarriedBy("deposits", doc) + d
  <2>1. \A x \in Docs \ {c} : Carried("deposits", x, doc'[x]) = Carried("deposits", x, doc[x])
    BY <1>7
  <2> QED BY <1>1, <1>6, <2>1, OneMoves
<1> QED BY <1>3, <1>4, <1>8, <1>9

LEMMA AppsSoundAfter ==
  ASSUME LedgerInv'
  PROVE  AppsSound(applications')
<1>1. PICK new : new = applications'
  OBVIOUS
<1> QED BY <1>1 DEF LedgerInv, AppsOk, AppsSound

(* A row is added for an invoice.                                          *)
LEMMA InvoicePaidByRow ==
  ASSUME ReceivablesAssumption, LedgerInv, LedgerInv', InvoicesOk, NEW row, row \notin DOMAIN applications,
         NEW a \in Int, applications' = WithRow(row, a), NEW i \in Invoices, row.invoice = i,
         a <= doc[i].left, doc'[i].entry = doc[i].entry, doc'[i].left = doc[i].left - a,
         doc'[i].status \notin OffBooks, settled' = settled,
         \A j \in Invoices \ {i} : doc'[j] = doc[j],
         \A j \in Invoices : Returned(j)' <=> Returned(j)
  PROVE  InvoicesOk'
<1>1. PICK new : new = applications'
  OBVIOUS
<1>2. /\ DOMAIN new = DOMAIN applications \cup {row} /\ new[row] = [amount |-> a, live |-> TRUE]
      /\ \A k \in DOMAIN applications : new[k] = applications[k]
  BY <1>1 DEF WithRow
<1>3. AppsSound(applications) /\ AppsSound(new)
  BY <1>1, RowsSound, AppsSoundAfter
<1>4. \A j : /\ PaidOf(new, j) = IF row.invoice = j THEN PaidOf(applications, j) + a ELSE PaidOf(applications, j)
             /\ OnInvoice(new, j) = IF row.invoice = j THEN OnInvoice(applications, j) \cup {row}
                                    ELSE OnInvoice(applications, j)
  BY <1>2, <1>3, PaidOneMore
<1>5. InvoiceOk(i)'
  <2>1. PaidOf(applications', i) = PaidOf(applications, i) + a
    BY <1>1, <1>4
  <2> QED BY <2>1, InvoiceMoves DEF InvoicesOk
<1>6. \A j \in Invoices \ {i} :
        /\ OnInvoice(applications', j) = OnInvoice(applications, j)
        /\ \A k \in OnInvoice(applications, j) : applications'[k].amount = applications[k].amount
  BY <1>1, <1>2, <1>4 DEF OnInvoice
<1> QED BY <1>5, <1>6, OneInvoice

LEMMA ControlApplyCredit ==
  ASSUME ReceivablesAssumption, FewLines, InvoicesApart, ControlInv, LedgerInv', CreditInv',
         NEW p \in Procs, ApplyCredit(p)
  PROVE  ControlInv'
<1>0. PICK q : q = Asks(p)
  OBVIOUS
<1>1. PICK c : c = q.credit
  OBVIOUS
<1>2. PICK i : i = q.invoice
  OBVIOUS
<1>3. PICK a : a = q.amount
  OBVIOUS
<1>4. /\ Ready(p, q) /\ q.kind = "apply" /\ job[p] # Idle /\ Fresh(p) /\ Known(p) /\ End(p)
      /\ LedgerInv /\ CreditInv /\ \A k \in DOMAIN applications : k.req # job[p].req
  <2>1. Committing(p, "apply") /\ CreditInv
    BY Zenon DEF ApplyCredit, ControlInv
  <2> QED BY <1>0, <2>1, CreditReady DEF ControlInv, CreditInv
<1>5. /\ c \in Credits /\ i \in Invoices /\ a \in Int /\ a > 0 /\ Kind[c] # "note"
      /\ c \in Docs /\ i \in Docs /\ c # i /\ \A x \in Credits : x \in Docs /\ x # i
  <2>1. c \in Credits /\ i \in Invoices /\ a \in Int /\ a > 0
    BY <1>0, <1>1, <1>2, <1>3, <1>4, RequestIs DEF Ready
  <2>2. Kind[c] # "note"
    BY <1>0, <1>1, Zenon DEF ApplyCredit, Asks
  <2> QED BY <2>1, <2>2 DEF Docs, ReceivablesAssumption
<1>6. /\ seen[p][c] = doc[c] /\ a <= doc[c].left /\ doc[c].status \in OnBooks
      /\ seen[p][i] = doc[i] /\ a <= doc[i].left
  BY <1>0, <1>1, <1>2, <1>3, <1>4, <1>5 DEF Fresh, Known, Open, OnBooks
<1>7. Written(Sources, c, doc[c]) /\ Written(Sources, i, doc[i]) /\ InvoiceOk(i) /\ DOMAIN doc = Docs
  BY <1>4, <1>5 DEF ControlInv, InvoicesOk, LedgerInv, DocsOk
<1> DEFINE credit == Drawn(doc[c], a)
           left == doc[i].left - a
<1>8. credit.left = doc[c].left - a /\ credit.status \in OnBooks
  BY <1>5, <1>6, <1>7 DEF Drawn, Written, Fields, OnBooks
<1>9. doc' = [doc EXCEPT ![c].left = credit.left, ![c].status = credit.status, ![i].left = left]
  BY <1>0, <1>1, <1>2, <1>3, <1>6, Zenon DEF ApplyCredit, Asks
<1> HIDE DEF credit, left
<1>10. /\ doc'[c].left = credit.left /\ doc'[c].status = credit.status
       /\ doc'[c].amount = doc[c].amount /\ doc'[c].entry = doc[c].entry
       /\ doc'[i].left = left /\ doc'[i].status = doc[i].status /\ doc'[i].entry = doc[i].entry
       /\ \A x \in Docs : x # c /\ x # i => doc'[x] = doc[x]
  <2>1. DOMAIN doc[c] = Fields /\ DOMAIN doc[i] = Fields
    BY <1>7 DEF Written
  <2> QED BY <1>5, <1>7, <1>9, <2>1 DEF Fields
<1>11. /\ left = doc[i].left - a /\ left \in Int /\ doc[i].left \in Int
       /\ doc[i].status \notin OffBooks
  BY <1>5, <1>6, <1>7 DEF InvoiceOk, Written, left, OffBooks
<1>12. /\ CarriedBy("ar", doc') = CarriedBy("ar", doc) + (IF Kind[c] = "deposit" THEN -a ELSE 0)
       /\ CarriedBy("deposits", doc') = CarriedBy("deposits", doc) + (IF Kind[c] = "deposit" THEN a ELSE 0)
  <2>1. Carried("ar", i, doc'[i]) = Carried("ar", i, doc[i]) - a
    BY <1>5, <1>10, <1>11 DEF Carried
  <2>2. doc[c].status \notin OffBooks /\ doc'[c].status \notin OffBooks /\ doc'[c].left = doc[c].left - a
    BY <1>6, <1>8, <1>10 DEF OnBooks, OffBooks
  <2> QED BY <1>4, <1>5, <1>10, <2>1, <2>2, BothMove
<1>13. /\ Exact' /\ Sources \subseteq Sources' /\ \A j \in Invoices : Returned(j)' <=> Returned(j)
       /\ Balance("ar")' = Balance("ar") + (IF Kind[c] = "deposit" THEN -a ELSE 0)
       /\ Balance("deposits")' = Balance("deposits") + (IF Kind[c] = "deposit" THEN a ELSE 0)
  <2>1. PICK source : source = <<"apply", c>>
    OBVIOUS
  <2>2. PICK e : e = Entry(0, -a, a, 0)
    OBVIOUS
  <2>3. CASE Kind[c] = "deposit"
    <3>1. entries' = WithEntry(source, e)
      BY <1>0, <1>1, <1>3, <2>1, <2>2, <2>3, Zenon DEF ApplyCredit, Asks
    <3>2. Balanced(e) /\ e["ar"] = -a /\ e["deposits"] = a
      BY <1>5, <2>2 DEF Balanced, Entry, Accounts
    <3>3. (\A x \in Docs : source # <<"post", x>>) /\ (\A j \in Invoices : source # <<"reverse", <<"post", j>>>>)
      BY <2>1
    <3> QED BY <1>4, <2>3, <3>1, <3>2, <3>3, Entered DEF ControlInv
  <2>4. CASE Kind[c] # "deposit"
    <3>1. entries' = entries
      BY <1>0, <1>1, <2>4, Zenon DEF ApplyCredit, Asks
    <3>2. Balance("ar") \in Int /\ Balance("deposits") \in Int
      BY <1>4, CarriedIs DEF ControlInv, InBalance, Controls
    <3> QED BY <2>4, <3>1, <3>2, NotEntered DEF ControlInv
  <2> QED BY <2>3, <2>4
<1>14. InBalance'
  <2>1. PICK b \in Int : b = IF Kind[c] = "deposit" THEN -a ELSE 0
    BY <1>5
  <2>2. PICK d \in Int : d = IF Kind[c] = "deposit" THEN a ELSE 0
    BY <1>5
  <2> QED BY <1>12, <1>13, <2>1, <2>2, InBalanceMoves DEF ControlInv
<1>15. PICK row : row = Row(job[p].req, c, i)
  OBVIOUS
<1>16. /\ applications' = WithRow(row, a) /\ row \notin DOMAIN applications /\ row.invoice = i
       /\ settled' = settled
  BY <1>0, <1>1, <1>2, <1>3, <1>4, <1>15, Zenon DEF ApplyCredit, Asks, Row
<1>17. InvoicesOk'
  <2>1. \A j \in Invoices \ {i} : doc'[j] = doc[j]
    BY <1>5, <1>10 DEF Docs, ReceivablesAssumption
  <2> QED BY <1>4, <1>5, <1>6, <1>10, <1>11, <1>13, <1>16, <2>1, InvoicePaidByRow DEF ControlInv
<1>18. NoneBelowZero'
  <2>1. \A k \in DOMAIN applications' : k \in DOMAIN applications \/ k = row
    BY <1>16 DEF WithRow
  <2> QED BY <1>5, <1>16, <2>1 DEF WithRow, ControlInv, NoneBelowZero
<1>19. Backed'
  BY <1>5, <1>6, <1>10 DEF ControlInv, Backed
<1>20. Moves(p)
  <2>1. \A x \in Credits : doc'[x].status = "voided" => doc[x].status = "voided"
    BY <1>5, <1>8, <1>10 DEF OnBooks
  <2> QED BY <1>0, <1>4, <1>13, <1>14, <1>17, <1>18, <1>19, <2>1 DEF Moves
<1> QED BY <1>4, <1>20, ControlCommits

(* What a credit note brings an invoice to.                                *)
LEMMA NoteTaken ==
  ASSUME NEW row, DOMAIN row = Fields, row.left \in Int, row.left >= 0, NEW asked \in Nat,
         NEW a, a = Smaller(asked, row.left),
         row.status = "voided" => row.left = 0, row.status \notin {"none", "draft"}
  PROVE  /\ a \in Int /\ a >= 0 /\ a <= row.left /\ a <= asked
         /\ NoteApplied(row, asked).left = row.left - a /\ NoteApplied(row, asked).entry = row.entry
         /\ NoteApplied(row, asked).status \notin OffBooks
<1>1. a \in Int /\ a >= 0 /\ a <= row.left /\ a <= asked
  BY DEF Smaller
<1> DEFINE taken == NoteApplied(row, asked)
<1>2. taken = IF row.left - a <= 0 THEN [row EXCEPT !.left = 0, !.status = "paid"]
              ELSE [row EXCEPT !.left = row.left - a,
                      !.status = IF a > 0 /\ row.status = "issued" THEN "partially_paid" ELSE row.status]
  BY DEF NoteApplied
<1> HIDE DEF taken
<1>3. CASE row.left - a <= 0
  BY <1>1, <1>2, <1>3 DEF taken, Fields, OffBooks
<1>4. CASE ~(row.left - a <= 0)
  <2>1. row.status \notin OffBooks
    BY <1>1, <1>4 DEF OffBooks
  <2> QED BY <1>1, <1>2, <1>4, <2>1 DEF taken, Fields, OffBooks
<1> QED BY <1>3, <1>4

LEMMA ControlApplyNote ==
  ASSUME ReceivablesAssumption, InvoicesApart, ControlInv, LedgerInv', CreditInv',
         NEW p \in Procs, ApplyNote(p)
  PROVE  ControlInv'
<1>0. PICK q : q = Asks(p)
  OBVIOUS
<1>1. PICK c : c = q.credit
  OBVIOUS
<1>2. PICK i : i = q.invoice
  OBVIOUS
<1>3. PICK a : a = Smaller(q.amount, doc[i].left)
  OBVIOUS
<1>4. /\ Ready(p, q) /\ q.kind = "apply" /\ job[p] # Idle /\ Fresh(p) /\ Known(p) /\ End(p)
      /\ LedgerInv /\ CreditInv /\ \A k \in DOMAIN applications : k.req # job[p].req
  <2>1. Committing(p, "apply") /\ CreditInv
    BY Zenon DEF ApplyNote, ControlInv
  <2> QED BY <1>0, <2>1, CreditReady DEF ControlInv, CreditInv
<1>5. /\ c \in Credits /\ i \in Invoices /\ q.amount \in Nat /\ Kind[c] = "note"
      /\ c \in Docs /\ i \in Docs /\ c # i /\ \A x \in Credits : x \in Docs /\ x # i
  <2>1. c \in Credits /\ i \in Invoices /\ q.amount \in Nat
    BY <1>0, <1>1, <1>2, <1>4, RequestIs DEF Ready
  <2>2. Kind[c] = "note"
    BY <1>0, <1>1, Zenon DEF ApplyNote, Asks
  <2> QED BY <2>1, <2>2 DEF Docs, ReceivablesAssumption
<1>6. /\ seen[p][c] = doc[c] /\ q.amount <= doc[c].left /\ doc[c].status \in OnBooks
      /\ seen[p][i] = doc[i]
  BY <1>0, <1>1, <1>2, <1>4, <1>5 DEF Fresh, Known, Open, OnBooks
<1>7. /\ Written(Sources, c, doc[c]) /\ Written(Sources, i, doc[i]) /\ InvoiceOk(i) /\ DOMAIN doc = Docs
      /\ doc[c].left \in Int /\ doc[i].left \in Int /\ doc[i].left >= 0
  BY <1>4, <1>5 DEF ControlInv, InvoicesOk, InvoiceOk, LedgerInv, DocsOk, Written
<1>21. a \in Int /\ a >= 0 /\ a <= doc[i].left /\ a <= doc[c].left
  BY <1>3, <1>5, <1>6, <1>7 DEF Smaller
<1> DEFINE credit == DrawnByNote(doc[c], a)
           invoice == NoteApplied(doc[i], q.amount)
<1>8. credit.left = doc[c].left - a /\ credit.status \in OnBooks
  BY <1>6, <1>7, <1>21 DEF Drawn, DrawnByNote, Written, Fields, OnBooks
<1>22. /\ invoice.left = doc[i].left - a /\ invoice.entry = doc[i].entry
       /\ invoice.status \notin OffBooks
  BY <1>3, <1>5, <1>7, NoteTaken DEF InvoiceOk, Written
<1>9. doc' = [doc EXCEPT ![c].left = credit.left, ![c].status = credit.status, ![i] = invoice]
  BY <1>0, <1>1, <1>2, <1>3, <1>6, Zenon DEF ApplyNote, Asks
<1> HIDE DEF credit, invoice
<1>10. /\ doc'[c].left = credit.left /\ doc'[c].status = credit.status
       /\ doc'[c].amount = doc[c].amount /\ doc'[c].entry = doc[c].entry
       /\ doc'[i] = invoice
       /\ \A x \in Docs : x # c /\ x # i => doc'[x] = doc[x]
  <2>1. DOMAIN doc[c] = Fields
    BY <1>7 DEF Written
  <2> QED BY <1>5, <1>7, <1>9, <2>1 DEF Fields
<1>12. /\ CarriedBy("ar", doc') = CarriedBy("ar", doc) + 0
       /\ CarriedBy("deposits", doc') = CarriedBy("deposits", doc) + 0
  <2>1. Carried("ar", i, doc'[i]) = Carried("ar", i, doc[i]) - a
    BY <1>5, <1>7, <1>10, <1>21, <1>22 DEF Carried, InvoiceOk, OffBooks
  <2>2. doc[c].status \notin OffBooks /\ doc'[c].status \notin OffBooks /\ doc'[c].left = doc[c].left - a
    BY <1>6, <1>8, <1>10 DEF OnBooks, OffBooks
  <2>3. c \in Credits /\ i \in Invoices /\ a \in Int /\ Kind[c] # "deposit" /\ LedgerInv
    BY <1>4, <1>5, <1>21
  <2>4. \A x \in Docs : x # c /\ x # i => doc'[x] = doc[x]
    BY <1>10
  <2>5. CarriedBy("ar", doc') = CarriedBy("ar", doc) + (IF Kind[c] = "deposit" THEN -a ELSE 0)
    BY <2>1, <2>2, <2>3, <2>4, BothMove
  <2>6. CarriedBy("deposits", doc') = CarriedBy("deposits", doc) + (IF Kind[c] = "deposit" THEN a ELSE 0)
    BY <2>1, <2>2, <2>3, <2>4, BothMove
  <2> QED BY <2>3, <2>5, <2>6
<1>13. /\ Exact' /\ Sources' = Sources /\ \A j \in Invoices : Returned(j)' <=> Returned(j)
       /\ Balance("ar")' = Balance("ar") + 0 /\ Balance("deposits")' = Balance("deposits") + 0
  <2>1. entries' = entries
    BY Zenon DEF ApplyNote
  <2>2. Balance("ar") \in Int /\ Balance("deposits") \in Int
    BY <1>4, CarriedIs DEF ControlInv, InBalance, Controls
  <2> QED BY <2>1, <2>2, NotEntered DEF ControlInv
<1>14. InBalance'
  BY <1>12, <1>13, InBalanceMoves DEF ControlInv
<1>15. PICK row : row = Row(job[p].req, c, i)
  OBVIOUS
<1>16. /\ applications' = WithRow(row, a) /\ row \notin DOMAIN applications /\ row.invoice = i
       /\ settled' = settled
  BY <1>0, <1>1, <1>2, <1>3, <1>4, <1>6, <1>15, Zenon DEF ApplyNote, Asks, Row
<1>17. InvoicesOk'
  <2>1. \A j \in Invoices \ {i} : doc'[j] = doc[j]
    BY <1>5, <1>10, Zenon DEF Docs, ReceivablesAssumption
  <2> QED BY <1>4, <1>5, <1>10, <1>13, <1>16, <1>21, <1>22, <2>1, InvoicePaidByRow DEF ControlInv
<1>18. NoneBelowZero'
  <2>1. \A k \in DOMAIN applications' : k \in DOMAIN applications \/ k = row
    BY <1>16 DEF WithRow
  <2> QED BY <1>21, <1>16, <2>1 DEF WithRow, ControlInv, NoneBelowZero
<1>19. Backed'
  BY <1>5, <1>6, <1>10 DEF ControlInv, Backed
<1>20. Moves(p)
  <2>1. \A x \in Credits : doc'[x].status = "voided" => doc[x].status = "voided"
    BY <1>5, <1>8, <1>10 DEF OnBooks
  <2> QED BY <1>0, <1>4, <1>13, <1>14, <1>17, <1>18, <1>19, <2>1 DEF Moves
<1> QED BY <1>4, <1>20, ControlCommits

LEMMA ControlUnapply ==
  ASSUME ReceivablesAssumption, InvoicesApart, ControlInv, LedgerInv', CreditInv',
         NEW p \in Procs, Unapply(p)
  PROVE  ControlInv'
<1>0. PICK q : q = Asks(p)
  OBVIOUS
<1>1. PICK c : c = q.credit
  OBVIOUS
<1>2. PICK i : i = q.invoice
  OBVIOUS
<1>3. PICK k : k = job[p].app
  OBVIOUS
<1>4. PICK a : a = applications[k].amount
  OBVIOUS
<1>5. /\ Ready(p, q) /\ q.kind = "unapply" /\ job[p] # Idle /\ Fresh(p) /\ Known(p) /\ End(p)
      /\ LedgerInv /\ CreditInv
  <2>1. Committing(p, "unapply") /\ CreditInv
    BY Zenon DEF Unapply, ControlInv
  <2> QED BY <1>0, <2>1, CreditReady DEF ControlInv, CreditInv
<1>6. /\ c \in Credits /\ i \in Invoices
      /\ c \in Docs /\ i \in Docs /\ c # i /\ \A x \in Credits : x \in Docs /\ x # i
  <2>1. c \in Credits /\ i \in Invoices
    BY <1>0, <1>1, <1>2, <1>5, RequestIs DEF Ready
  <2> QED BY <2>1 DEF Docs, ReceivablesAssumption
<1>7. /\ seen[p][c] = doc[c] /\ seen[p][i] = doc[i] /\ Kind[c] # "deposit"
      /\ k \in DOMAIN applications /\ applications[k].live /\ k.credit = c /\ k.invoice = i
      /\ Kind[c] = "note" => doc[i].status # "voided"
  BY <1>0, <1>1, <1>2, <1>3, <1>5 DEF Fresh, Known, LiveOf
<1>8. /\ Written(Sources, c, doc[c]) /\ Written(Sources, i, doc[i]) /\ InvoiceOk(i) /\ DOMAIN doc = Docs
      /\ doc[c].left \in Int /\ doc[i].left \in Int /\ doc[i].left >= 0
      /\ CreditOk(c, doc[c], applications) /\ AppsSound(applications)
  BY <1>5, <1>6, RowsSound DEF ControlInv, InvoicesOk, InvoiceOk, LedgerInv, DocsOk, Written,
     CreditInv, CreditsOk
<1>9. a \in Int /\ a >= 0
  BY <1>4, <1>7, <1>8 DEF AppsSound, ControlInv, NoneBelowZero
<1>10. doc[c].status \in OnBooks /\ doc[i].status \notin OffBooks
  <2>1. doc[c].status \in OnBooks
    BY <1>7, <1>8 DEF CreditOk, LiveOf
  <2>2. k \in OnInvoice(applications, i)
    BY <1>7 DEF OnInvoice
  <2> QED BY <1>7, <1>8, <2>1, <2>2 DEF InvoiceOk, OffBooks
<1> DEFINE credit == GivenBack(doc[c], a)
           left == doc[i].left + a
           status == IF Kind[c] # "note" THEN doc[i].status
                     ELSE IF left = doc[i].amount THEN "sent" ELSE "partially_paid"
<1>11. credit.left = doc[c].left + a /\ credit.status \in OnBooks
  BY <1>8, <1>9 DEF GivenBack, Written, Fields, OnBooks
<1>12. status \notin OffBooks
  BY <1>10 DEF OffBooks
<1>13. doc' = [doc EXCEPT ![c].left = credit.left, ![c].status = credit.status,
                          ![i].left = left,
                          ![i].status = IF Kind[c] # "note" THEN @
                                        ELSE IF left = doc[i].amount THEN "sent" ELSE "partially_paid"]
  BY <1>0, <1>1, <1>2, <1>3, <1>4, <1>7, Zenon DEF Unapply, Asks
<1>14. /\ doc'[c].left = credit.left /\ doc'[c].status = credit.status
       /\ doc'[c].amount = doc[c].amount /\ doc'[c].entry = doc[c].entry
       /\ doc'[i].left = left /\ doc'[i].status = status /\ doc'[i].entry = doc[i].entry
       /\ \A x \in Docs : x # c /\ x # i => doc'[x] = doc[x]
  <2>1. DOMAIN doc[c] = Fields /\ DOMAIN doc[i] = Fields
    BY <1>8 DEF Written
  <2>2. status = IF Kind[c] # "note" THEN doc[i].status
                 ELSE IF left = doc[i].amount THEN "sent" ELSE "partially_paid"
    OBVIOUS
  <2> HIDE DEF credit, left, status
  <2> QED BY <1>6, <1>8, <1>13, <2>1, <2>2 DEF Fields
<1> HIDE DEF credit, status
<1>15. PICK b : b = -a
  OBVIOUS
<1>16. /\ b \in Int /\ b <= doc[i].left /\ doc'[i].left = doc[i].left - b
       /\ doc'[c].left = doc[c].left - b
  BY <1>8, <1>9, <1>11, <1>14, <1>15
<1>17. /\ CarriedBy("ar", doc') = CarriedBy("ar", doc) + 0
       /\ CarriedBy("deposits", doc') = CarriedBy("deposits", doc) + 0
  <2>1. Carried("ar", i, doc'[i]) = Carried("ar", i, doc[i]) - b
    BY <1>6, <1>10, <1>12, <1>14, <1>16 DEF Carried
  <2>2. doc[c].status \notin OffBooks /\ doc'[c].status \notin OffBooks
    BY <1>10, <1>11, <1>14 DEF OnBooks, OffBooks
  <2>3. \A x \in Docs : x # c /\ x # i => doc'[x] = doc[x]
    BY <1>14
  <2>4. /\ CarriedBy("ar", doc') = CarriedBy("ar", doc) + (IF Kind[c] = "deposit" THEN -b ELSE 0)
        /\ CarriedBy("deposits", doc')
             = CarriedBy("deposits", doc) + (IF Kind[c] = "deposit" THEN b ELSE 0)
    BY <1>5, <1>6, <1>16, <2>1, <2>2, <2>3, BothMove
  <2> QED BY <1>7, <2>4
<1>18. /\ Exact' /\ Sources' = Sources /\ \A j \in Invoices : Returned(j)' <=> Returned(j)
       /\ Balance("ar")' = Balance("ar") + 0 /\ Balance("deposits")' = Balance("deposits") + 0
  <2>1. entries' = entries
    BY Zenon DEF Unapply
  <2>2. Balance("ar") \in Int /\ Balance("deposits") \in Int
    BY <1>5, CarriedIs DEF ControlInv, InBalance, Controls
  <2> QED BY <2>1, <2>2, NotEntered DEF ControlInv
<1>19. InBalance'
  BY <1>17, <1>18, InBalanceMoves DEF ControlInv
<1>20. PICK new : new = applications'
  OBVIOUS
<1>21. /\ DOMAIN new = DOMAIN applications /\ settled' = settled
       /\ \A j \in DOMAIN applications : /\ new[j].amount = applications[j].amount
                                         /\ new[j].live <=> applications[j].live /\ j # k
  <2>1. new = [applications EXCEPT ![k].live = FALSE] /\ settled' = settled
    BY <1>3, <1>20, Zenon DEF Unapply
  <2>2. \A j \in DOMAIN applications : DOMAIN applications[j] = {"amount", "live"}
    BY <1>5 DEF LedgerInv, AppsOk
  <2> QED BY <1>7, <2>1, <2>2
<1>22. AppsSound(new)
  BY <1>20, AppsSoundAfter
<1>23. InvoicesOk'
  <2>1. \A j : /\ PaidOf(new, j) = IF k.invoice = j THEN PaidOf(applications, j) - applications[k].amount
                                   ELSE PaidOf(applications, j)
               /\ k.invoice # j => OnInvoice(new, j) = OnInvoice(applications, j)
    BY <1>7, <1>8, <1>21, <1>22, PaidOneLess
  <2>2. PaidOf(new, i) = PaidOf(applications, i) + b
    <3>1. PaidOf(new, i) = PaidOf(applications, i) - a
      BY <1>4, <1>7, <2>1
    <3>2. PaidOf(applications, i) \in Int
      BY <1>8, PaidIs
    <3> QED BY <1>9, <1>15, <3>1, <3>2
  <2>3. InvoiceOk(i)'
    BY <1>5, <1>6, <1>8, <1>12, <1>14, <1>16, <1>18, <1>20, <1>21, <2>2, InvoiceMoves
  <2>4. \A j \in Invoices \ {i} :
          /\ doc'[j] = doc[j] /\ OnInvoice(applications', j) = OnInvoice(applications, j)
          /\ \A m \in OnInvoice(applications, j) : applications'[m].amount = applications[m].amount
    <3>1. \A j \in Invoices \ {i} : doc'[j] = doc[j]
      BY <1>6, <1>14 DEF Docs, ReceivablesAssumption
    <3> QED BY <1>7, <1>20, <1>21, <2>1, <3>1 DEF OnInvoice
  <2> QED BY <1>5, <1>6, <1>18, <1>21, <2>3, <2>4, OneInvoice DEF ControlInv
<1>24. NoneBelowZero'
  BY <1>20, <1>21 DEF ControlInv, NoneBelowZero
<1>25. Backed'
  BY <1>6, <1>10, <1>14 DEF ControlInv, Backed
<1>26. Moves(p)
  <2>1. \A x \in Credits : doc'[x].status = "voided" => doc[x].status = "voided"
    BY <1>6, <1>11, <1>14 DEF OnBooks
  <2> QED BY <1>0, <1>5, <1>18, <1>19, <1>23, <1>24, <1>25, <2>1 DEF Moves
<1> QED BY <1>5, <1>26, ControlCommits

LEMMA ControlSend ==
  ASSUME ReceivablesAssumption, InvoicesApart, ControlInv, LedgerInv', CreditInv',
         NEW p \in Procs, Send(p)
  PROVE  ControlInv'
<1>0. PICK q : q = Asks(p)
  OBVIOUS
<1>1. PICK i : i = q.invoice
  OBVIOUS
<1>2. /\ Ready(p, q) /\ q.kind = "send" /\ job[p] # Idle /\ Known(p) /\ End(p)
      /\ LedgerInv /\ CreditInv
  <2>1. Committing(p, "send") /\ CreditInv
    BY DEF Send, ControlInv
  <2> QED BY <1>0, <2>1, CreditReady DEF ControlInv, CreditInv
<1>3. i \in Invoices /\ i \in Docs /\ \A x \in Credits : x \in Docs /\ x # i
  <2>1. i \in Invoices
    BY <1>0, <1>1, <1>2, RequestIs DEF Ready
  <2> QED BY <2>1 DEF Docs, ReceivablesAssumption
<1>4. /\ seen[p][i] = doc[i] /\ doc[i].status \in {"issued", "sent"}
      /\ Written(Sources, i, doc[i]) /\ InvoiceOk(i) /\ DOMAIN doc = Docs
      /\ DOMAIN doc[i] = Fields /\ doc[i].left \in Int /\ doc[i].left >= 0
  BY <1>0, <1>1, <1>2, <1>3 DEF Known, ControlInv, InvoicesOk, InvoiceOk, LedgerInv, DocsOk, Written
<1>5. /\ doc' = [doc EXCEPT ![i] = [doc[i] EXCEPT !.status = "sent"]]
      /\ UNCHANGED <<applications, settled, entries>>
  BY <1>0, <1>1, <1>4, Zenon DEF Send, Asks
<1>6. /\ doc'[i].left = doc[i].left /\ doc'[i].entry = doc[i].entry /\ doc'[i].status = "sent"
      /\ \A x \in Docs : x # i => doc'[x] = doc[x]
  BY <1>3, <1>4, <1>5 DEF Fields
<1>7. /\ Exact' /\ Sources' = Sources /\ \A j \in Invoices : Returned(j)' <=> Returned(j)
      /\ Balance("ar")' = Balance("ar") + 0 /\ Balance("deposits")' = Balance("deposits") + 0
  <2>1. Balance("ar") \in Int /\ Balance("deposits") \in Int
    BY <1>2, CarriedIs DEF ControlInv, InBalance, Controls
  <2> QED BY <1>5, <2>1, NotEntered DEF ControlInv
<1>8. ASSUME NEW account PROVE CarriedBy(account, doc') = CarriedBy(account, doc) + 0
  <2>1. Carried(account, i, doc'[i]) = Carried(account, i, doc[i]) + 0
    BY <1>3, <1>4, <1>6 DEF Carried, OffBooks
  <2>2. \A x \in Docs \ {i} : Carried(account, x, doc'[x]) = Carried(account, x, doc[x])
    BY <1>6
  <2> QED BY <1>2, <1>3, <2>1, <2>2, OneMoves
<1>9. InBalance'
  BY <1>7, <1>8, InBalanceMoves DEF ControlInv
<1>10. InvoicesOk'
  <2>1. PaidOf(applications', i) = PaidOf(applications, i) + 0
    BY <1>2, <1>5, RowsSound, PaidIs
  <2>2. InvoiceOk(i)'
    <3>1. PICK b \in Int : b = 0
      OBVIOUS
    <3>2. /\ b <= doc[i].left /\ doc'[i].left = doc[i].left - b /\ doc'[i].status \notin OffBooks
          /\ PaidOf(applications', i) = PaidOf(applications, i) + b
      BY <1>4, <1>6, <2>1, <3>1 DEF OffBooks
    <3> QED BY <1>2, <1>3, <1>4, <1>5, <1>6, <1>7, <3>2, InvoiceMoves
  <2>3. \A j \in Invoices \ {i} : doc'[j] = doc[j]
    BY <1>3, <1>6 DEF Docs
  <2> QED BY <1>2, <1>3, <1>5, <1>7, <2>2, <2>3, OneInvoice DEF ControlInv
<1>11. NoneBelowZero' /\ Backed'
  BY <1>3, <1>5, <1>6 DEF ControlInv, NoneBelowZero, Backed
<1>12. Moves(p)
  <2>1. \A x \in Credits : doc'[x].status = "voided" => doc[x].status = "voided"
    BY <1>3, <1>6
  <2> QED BY <1>0, <1>2, <1>7, <1>9, <1>10, <1>11, <2>1 DEF Moves
<1> QED BY <1>2, <1>12, ControlCommits

LEMMA ControlVoidCredit ==
  ASSUME ReceivablesAssumption, FewLines, InvoicesApart, ControlInv, LedgerInv', CreditInv',
         NEW p \in Procs, VoidCredit(p), VoidsWhatWasPosted(p)
  PROVE  ControlInv'
<1>0. PICK q : q = Asks(p)
  OBVIOUS
<1>1. PICK c : c = q.credit
  OBVIOUS
<1>2. /\ Ready(p, q) /\ q.kind = "void" /\ job[p] # Idle /\ Fresh(p) /\ Known(p) /\ End(p)
      /\ LedgerInv /\ CreditInv
  <2>1. Committing(p, "void") /\ CreditInv
    BY Zenon DEF VoidCredit, ControlInv
  <2> QED BY <1>0, <2>1, CreditReady DEF ControlInv, CreditInv
<1>3. /\ c \in Credits /\ c \in Docs /\ c \notin Invoices /\ c \notin Created
      /\ \A x \in Credits : x \in Docs
  <2>1. c \in Credits
    BY <1>0, <1>1, <1>2, RequestIs DEF Ready
  <2>2. c \notin Created
    BY <1>0, <1>1 DEF VoidsWhatWasPosted
  <2> QED BY <2>1, <2>2 DEF Docs, ReceivablesAssumption
<1>4. /\ seen[p][c].status \in {"draft", "open"}
      /\ seen[p][c] = doc[c] \/ doc[c].status = "voided"
      /\ Kind[c] = "note" => LiveOf(applications, c) = {}
      /\ seen[p][c].status = "open" /\ doc[c].status = "voided" => <<"reverse", seen[p][c].entry>> \in Sources
  BY <1>0, <1>1, <1>2 DEF Fresh, Known
<1>5. /\ Written(Sources, c, doc[c]) /\ CreditOk(c, doc[c], applications) /\ DOMAIN doc = Docs
      /\ AppsSound(applications) /\ Counts(applications)
  BY <1>2, <1>3, RowsSound DEF CreditInv, CreditsOk, LedgerInv, DocsOk
<1>6. UNCHANGED <<applications, settled>>
  BY Zenon DEF VoidCredit
<1>7. doc'[c].status = "voided" /\ \A x \in Docs : x # c => doc'[x] = doc[x]
  <2>1. doc' = [doc EXCEPT ![c].status = "voided",
                           ![c].left = IF Kind[c] # "note" /\ seen[p][c].status = "open" THEN 0 ELSE @]
    BY <1>0, <1>1, Zenon DEF VoidCredit, Asks
  <2>2. DOMAIN doc[c] = Fields
    BY <1>5 DEF Written
  <2> QED BY <1>3, <1>5, <2>1, <2>2 DEF Fields
<1>8. /\ (\A j \in Invoices : doc'[j] = doc[j]) /\ NoneBelowZero' /\ Backed'
  <2>1. \A j \in Invoices : doc'[j] = doc[j]
    BY <1>3, <1>7 DEF Docs
  <2> QED BY <1>3, <1>6, <1>7, <2>1 DEF ControlInv, NoneBelowZero, Backed, OnBooks
<1>9. \A account : Carried(account, c, doc'[c]) = 0
  BY <1>7 DEF Carried, OffBooks
<1>10. CASE seen[p][c].status = "draft"
  <2>1. entries' = entries
    BY <1>0, <1>1, <1>10 DEF VoidCredit, Asks
  <2>2. /\ Exact' /\ Sources' = Sources /\ \A j \in Invoices : Returned(j)' <=> Returned(j)
        /\ Balance("ar")' = Balance("ar") + 0 /\ Balance("deposits")' = Balance("deposits") + 0
    <3>1. Balance("ar") \in Int /\ Balance("deposits") \in Int
      BY <1>2, CarriedIs DEF ControlInv, InBalance, Controls
    <3> QED BY <2>1, <3>1, NotEntered DEF ControlInv
  <2>3. doc[c].status \in {"draft", "voided"}
    BY <1>4, <1>10
  <2>4. ASSUME NEW account PROVE CarriedBy(account, doc') = CarriedBy(account, doc) + 0
    <3>1. PICK a \in Int : a = 0
      OBVIOUS
    <3>2. Carried(account, c, doc'[c]) = Carried(account, c, doc[c]) + a
      BY <1>9, <2>3, <3>1 DEF Carried, OffBooks
    <3>3. \A x \in Docs \ {c} : Carried(account, x, doc'[x]) = Carried(account, x, doc[x])
      BY <1>7
    <3>4. CarriedBy(account, doc') = CarriedBy(account, doc) + a
      BY <1>2, <1>3, <3>2, <3>3, OneMoves
    <3> QED BY <3>1, <3>4
  <2>5. InBalance' /\ InvoicesOk'
    BY <1>2, <1>6, <1>8, <2>2, <2>4, InBalanceMoves, SameInvoices DEF ControlInv
  <2>6. Moves(p)
    <3>1. \A x \in Credits : doc[x].status = "open" => doc'[x].status # "voided"
      BY <1>3, <1>7, <2>3
    <3> QED BY <1>0, <1>8, <2>2, <2>5, <3>1 DEF Moves
  <2> QED BY <1>2, <2>6, ControlCommits
<1>11. CASE seen[p][c].status = "open"
  <2>1. PICK source : source = <<"reverse", seen[p][c].entry>>
    OBVIOUS
  <2>2. /\ source \notin Sources
        /\ entries' = WithEntry(source, Reversal(entries[seen[p][c].entry]))
    <3>1. CanCommit(p)
      BY Zenon DEF VoidCredit
    <3>2. source \notin Sources
      BY <1>0, <1>1, <1>2, <1>11, <2>1, <3>1 DEF CanCommit, Asks, IsFree, Sources
    <3> QED BY <1>0, <1>1, <1>11, <2>1, <3>2, Zenon DEF VoidCredit, Asks
  <2>3. seen[p][c] = doc[c] /\ doc[c].status = "open"
    BY <1>4, <1>11, <2>1, <2>2
  <2>4. /\ doc[c].entry = <<"post", c>> /\ doc[c].amount = Amount[c] /\ <<"post", c>> \in Sources
        /\ entries[<<"post", c>>] = PostingEntry(c)
    <3>1. doc[c].entry = <<"post", c>> /\ doc[c].amount = Amount[c]
      BY <1>3, <2>3 DEF ControlInv, Backed, OnBooks
    <3>2. <<"post", c>> \in Sources
      BY <1>3, <2>3 DEF CreditInv, ControlInv, PostedOnce, OnBooks
    <3> QED BY <1>3, <3>1, <3>2 DEF ControlInv, Exact, Posting
  <2>5. doc[c].left = Amount[c] /\ Amount[c] \in Nat
    <3>1. LiveOf(applications, c) = {}
      BY <1>4, <1>5, <2>3, OpenIsUnused
    <3>2. AppliedTo(applications, c) = 0
      BY <1>5, <3>1, AppliedIs
    <3>3. Amount[c] \in Nat
      BY <1>3 DEF ReceivablesAssumption
    <3> QED BY <1>5, <2>3, <2>4, <3>2, <3>3 DEF CreditOk, OnBooks
  <2>6. PICK e : e = Reversal(PostingEntry(c))
    OBVIOUS
  <2>7. /\ Balanced(e)
        /\ e["ar"] = (IF Kind[c] = "deposit" THEN 0 ELSE Amount[c])
        /\ e["deposits"] = (IF Kind[c] = "deposit" THEN Amount[c] ELSE 0)
    <3>1. Balanced(e)
      BY <1>3, <2>6, PostingBalances, ReversalBalances
    <3>2. Kind[c] \in {"deposit", "receipt", "note"}
      BY <1>3 DEF ReceivablesAssumption
    <3> QED BY <2>5, <2>6, <3>1, <3>2 DEF PostingEntry, Entry, Reversal
  <2>8. /\ Exact' /\ Sources' = Sources \cup {source}
        /\ Balance("ar")' = Balance("ar") + e["ar"]
        /\ Balance("deposits")' = Balance("deposits") + e["deposits"]
        /\ \A j \in Invoices : Returned(j)' <=> Returned(j)
    <3>1. entries' = WithEntry(source, e)
      BY <2>2, <2>3, <2>4, <2>6
    <3>2. source = <<"reverse", <<"post", c>>>>
      BY <2>1, <2>3, <2>4
    <3>3. (\A x \in Docs : source # <<"post", x>>) /\ \A j \in Invoices : source # <<"reverse", <<"post", j>>>>
      BY <1>3, <3>2
    <3> QED BY <1>2, <2>7, <3>1, <3>3, Entered DEF ControlInv
  <2>9. CarriedBy("ar", doc') = CarriedBy("ar", doc) + e["ar"]
    <3>1. Carried("ar", c, doc'[c]) = Carried("ar", c, doc[c]) + e["ar"] /\ e["ar"] \in Int
      BY <1>3, <1>9, <2>3, <2>5, <2>7 DEF Carried, OffBooks
    <3>2. \A x \in Docs \ {c} : Carried("ar", x, doc'[x]) = Carried("ar", x, doc[x])
      BY <1>7
    <3> QED BY <1>2, <1>3, <3>1, <3>2, OneMoves
  <2>10. CarriedBy("deposits", doc') = CarriedBy("deposits", doc) + e["deposits"]
    <3>1. Carried("deposits", c, doc'[c]) = Carried("deposits", c, doc[c]) + e["deposits"] /\ e["deposits"] \in Int
      <4>1. Carried("deposits", c, doc[c]) = IF Kind[c] = "deposit" THEN -Amount[c] ELSE 0
        BY <1>3, <2>3, <2>5 DEF Carried, OffBooks
      <4> QED BY <1>9, <2>5, <2>7, <4>1
    <3>2. \A x \in Docs \ {c} : Carried("deposits", x, doc'[x]) = Carried("deposits", x, doc[x])
      BY <1>7
    <3> QED BY <1>2, <1>3, <3>1, <3>2, OneMoves
  <2>11. InBalance'
    <3>1. e["ar"] \in Int /\ e["deposits"] \in Int
      BY <2>5, <2>7
    <3> QED BY <2>8, <2>9, <2>10, <3>1, InBalanceMoves DEF ControlInv
  <2>12. InvoicesOk'
    BY <1>2, <1>6, <1>8, <2>8, SameInvoices DEF ControlInv
  <2>13. Moves(p)
    <3>1. \A x \in Credits : doc[x].status = "open" /\ doc'[x].status = "voided" => x = c
      BY <1>3, <1>7
    <3>2. <<"reverse", doc[c].entry>> \in Sources'
      BY <2>1, <2>3, <2>8
    <3> QED BY <1>0, <1>8, <2>8, <2>11, <2>12, <3>1, <3>2 DEF Moves
  <2> QED BY <1>2, <2>13, ControlCommits
<1> QED BY <1>4, <1>10, <1>11

(* The entry of a credit, not posted before.                               *)
LEMMA PostingEntered ==
  ASSUME ReceivablesAssumption, FewLines, LedgerInv, Exact, NEW c \in Credits, <<"post", c>> \notin Sources,
         entries' = WithEntry(<<"post", c>>, PostingEntry(c)), NEW ar, NEW deposits,
         ar = (IF Kind[c] = "deposit" THEN 0 ELSE -Amount[c]),
         deposits = (IF Kind[c] = "deposit" THEN -Amount[c] ELSE 0)
  PROVE  /\ Exact' /\ Sources \subseteq Sources' /\ ar \in Int /\ deposits \in Int
         /\ \A j \in Invoices : Returned(j)' <=> Returned(j)
         /\ Balance("ar")' = Balance("ar") + ar /\ Balance("deposits")' = Balance("deposits") + deposits
<1>1. PICK source : source = <<"post", c>>
  OBVIOUS
<1>2. PICK e : e = PostingEntry(c)
  OBVIOUS
<1>3. Balanced(e) /\ e["ar"] = ar /\ e["deposits"] = deposits /\ ar \in Int /\ deposits \in Int
  <2>1. Kind[c] \in {"deposit", "receipt", "note"} /\ Amount[c] \in Nat
    BY DEF ReceivablesAssumption, Docs
  <2> QED BY <1>2, <2>1, PostingBalances DEF PostingEntry, Entry
<1>4. /\ Sources' = Sources \cup {source} /\ entries'[source] = e
      /\ \A s \in Sources : entries'[s] = entries[s]
  BY <1>1, <1>2 DEF WithEntry, Sources
<1>5. Exact'
  <2>1. c \notin Invoices
    BY DEF ReceivablesAssumption
  <2>2. Posting(c) = e
    BY <1>2, <2>1 DEF Posting
  <2>3. ASSUME NEW x \in Docs, <<"post", x>> \in Sources' PROVE entries'[<<"post", x>>] = Posting(x)
    <3>1. CASE x = c
      BY <1>1, <1>4, <2>2, <3>1
    <3>2. CASE x # c
      <4>1. <<"post", x>> \in Sources
        BY <1>1, <1>4, <2>3, <3>2
      <4> QED BY <1>4, <2>3, <4>1 DEF Exact
    <3> QED BY <3>1, <3>2
  <2> QED BY <2>3 DEF Exact, Posting
<1>6. Balance("ar")' = Balance("ar") + ar /\ Balance("deposits")' = Balance("deposits") + deposits
  <2>1. LedgerOk /\ "ar" \in Accounts /\ "deposits" \in Accounts
    BY DEF LedgerInv, Books, Accounts
  <2>2. entries' = WithEntry(source, e)
    BY <1>1, <1>2
  <2>3. Balance("ar")' = Balance("ar") + e["ar"] /\ Balance("deposits")' = Balance("deposits") + e["deposits"]
    BY <1>3, <2>1, <2>2, BalanceMoves
  <2> QED BY <1>3, <2>3
<1>7. \A j \in Invoices : Returned(j)' <=> Returned(j)
  BY <1>1, <1>4 DEF Returned
<1> QED BY <1>3, <1>4, <1>5, <1>6, <1>7

LEMMA ControlPost ==
  ASSUME ReceivablesAssumption, FewLines, InvoicesApart, ControlInv, LedgerInv', CreditInv',
         NEW p \in Procs, Post(p)
  PROVE  ControlInv'
<1>0. PICK q : q = Asks(p)
  OBVIOUS
<1>1. PICK c : c = q.credit
  OBVIOUS
<1>2. /\ Ready(p, q) /\ q.kind = "post" /\ job[p] # Idle /\ Known(p) /\ End(p)
      /\ LedgerInv /\ CreditInv /\ job[p].stage = "entered"
      /\ \A x \in Touched(q) : lock[x] \in {None, p}
      /\ \A k \in DOMAIN applications : k.req # job[p].req
  <2>1. Committing(p, "post") /\ CreditInv
    BY DEF Post, ControlInv
  <2> QED BY <1>0, <2>1, CreditReady DEF ControlInv, CreditInv
<1>3. c \in Credits /\ c \in Docs /\ c \notin Invoices /\ \A x \in Credits : x \in Docs
  <2>1. c \in Credits
    BY <1>0, <1>1, <1>2, RequestIs DEF Ready
  <2> QED BY <2>1 DEF Docs, ReceivablesAssumption
<1>4. seen[p][c].status = "draft" /\ <<"post", c>> \notin Sources /\ c \notin Created
  <2>1. CanCommit(p)
    BY DEF Post
  <2>2. seen[p][c].status = "draft" /\ <<"post", c>> \notin Sources
    BY <1>0, <1>1, <1>2, <2>1 DEF CanCommit, Asks, IsFree, Sources
  <2>3. c \in DOMAIN seen[p]
    BY <1>1, <1>2 DEF Ready, Named
  <2> QED BY <2>2, <2>3 DEF CreditInv, ControlInv, NoDrafts
<1>5. doc[c].status \in OffBooks /\ doc[c].status \notin OnBooks /\ DOMAIN doc = Docs
  <2>1. doc[c].status \notin OnBooks /\ CreditOk(c, doc[c], applications)
    BY <1>2, <1>3, <1>4 DEF CreditInv, PostedOnce, CreditsOk
  <2> QED BY <1>2, <2>1 DEF CreditOk, LedgerInv, DocsOk
<1>6. PICK A \in Nat : A = Amount[c]
  BY <1>3 DEF ReceivablesAssumption
<1>7. PICK ar : ar = IF Kind[c] = "deposit" THEN 0 ELSE -A
  OBVIOUS
<1>8. PICK deposits : deposits = IF Kind[c] = "deposit" THEN -A ELSE 0
  OBVIOUS
<1>9. /\ Exact' /\ Sources \subseteq Sources' /\ ar \in Int /\ deposits \in Int
      /\ \A j \in Invoices : Returned(j)' <=> Returned(j)
      /\ Balance("ar")' = Balance("ar") + ar /\ Balance("deposits")' = Balance("deposits") + deposits
  <2>1. entries' = WithEntry(<<"post", c>>, PostingEntry(c))
    BY <1>0, <1>1 DEF Post, Asks
  <2> QED BY <1>2, <1>3, <1>4, <1>6, <1>7, <1>8, <2>1, PostingEntered DEF ControlInv
<1>10. settled' = settled
  BY DEF Post
<1>11. Carried("ar", c, doc[c]) = 0 /\ Carried("deposits", c, doc[c]) = 0
  BY <1>5 DEF Carried
<1>12. CASE Linked(c) = {}
  <2>1. doc' = [doc EXCEPT ![c] = PostedRow(c)] /\ applications' = applications
    BY <1>0, <1>1, <1>12 DEF Post, Asks
  <2>2. /\ doc'[c].status = "open" /\ doc'[c].left = A /\ doc'[c].amount = A /\ doc'[c].entry = <<"post", c>>
        /\ \A x \in Docs : x # c => doc'[x] = doc[x]
    BY <1>3, <1>5, <1>6, <2>1 DEF PostedRow
  <2>3. /\ CarriedBy("ar", doc') = CarriedBy("ar", doc) + ar
        /\ CarriedBy("deposits", doc') = CarriedBy("deposits", doc) + deposits
    <3>1. Carried("ar", c, doc'[c]) = Carried("ar", c, doc[c]) + ar
      BY <1>3, <1>6, <1>7, <1>11, <2>2 DEF Carried, OffBooks
    <3>2. Carried("deposits", c, doc'[c]) = Carried("deposits", c, doc[c]) + deposits
      BY <1>3, <1>6, <1>8, <1>11, <2>2 DEF Carried, OffBooks
    <3>3. /\ \A x \in Docs \ {c} : Carried("ar", x, doc'[x]) = Carried("ar", x, doc[x])
          /\ \A x \in Docs \ {c} : Carried("deposits", x, doc'[x]) = Carried("deposits", x, doc[x])
      BY <2>2
    <3>4. CarriedBy("ar", doc') = CarriedBy("ar", doc) + ar
      BY <1>2, <1>3, <1>9, <3>1, <3>3, OneMoves
    <3>5. CarriedBy("deposits", doc') = CarriedBy("deposits", doc) + deposits
      BY <1>2, <1>3, <1>9, <3>2, <3>3, OneMoves
    <3> QED BY <3>4, <3>5
  <2>4. \A j \in Invoices : doc'[j] = doc[j]
    BY <1>3, <2>2 DEF Docs
  <2>5. InBalance' /\ InvoicesOk' /\ NoneBelowZero' /\ Backed'
    <3>1. InBalance'
      BY <1>9, <2>3, InBalanceMoves DEF ControlInv
    <3>2. InvoicesOk'
      BY <1>2, <1>9, <1>10, <2>1, <2>4, SameInvoices DEF ControlInv
    <3>3. Backed'
      BY <1>3, <1>6, <2>2 DEF ControlInv, Backed
    <3> QED BY <2>1, <3>1, <3>2, <3>3 DEF ControlInv, NoneBelowZero
  <2>6. Moves(p)
    <3>1. \A x \in Credits : doc[x].status = "open" => doc'[x].status # "voided"
      BY <1>3, <2>2, Zenon
    <3> QED BY <1>0, <1>2, <1>9, <2>4, <2>5, <3>1 DEF Moves
  <2> QED BY <1>2, <2>6, ControlCommits
<1>13. CASE Linked(c) # {}
  <2>1. PICK i \in Linked(c) :
          /\ doc' = [doc EXCEPT ![c] = DrawnByNote(PostedRow(c), Smaller(Amount[c], seen[p][i].left)),
                                ![i] = NoteApplied(seen[p][i], Amount[c])]
          /\ applications' = WithRow(Row(job[p].req, c, i), Smaller(Amount[c], seen[p][i].left))
    BY <1>0, <1>1, <1>13 DEF Post, Asks
  <2>2. /\ i \in Invoices /\ i \in Docs /\ i # c /\ Kind[c] = "note" /\ lock[i] \in {None, p}
        /\ seen[p][i] = doc[i] /\ \A x \in Credits : x # i
    <3>1. i \in Invoices /\ Kind[c] = "note"
      BY <1>3, LinkedIs
    <3>2. i \in Touched(q) /\ i \in Locked(q)
      BY <1>1, <1>2, <3>1 DEF Touched, Locked, Named
    <3>3. seen[p][i] = doc[i]
      BY <1>0, <1>2, <3>1, <3>2 DEF Known
    <3> QED BY <1>2, <1>3, <3>1, <3>2, <3>3 DEF Docs, ReceivablesAssumption
  <2>3. PICK a : a = Smaller(A, doc[i].left)
    OBVIOUS
  <2> DEFINE credit == DrawnByNote(PostedRow(c), a)
             invoice == NoteApplied(doc[i], A)
  <2>4. /\ doc[i].left \in Int /\ doc[i].left >= 0 /\ InvoiceOk(i)
        /\ a \in Int /\ a >= 0 /\ a <= doc[i].left /\ a <= A
        /\ invoice.left = doc[i].left - a /\ invoice.entry = doc[i].entry /\ invoice.status \notin OffBooks
    <3>1. DOMAIN doc[i] = Fields /\ doc[i].left \in Int /\ InvoiceOk(i)
      BY <1>2, <2>2 DEF LedgerInv, DocsOk, Written, ControlInv, InvoicesOk
    <3> QED BY <2>3, <3>1, NoteTaken DEF InvoiceOk
  <2>5. /\ credit.left = A - a /\ credit.status \in OnBooks /\ credit.amount = A
        /\ credit.entry = <<"post", c>>
    BY <1>6, <2>4 DEF DrawnByNote, Drawn, PostedRow, OnBooks
  <2>6. doc' = [doc EXCEPT ![c] = credit, ![i] = invoice]
    BY <1>6, <2>1, <2>2, <2>3
  <2> HIDE DEF credit, invoice
  <2>7. doc'[c] = credit /\ doc'[i] = invoice /\ \A x \in Docs : x # c /\ x # i => doc'[x] = doc[x]
    BY <1>3, <1>5, <2>2, <2>6
  <2>8. CarriedBy("ar", doc') = CarriedBy("ar", doc) + ar
    <3>1. PICK b \in Int : b = a - A
      BY <2>4
    <3>2. PICK d \in Int : d = -a
      BY <2>4
    <3>3. Carried("ar", c, doc'[c]) = Carried("ar", c, doc[c]) + b
      BY <1>3, <1>11, <2>2, <2>4, <2>5, <2>7, <3>1 DEF Carried, OffBooks, OnBooks
    <3>4. Carried("ar", i, doc'[i]) = Carried("ar", i, doc[i]) + d
      BY <2>2, <2>4, <2>7, <3>2 DEF Carried, OffBooks, InvoiceOk
    <3>5. \A x \in Docs \ {c, i} : Carried("ar", x, doc'[x]) = Carried("ar", x, doc[x])
      BY <2>7
    <3>6. CarriedBy("ar", doc') = CarriedBy("ar", doc) + (b + d)
      BY <1>2, <1>3, <2>2, <3>3, <3>4, <3>5, TwoMove
    <3> QED BY <1>7, <2>2, <2>4, <3>1, <3>2, <3>6
  <2>9. CarriedBy("deposits", doc') = CarriedBy("deposits", doc) + deposits
    <3>1. Carried("deposits", c, doc'[c]) = Carried("deposits", c, doc[c]) + deposits
      BY <1>8, <1>11, <2>2 DEF Carried
    <3>2. Carried("deposits", i, doc'[i]) = 0 /\ Carried("deposits", i, doc[i]) = 0
      BY <2>2 DEF Carried
    <3>3. \A x \in Docs \ {c} : Carried("deposits", x, doc'[x]) = Carried("deposits", x, doc[x])
      BY <2>7, <3>2
    <3>4. deposits \in Int /\ c \in Docs /\ LedgerInv
      BY <1>2, <1>3, <1>9
    <3> QED BY <3>1, <3>3, <3>4, OneMoves
  <2>10. InBalance'
    BY <1>9, <2>8, <2>9, InBalanceMoves DEF ControlInv
  <2>11. PICK row : row = Row(job[p].req, c, i)
    OBVIOUS
  <2>12. applications' = WithRow(row, a) /\ row \notin DOMAIN applications /\ row.invoice = i
    BY <1>2, <1>6, <2>1, <2>2, <2>3, <2>11 DEF Row
  <2>13. InvoicesOk'
    <3>1. \A j \in Invoices \ {i} : doc'[j] = doc[j]
      BY <1>3, <2>7 DEF Docs
    <3> QED BY <1>2, <1>9, <1>10, <2>2, <2>4, <2>7, <2>12, <3>1, InvoicePaidByRow, Zenon DEF ControlInv
  <2>14. NoneBelowZero'
    <3>1. \A k \in DOMAIN applications' : k \in DOMAIN applications \/ k = row
      BY <2>12 DEF WithRow
    <3> QED BY <2>4, <2>12, <3>1 DEF WithRow, ControlInv, NoneBelowZero
  <2>15. Backed'
    BY <1>3, <1>6, <2>2, <2>5, <2>7 DEF ControlInv, Backed
  <2>16. Moves(p)
    <3>1. \A x \in Credits : doc[x].status = "open" => doc'[x].status # "voided"
      BY <1>3, <2>2, <2>5, <2>7 DEF OnBooks
    <3>2. \A j \in Invoices : doc'[j] = doc[j] \/ lock[j] \in {None, p}
      BY <1>3, <2>2, <2>7 DEF Docs
    <3> QED BY <1>0, <1>2, <1>9, <2>10, <2>13, <2>14, <2>15, <3>1, <3>2 DEF Moves
  <2> QED BY <1>2, <2>16, ControlCommits
<1> QED BY <1>12, <1>13

(* Two parts of a set, in a sum over all of it.                            *)
LEMMA SumOfTwo ==
  ASSUME NEW S, IsFiniteSet(S), NEW T, T \in SUBSET S, NEW U, U \in SUBSET S, T \cap U = {},
         NEW f, IntOn(f, T), NEW g, IntOn(g, U),
         NEW h, \A x \in S : h[x] = IF x \in T THEN f[x] ELSE IF x \in U THEN g[x] ELSE 0
  PROVE  SumFunctionOnSet(h, S) = SumFunctionOnSet(f, T) + SumFunctionOnSet(g, U) /\ IntOn(h, S)
<1> DEFINE m == [x \in S |-> IF x \in T THEN f[x] ELSE 0]
           n == [x \in S |-> IF x \in U THEN g[x] ELSE 0]
<1>1. SumFunctionOnSet(m, S) = SumFunctionOnSet(f, T) /\ IntOn(m, S)
  <2>1. \A x \in S : m[x] = IF x \in T THEN f[x] ELSE 0
    OBVIOUS
  <2> HIDE DEF m
  <2> QED BY <2>1, SumOfPart
<1>2. SumFunctionOnSet(n, S) = SumFunctionOnSet(g, U) /\ IntOn(n, S)
  <2>1. \A x \in S : n[x] = IF x \in U THEN g[x] ELSE 0
    OBVIOUS
  <2> HIDE DEF n
  <2> QED BY <2>1, SumOfPart
<1>3. \A x \in S : h[x] = m[x] + n[x] /\ h[x] \in Int
  <2>1. ASSUME NEW x \in S PROVE h[x] = m[x] + n[x] /\ h[x] \in Int
    <3>1. CASE x \in T
      <4>1. x \notin U /\ f[x] \in Int
        BY <3>1 DEF IntOn
      <4> QED BY <3>1, <4>1
    <3>2. CASE x \in U
      <4>1. x \notin T /\ g[x] \in Int
        BY <3>2 DEF IntOn
      <4> QED BY <3>2, <4>1
    <3>3. CASE x \notin T /\ x \notin U
      BY <3>3
    <3> QED BY <3>1, <3>2, <3>3
  <2> QED BY <2>1
<1> HIDE DEF m, n
<1>4. SumFunctionOnSet(h, S) = SumFunctionOnSet(m, S) + SumFunctionOnSet(n, S)
  BY <1>1, <1>2, <1>3, SumPlus
<1> QED BY <1>1, <1>2, <1>3, <1>4 DEF IntOn

(* What a payment does to the two accounts.                                *)
LEMMA PaymentEntryIs ==
  ASSUME ReceivablesAssumption, NEW q, IsPayment(q), NEW rows, RowsKnown(q, rows), CanPay(q, rows),
         (\E c \in DOMAIN q.uses : Kind[c] = "note") => Cardinality(DOMAIN q.lines) <= 3,
         NEW e, e = PaymentEntry(q, rows)
  PROVE  /\ Balanced(e) /\ e["ar"] = Used(q, "note") - TotalSettled(q, rows)
         /\ e["deposits"] = Used(q, "deposit") - NewDeposit(q, rows)
         /\ NewDeposit(q, rows) \in Nat
         /\ Used(q, "note") \in Nat /\ Used(q, "deposit") \in Nat /\ TotalSettled(q, rows) \in Nat
<1>1. Balanced(e)
  BY PaymentBalances
<1>2. PICK t \in Nat : t = TotalSettled(q, rows)
  BY SettlesIs
<1>3. PICK n \in Nat : n = Used(q, "note")
  BY UsedIs
<1>4. PICK d \in Nat : d = Used(q, "deposit")
  BY UsedIs
<1>5. PICK raw \in Nat : raw = SumFunction(q.lines)
  BY LinesAre, SumNat DEF SumFunction
<1>6. PICK x \in Nat : x = q.extra
  BY DEF IsPayment
<1>7. t <= raw
  <2>1. \A i \in DOMAIN q.lines : SettledOf(q, rows)[i] <= q.lines[i]
    BY SettlesIs DEF SettledOf
  <2>2. IsFiniteSet(DOMAIN q.lines) /\ IntOn(SettledOf(q, rows), DOMAIN q.lines) /\ IntOn(q.lines, DOMAIN q.lines)
    BY LinesAre, SettlesIs DEF NatOn, IntOn
  <2>3. SumFunctionOnSet(SettledOf(q, rows), DOMAIN q.lines) <= SumFunctionOnSet(q.lines, DOMAIN q.lines)
    BY <2>1, <2>2, SumMonotone
  <2> QED BY <1>2, <1>5, <2>3, SettlesIs DEF SumFunction
<1>8. NewDeposit(q, rows) = x + (raw - t) /\ NewDeposit(q, rows) \in Nat
  BY <1>2, <1>5, <1>6, <1>7 DEF NewDeposit, Overage
<1>9. Bank(q, rows) = t + (raw - t) - n - d + x
  BY <1>2, <1>3, <1>4, <1>5, <1>6 DEF Bank, Overage
<1>10. e["bank"] = Bank(q, rows) /\ e["deposits"] = d - (x + (raw - t)) /\ e["revenue"] = 0
  BY <1>4, <1>8 DEF PaymentEntry, Entry
<1>11. e["ar"] \in Int /\ e["bank"] + e["ar"] + e["deposits"] + e["revenue"] = 0
  BY <1>1 DEF Balanced, Accounts
<1>12. e["ar"] = n - t
  <2>1. PICK z \in Int : z = e["ar"]
    BY <1>11
  <2>2. (t + (raw - t) - n - d + x) + z + (d - (x + (raw - t))) + 0 = 0
    BY <1>9, <1>10, <1>11, <2>1
  <2>3. t \in Int /\ n \in Int /\ d \in Int /\ raw \in Int /\ x \in Int
    BY <1>2, <1>3, <1>4, <1>5, <1>6
  <2>4. \A y \in Int : (t + (raw - t) - n - d + x) + y + (d - (x + (raw - t))) + 0 = 0 => y = n - t
    BY <2>3
  <2> QED BY <2>1, <2>2, <2>4
<1> QED BY <1>1, <1>2, <1>3, <1>4, <1>8, <1>10, <1>12

(* An invoice of which a payment settles what it owes, or less.            *)
LEMMA PaidDownIs ==
  ASSUME NEW row, DOMAIN row = Fields, row.left \in Int, row.left >= 0, row.amount \in Nat,
         row.left > 0 \/ row.amount = 0, NEW line \in Nat,
         NEW a, a = Smaller(line, EffectiveBalance(row)), NEW paid, paid = PaidDown(row, a)
  PROVE  /\ a \in Nat /\ a <= row.left
         /\ paid.left = row.left - a /\ paid.entry = row.entry
         /\ paid.status \in {"paid", "partially_paid"}
<1>1. EffectiveBalance(row) = row.left
  BY DEF EffectiveBalance
<1>2. a \in Nat /\ a <= row.left
  BY <1>1 DEF Smaller
<1>3. paid = IF row.left - a <= 0 THEN [row EXCEPT !.left = 0, !.status = "paid"]
             ELSE [row EXCEPT !.left = row.left - a, !.status = "partially_paid"]
  BY <1>1 DEF PaidDown
<1> QED BY <1>2, <1>3 DEF Fields

LEMMA ControlPay ==
  ASSUME ReceivablesAssumption, FewLines, InvoicesApart, ControlInv, LedgerInv', CreditInv',
         NEW p \in Procs, Pay(p), PaysWhatIsOwed(p)
  PROVE  ControlInv'
<1>0. PICK q : q = Asks(p)
  OBVIOUS
<1>1. PICK rows : rows = seen[p]
  OBVIOUS
<1>2. PICK r : r = job[p].req
  OBVIOUS
<1>3. /\ Ready(p, q) /\ q.kind = "pay" /\ job[p] # Idle /\ job[p].stage = "entered"
      /\ Fresh(p) /\ Known(p) /\ End(p) /\ LedgerInv /\ CreditInv
      /\ \A x \in Touched(q) : lock[x] \in {None, p}
      /\ \A k \in DOMAIN applications : k.req # r
  <2>1. Committing(p, "pay") /\ CreditInv
    BY DEF Pay, ControlInv
  <2> QED BY <1>0, <1>2, <2>1, CreditReady DEF ControlInv, CreditInv
<1>4. CanPay(q, rows)
  <2>1. CanCommit(p)
    BY DEF Pay
  <2> QED BY <1>0, <1>1, <1>3, <2>1 DEF CanCommit, Asks
<1>5. IsPayment(q) /\ r \in DOMAIN Request /\ q = Request[r] /\ r \in todo /\ q.makes \in Created \cup {None}
  <2>1. r \in DOMAIN Request /\ q = Request[r] /\ IsPayment(q)
    BY <1>2, <1>3, RequestIs DEF Ready
  <2>2. q.makes \in Created \cup {None}
    BY <1>3, <2>1 DEF ReceivablesAssumption
  <2>3. r \in todo
    BY <1>2, <1>3 DEF CreditInv, Together
  <2> QED BY <2>1, <2>2, <2>3
<1>6. PICK L : L = DOMAIN q.lines
  OBVIOUS
<1>7. PICK U : U = DOMAIN q.uses
  OBVIOUS
<1>8. /\ L \in SUBSET Docs /\ U \in SUBSET Docs /\ IsFiniteSet(L) /\ IsFiniteSet(U)
      /\ L \subseteq Invoices /\ U \subseteq Credits /\ L \subseteq DOMAIN rows /\ U \subseteq DOMAIN rows
      /\ (\A i \in L : q.lines[i] \in Nat)
      /\ \A c \in U : q.uses[c] \in Nat /\ (Kind[c] = "note" \/ Kind[c] = "deposit")
  <2>1. /\ L \subseteq Invoices /\ U \subseteq Credits /\ IsFiniteSet(L) /\ IsFiniteSet(U)
        /\ (\A i \in L : q.lines[i] \in Nat)
        /\ \A c \in U : q.uses[c] \in Nat /\ (Kind[c] = "note" \/ Kind[c] = "deposit")
    BY <1>5, <1>6, <1>7, LinesAre DEF NatOn
  <2>2. L \subseteq DOMAIN rows /\ U \subseteq DOMAIN rows
    BY <1>1, <1>3, <1>6, <1>7 DEF Ready, Named
  <2> QED BY <2>1, <2>2 DEF Docs
<1>9. RowsKnown(q, rows)
  BY <1>1, <1>3, <1>6, <1>8 DEF RowsKnown, Ready, Written
<1>10. \A x \in Credits : x \in Docs /\ x \notin Invoices /\ x \notin L
  BY <1>8 DEF Docs, ReceivablesAssumption
<1>11. PICK extra : extra = NewDeposit(q, rows)
  OBVIOUS
<1>12. PICK e : e = PaymentEntry(q, rows)
  OBVIOUS
<1>13. PICK n \in Int, d \in Int, t \in Int :
         n = Used(q, "note") /\ d = Used(q, "deposit") /\ t = TotalSettled(q, rows)
  BY <1>5, <1>9, UsedIs, SettlesIs
<1>14. Balanced(e) /\ e["ar"] = n - t /\ e["deposits"] = d - extra /\ extra \in Nat
  <2>1. (\E c \in DOMAIN q.uses : Kind[c] = "note") => Cardinality(DOMAIN q.lines) <= 3
    BY <1>3, <1>5 DEF FewLines
  <2> QED BY <1>4, <1>5, <1>9, <1>11, <1>12, <1>13, <2>1, PaymentEntryIs
<1>15. extra > 0 => q.makes \in Created /\ doc[q.makes].status = "none"
  <2>1. ASSUME extra > 0 PROVE q.makes \in Created /\ doc[q.makes].status = "none"
    <3>1. q.makes # None
      BY <1>0, <1>1, <1>11, <2>1 DEF PaysWhatIsOwed
    <3>2. doc[q.makes].status = "none"
      BY <1>3, <1>5, <3>1 DEF CreditInv, NotMade
    <3> QED BY <1>5, <3>1, <3>2
  <2> QED BY <2>1
<1>16. PICK M : M = IF extra > 0 THEN {q.makes} ELSE {}
  OBVIOUS
<1>17. /\ IsFiniteSet(M) /\ M \in SUBSET Docs
       /\ \A c \in M : /\ extra > 0 /\ c = q.makes /\ c \in Credits /\ c \in Created
                       /\ Kind[c] = "deposit" /\ doc[c].status = "none"
  <2>1. IsFiniteSet(M)
    BY <1>16, FS_EmptySet, FS_Singleton
  <2>2. \A c \in M : extra > 0 /\ c = q.makes /\ c \in Created /\ doc[c].status = "none"
    BY <1>15, <1>16
  <2>3. \A c \in Created : c \in Credits /\ c \in Docs /\ Kind[c] = "deposit"
    BY DEF ReceivablesAssumption, Docs
  <2> QED BY <2>1, <2>2, <2>3
<1>18. doc' = [x \in Docs |->
                  IF x \in L THEN PaidDown(rows[x], Settles(q, rows, x))
                  ELSE IF x \in U THEN Drawn(rows[x], q.uses[x])
                  ELSE IF x = q.makes /\ extra > 0
                       THEN [status |-> "open", amount |-> extra, left |-> extra, entry |-> <<"pay", r>>]
                  ELSE doc[x]]
  BY <1>0, <1>1, <1>2, <1>6, <1>7, <1>11 DEF Pay, Asks
<1>19. ASSUME NEW i \in L
       PROVE  /\ i \in Invoices /\ doc[i].status \notin OffBooks /\ doc[i].left \in Int
              /\ Settles(q, rows, i) \in Int
              /\ doc'[i].left = doc[i].left - Settles(q, rows, i) /\ doc'[i].left >= 0
              /\ doc'[i].status \in {"paid", "partially_paid"}
              /\ doc'[i].entry = doc[i].entry /\ doc[i].entry = <<"post", i>>
              /\ lock[i] \in {None, p}
  <2>1. i \in Invoices /\ i \in Docs /\ lock[i] \in {None, p}
    BY <1>3, <1>6, <1>8 DEF Touched
  <2>2. rows[i] = doc[i]
    <3>1. i \in Locked(q)
      BY <1>3, <1>6 DEF Locked, Named
    <3> QED BY <1>0, <1>1, <1>3, <2>1, <3>1 DEF Known
  <2>3. rows[i].left > 0 \/ rows[i].amount = 0
    BY <1>0, <1>1, <1>6 DEF PaysWhatIsOwed
  <2>4. /\ DOMAIN doc[i] = Fields /\ doc[i].left \in Int /\ doc[i].left >= 0 /\ doc[i].amount \in Nat
        /\ doc[i].entry = <<"post", i>>
    BY <1>3, <2>1 DEF ControlInv, InvoicesOk, InvoiceOk, LedgerInv, DocsOk, Written
  <2>5. doc[i].status \in PayableStatus
    BY <1>4, <1>6, <2>2 DEF CanPay
  <2>6. PICK a : a = Settles(q, rows, i)
    OBVIOUS
  <2>7. a = Smaller(q.lines[i], EffectiveBalance(doc[i])) /\ q.lines[i] \in Nat
    BY <1>8, <2>2, <2>6 DEF Settles
  <2>8. doc'[i] = PaidDown(doc[i], a)
    BY <1>18, <2>1, <2>2, <2>6
  <2>9. /\ a \in Nat /\ a <= doc[i].left
        /\ doc'[i].left = doc[i].left - a /\ doc'[i].entry = doc[i].entry
        /\ doc'[i].status \in {"paid", "partially_paid"}
    BY <2>2, <2>3, <2>4, <2>7, <2>8, PaidDownIs
  <2> QED BY <2>1, <2>4, <2>5, <2>6, <2>9 DEF PayableStatus, OffBooks
<1>20. ASSUME NEW c \in U
       PROVE  /\ c \in Credits /\ doc[c].status \in OnBooks /\ doc[c].left \in Int /\ q.uses[c] \in Int
              /\ doc'[c].left = doc[c].left - q.uses[c] /\ doc'[c].status \in OnBooks
              /\ doc'[c].entry = doc[c].entry /\ doc'[c].amount = doc[c].amount
  <2>1. c \in Credits /\ c \in Docs /\ c \notin L /\ q.uses[c] \in Nat
    BY <1>8, <1>10
  <2>2. rows[c] = doc[c] /\ Open(doc[c]) /\ q.uses[c] <= doc[c].left
    <3>1. Open(rows[c]) /\ q.uses[c] <= rows[c].left
      BY <1>4, <1>7 DEF CanPay
    <3>2. rows[c] = doc[c] \/ rows[c].status = "none"
      BY <1>0, <1>1, <1>3, <1>7 DEF Fresh
    <3> QED BY <3>1, <3>2 DEF Open
  <2>3. DOMAIN doc[c] = Fields /\ doc[c].left \in Int
    BY <1>3, <2>1 DEF LedgerInv, DocsOk, Written
  <2>4. doc'[c] = Drawn(doc[c], q.uses[c])
    BY <1>18, <2>1, <2>2
  <2> QED BY <2>1, <2>2, <2>3, <2>4 DEF Drawn, Open, OnBooks, Fields
<1>21. ASSUME NEW c \in M
       PROVE  /\ c \notin U /\ c \notin L
              /\ doc'[c] = [status |-> "open", amount |-> extra, left |-> extra, entry |-> <<"pay", r>>]
  <2>1. c \notin U
    BY <1>17, <1>20 DEF OnBooks
  <2> QED BY <1>10, <1>17, <1>18, <2>1
<1>22. \A x \in Docs : x \notin L /\ x \notin U /\ x \notin M => doc'[x] = doc[x]
  BY <1>16, <1>18
<1>23. PICK N : N = {c \in U : Kind[c] = "note"}
  OBVIOUS
<1>24. PICK D : D = {c \in U : Kind[c] = "deposit"}
  OBVIOUS
<1>25. /\ N \in SUBSET Docs /\ D \in SUBSET Docs /\ L \cap N = {} /\ D \cap M = {}
       /\ IsFiniteSet(N) /\ IsFiniteSet(D) /\ IntOn(q.uses, N) /\ IntOn(q.uses, D)
       /\ n = SumFunctionOnSet(q.uses, N) /\ d = SumFunctionOnSet(q.uses, D)
  <2>1. N \in SUBSET U /\ D \in SUBSET U
    BY <1>23, <1>24
  <2>2. IsFiniteSet(N) /\ IsFiniteSet(D)
    BY <1>8, <2>1, FS_Subset
  <2>3. IntOn(q.uses, N) /\ IntOn(q.uses, D)
    BY <1>20, <2>1 DEF IntOn
  <2>4. n = SumFunctionOnSet(q.uses, N) /\ d = SumFunctionOnSet(q.uses, D)
    BY <1>7, <1>13, <1>23, <1>24 DEF Used
  <2>5. L \cap N = {} /\ D \cap M = {}
    BY <1>8, <1>10, <1>21, <2>1
  <2> QED BY <1>8, <2>1, <2>2, <2>3, <2>4, <2>5
<1>26. CarriedBy("ar", doc') = CarriedBy("ar", doc) + (n - t)
  <2>1. PICK f : f = [i \in L |-> -Settles(q, rows, i)]
    OBVIOUS
  <2>2. SumFunctionOnSet(f, L) = -t /\ IntOn(f, L)
    <3>1. /\ IntOn(SettledOf(q, rows), L) /\ t = SumFunctionOnSet(SettledOf(q, rows), L)
          /\ \A i \in L : f[i] = -SettledOf(q, rows)[i]
      BY <1>5, <1>6, <1>9, <1>13, <2>1, SettlesIs DEF SettledOf
    <3> QED BY <1>8, <3>1, SumNegated
  <2>3. PICK h : h = [x \in Docs |-> IF x \in L THEN f[x] ELSE IF x \in N THEN q.uses[x] ELSE 0]
    OBVIOUS
  <2>4. SumFunctionOnSet(h, Docs) = -t + n /\ IntOn(h, Docs)
    <3>1. \A x \in Docs : h[x] = IF x \in L THEN f[x] ELSE IF x \in N THEN q.uses[x] ELSE 0
      BY <2>3
    <3>2. IsFiniteSet(Docs)
      BY DEF ReceivablesAssumption
    <3>3. PICK g : g = q.uses
      OBVIOUS
    <3>4. SumFunctionOnSet(h, Docs) = SumFunctionOnSet(f, L) + SumFunctionOnSet(g, N) /\ IntOn(h, Docs)
      BY <1>8, <1>25, <2>2, <3>1, <3>2, <3>3, SumOfTwo
    <3> QED BY <1>25, <2>2, <3>3, <3>4
  <2>5. ASSUME NEW x \in Docs
        PROVE  Carried("ar", x, doc'[x]) = Carried("ar", x, doc[x]) + h[x]
    <3>1. CASE x \in L
      <4>1. h[x] = -Settles(q, rows, x)
        BY <2>1, <2>3, <3>1
      <4> QED BY <1>19, <3>1, <4>1 DEF Carried, OffBooks
    <3>2. CASE x \in N
      <4>1. x \in U /\ x \notin L /\ x \notin Invoices /\ Kind[x] = "note" /\ h[x] = q.uses[x]
        BY <1>8, <1>10, <1>23, <2>3, <3>2
      <4> QED BY <1>20, <4>1 DEF Carried, OffBooks, OnBooks
    <3>3. CASE x \in D
      <4>1. x \in U /\ x \notin L /\ x \notin Invoices /\ Kind[x] = "deposit" /\ x \notin N /\ h[x] = 0
        BY <1>8, <1>10, <1>23, <1>24, <2>3, <3>3
      <4> QED BY <1>20, <4>1 DEF Carried, OffBooks, OnBooks
    <3>4. CASE x \in M
      <4>1. x \notin L /\ x \notin Invoices /\ Kind[x] = "deposit" /\ x \notin N /\ h[x] = 0
        BY <1>10, <1>17, <1>21, <1>23, <2>3, <3>4
      <4> QED BY <1>17, <1>21, <3>4, <4>1 DEF Carried, OffBooks
    <3>5. CASE x \notin L /\ x \notin U /\ x \notin M
      <4>1. h[x] = 0 /\ doc'[x] = doc[x]
        BY <1>22, <1>23, <2>3, <3>5
      <4> QED BY <1>3, <4>1, CarriedIs
    <3> QED BY <1>8, <1>23, <1>24, <3>1, <3>2, <3>3, <3>4, <3>5
  <2>6. CarriedBy("ar", doc') = CarriedBy("ar", doc) + SumFunctionOnSet(h, Docs)
    BY <1>3, <2>4, <2>5, CarriedMoves
  <2>7. CarriedBy("ar", doc) \in Int
    BY <1>3, CarriedIs
  <2> QED BY <1>13, <2>4, <2>6, <2>7
<1>27. CarriedBy("deposits", doc') = CarriedBy("deposits", doc) + (d - extra)
  <2>1. PICK g : g = [x \in M |-> -extra]
    OBVIOUS
  <2>2. SumFunctionOnSet(g, M) = -extra /\ IntOn(g, M)
    <3>1. CASE extra > 0
      <4>1. M = {q.makes} /\ g[q.makes] = -extra /\ -extra \in Int
        BY <1>14, <1>16, <2>1, <3>1
      <4>2. PICK m : m = q.makes
        OBVIOUS
      <4>3. SumFunctionOnSet(g, {m}) = g[m]
        BY <4>1, <4>2, SumOfOne DEF IntOn
      <4> QED BY <4>1, <4>2, <4>3 DEF IntOn
    <3>2. CASE extra = 0
      <4>1. M = {}
        BY <1>16, <3>2
      <4> QED BY <3>2, <4>1, SumEmpty DEF IntOn
    <3> QED BY <1>14, <3>1, <3>2
  <2>3. PICK h : h = [x \in Docs |-> IF x \in D THEN q.uses[x] ELSE IF x \in M THEN g[x] ELSE 0]
    OBVIOUS
  <2>4. SumFunctionOnSet(h, Docs) = d + (-extra) /\ IntOn(h, Docs)
    <3>1. \A x \in Docs : h[x] = IF x \in D THEN q.uses[x] ELSE IF x \in M THEN g[x] ELSE 0
      BY <2>3
    <3>2. IsFiniteSet(Docs)
      BY DEF ReceivablesAssumption
    <3>3. PICK f : f = q.uses
      OBVIOUS
    <3>4. D \in SUBSET Docs /\ M \in SUBSET Docs /\ D \cap M = {} /\ IntOn(f, D)
      BY <1>17, <1>25, <3>3
    <3>5. \A x \in Docs : h[x] = IF x \in D THEN f[x] ELSE IF x \in M THEN g[x] ELSE 0
      BY <3>1, <3>3
    <3>6. SumFunctionOnSet(h, Docs) = SumFunctionOnSet(f, D) + SumFunctionOnSet(g, M) /\ IntOn(h, Docs)
      BY <2>2, <3>2, <3>4, <3>5, SumOfTwo
    <3> QED BY <1>25, <2>2, <3>3, <3>6
  <2>5. ASSUME NEW x \in Docs
        PROVE  Carried("deposits", x, doc'[x]) = Carried("deposits", x, doc[x]) + h[x]
    <3>1. CASE x \in L
      <4>1. h[x] = 0 /\ x \notin Credits
        BY <1>8, <1>10, <1>17, <1>24, <2>3, <3>1
      <4> QED BY <4>1 DEF Carried
    <3>2. CASE x \in D
      <4>1. x \in U /\ x \in Credits /\ Kind[x] = "deposit" /\ h[x] = q.uses[x]
        BY <1>8, <1>24, <2>3, <3>2
      <4> QED BY <1>20, <4>1 DEF Carried, OffBooks, OnBooks
    <3>3. CASE x \in N
      <4>1. x \in U /\ Kind[x] = "note" /\ x \notin D /\ x \notin M /\ h[x] = 0
        BY <1>17, <1>23, <1>24, <2>3, <3>3
      <4> QED BY <4>1 DEF Carried
    <3>4. CASE x \in M
      <4>1. x \notin D /\ h[x] = -extra
        BY <1>25, <2>1, <2>3, <3>4
      <4>2. x \in Credits /\ Kind[x] = "deposit" /\ doc[x].status = "none"
            /\ doc'[x].status = "open" /\ doc'[x].left = extra
        BY <1>17, <1>21, <3>4
      <4> QED BY <1>14, <4>1, <4>2 DEF Carried, OffBooks
    <3>5. CASE x \notin L /\ x \notin U /\ x \notin M
      <4>1. h[x] = 0 /\ doc'[x] = doc[x]
        BY <1>22, <1>24, <2>3, <3>5
      <4> QED BY <1>3, <4>1, CarriedIs
    <3> QED BY <1>8, <1>23, <1>24, <3>1, <3>2, <3>3, <3>4, <3>5
  <2>6. CarriedBy("deposits", doc') = CarriedBy("deposits", doc) + SumFunctionOnSet(h, Docs)
    BY <1>3, <2>4, <2>5, CarriedMoves
  <2>7. CarriedBy("deposits", doc) \in Int
    BY <1>3, CarriedIs
  <2> QED BY <1>13, <1>14, <2>4, <2>6, <2>7
<1>28. PICK source : source = <<"pay", r>>
  OBVIOUS
<1>29. /\ Sources' = Sources \cup {source} /\ Exact'
       /\ Balance("ar")' = Balance("ar") + e["ar"]
       /\ Balance("deposits")' = Balance("deposits") + e["deposits"]
       /\ \A i : Returned(i)' <=> Returned(i)
  <2>1. entries' = WithEntry(source, e)
    BY <1>0, <1>1, <1>2, <1>12, <1>28 DEF Pay, Asks
  <2>2. (\A x \in Docs : source # <<"post", x>>) /\ \A i : source # <<"reverse", <<"post", i>>>>
    BY <1>28
  <2> QED BY <1>3, <1>14, <2>1, <2>2, Entered DEF ControlInv
<1>30. InBalance'
  <2>1. e["ar"] \in Int /\ e["deposits"] \in Int
    BY <1>13, <1>14
  <2> QED BY <1>14, <1>26, <1>27, <1>29, <2>1, InBalanceMoves DEF ControlInv
<1>31. PICK A : A = {k \in PaymentRows(r, q) : PaidBy(q, rows, k) > 0}
  OBVIOUS
<1>32. \A k \in A : /\ k.credit \in U /\ k.invoice \in L /\ k.req = r /\ k \notin DOMAIN applications
                    /\ PaidBy(q, rows, k) > 0 /\ PaidBy(q, rows, k) \in Int
  <2>1. \A k \in PaymentRows(r, q) :
          k.credit \in DOMAIN q.uses /\ k.invoice \in DOMAIN q.lines /\ k = Row(r, k.credit, k.invoice)
    BY <1>6, <1>7, <1>8, PaymentRowsAre
  <2>2. ASSUME NEW k \in A PROVE PaidBy(q, rows, k) \in Int
    <3>1. k.credit \in DOMAIN q.uses /\ k.invoice \in DOMAIN q.lines
      BY <1>31, <2>1
    <3> QED BY <1>4, <1>5, <1>9, <3>1, SharesAreNat DEF PaidBy
  <2>3. \A k \in PaymentRows(r, q) : k.req = r
    BY <2>1 DEF Row
  <2> QED BY <1>3, <1>6, <1>7, <1>31, <2>1, <2>2, <2>3
<1>33. /\ DOMAIN applications' = DOMAIN applications \cup A
       /\ \A k \in DOMAIN applications : applications'[k] = applications[k]
       /\ \A k \in A : applications'[k] = [amount |-> PaidBy(q, rows, k), live |-> TRUE]
  <2>1. applications' = [k \in DOMAIN applications \cup A |->
                 IF k \in A THEN [amount |-> PaidBy(q, rows, k), live |-> TRUE] ELSE applications[k]]
    BY <1>0, <1>1, <1>2, <1>31 DEF Pay, Asks
  <2> QED BY <1>32, <2>1
<1>34. settled' = settled \cup L
  BY <1>0, <1>6 DEF Pay, Asks
<1>35. InvoicesOk'
  <2>1. ASSUME NEW i \in Invoices PROVE InvoiceOk(i)'
    <3>1. CASE i \in L
      BY <1>19, <1>34, <3>1 DEF InvoiceOk
    <3>2. CASE i \notin L
      <4>1. doc'[i] = doc[i]
        <5>1. i \notin U /\ i \notin M /\ i \in Docs
          BY <1>8, <1>10, <1>17 DEF Docs
        <5> QED BY <1>22, <3>2, <5>1
      <4>2. /\ OnInvoice(applications', i) = OnInvoice(applications, i)
            /\ \A k \in OnInvoice(applications, i) : applications'[k].amount = applications[k].amount
        BY <1>32, <1>33, <3>2 DEF OnInvoice
      <4>3. InvoiceOk(i) /\ (i \in settled' <=> i \in settled)
        BY <1>34, <3>2 DEF ControlInv, InvoicesOk
      <4> QED BY <1>3, <1>29, <4>1, <4>2, <4>3, InvoiceLike
    <3> QED BY <3>1, <3>2
  <2> QED BY <2>1 DEF InvoicesOk
<1>36. NoneBelowZero'
  BY <1>32, <1>33 DEF ControlInv, NoneBelowZero
<1>37. ASSUME NEW c \in Credits
       PROVE  \/ doc'[c] = doc[c]
              \/ /\ doc'[c].status \in OnBooks
                 /\ c \in Created \/ (/\ doc[c].status \in OnBooks /\ doc'[c].entry = doc[c].entry
                                      /\ doc'[c].amount = doc[c].amount)
  <2>1. c \in Docs /\ c \notin L
    BY <1>10
  <2>2. CASE c \in U
    BY <1>20, <2>2
  <2>3. CASE c \in M
    BY <1>17, <1>21, <2>3 DEF OnBooks
  <2> QED BY <1>22, <2>1, <2>2, <2>3
<1>38. Backed'
  <2>1. ASSUME NEW c \in Credits \ Created, doc'[c].status \in OnBooks
        PROVE  doc'[c].entry = <<"post", c>> /\ doc'[c].amount = Amount[c]
    BY <1>37, <2>1 DEF ControlInv, Backed
  <2> QED BY <2>1 DEF Backed
<1>39. Moves(p)
  <2>1. \A i \in Invoices : doc'[i] = doc[i] \/ lock[i] \in {None, p}
    <3>1. ASSUME NEW i \in Invoices, i \notin L PROVE doc'[i] = doc[i]
      <4>1. i \notin U /\ i \notin M /\ i \in Docs
        BY <1>8, <1>10, <1>17 DEF Docs
      <4> QED BY <1>22, <3>1, <4>1
    <3> QED BY <1>19, <3>1
  <2>2. \A c \in Credits : doc[c].status = "open" /\ doc'[c].status = "voided" => FALSE
    BY <1>37 DEF OnBooks
  <2> QED BY <1>29, <1>30, <1>35, <1>36, <1>38, <2>1, <2>2 DEF Moves
<1> QED BY <1>3, <1>39, ControlCommits

LEMMA ControlVoidInvoice ==
  ASSUME ReceivablesAssumption, FewLines, InvoicesApart, ControlInv, LedgerInv', CreditInv',
         NEW p \in Procs, VoidInvoice(p), VoidsWhatIsFree(p)
  PROVE  ControlInv'
<1>0. PICK q : q = Asks(p)
  OBVIOUS
<1>1. PICK i : i = q.invoice
  OBVIOUS
<1>2. PICK N : N = NotesOn(i)
  OBVIOUS
<1>3. /\ Ready(p, q) /\ q.kind = "voidInvoice" /\ job[p] # Idle /\ job[p].stage = "entered"
      /\ Fresh(p) /\ Known(p) /\ End(p) /\ LedgerInv /\ CreditInv
      /\ \A x \in Touched(q) : lock[x] \in {None, p}
  <2>1. Committing(p, "voidInvoice") /\ CreditInv
    BY Zenon DEF VoidInvoice, ControlInv
  <2> QED BY <1>0, <2>1, CreditReady DEF ControlInv, CreditInv
<1>4. i \in Invoices /\ i \in Docs /\ \A c \in Credits : c \in Docs /\ c # i /\ c \notin Invoices
  <2>1. i \in Invoices
    BY <1>0, <1>1, <1>3, RequestIs DEF Ready
  <2> QED BY <2>1 DEF Docs, ReceivablesAssumption
<1>5. /\ \A k \in N : /\ k.credit \in DOMAIN seen[p] /\ k \in DOMAIN applications
                      /\ applications[k].live /\ Kind[k.credit] = "note" /\ k.invoice = i
                      /\ k.credit \in Credits
      /\ \A c \in DOMAIN seen[p] \ {i} : seen[p][c] = doc[c] /\ \E k \in N : k.credit = c
  BY <1>0, <1>1, <1>2, <1>3 DEF Fresh, NotesOn, Live, LedgerInv, AppsOk
<1>6. N = OnInvoice(applications, i)
  <2>1. \A k \in OnInvoice(applications, i) : Kind[k.credit] = "note"
    BY <1>0, <1>1 DEF VoidsWhatIsFree
  <2> QED BY <1>2, <2>1 DEF OnInvoice, NotesOn, Live
<1>7. /\ doc[i].status \notin OffBooks /\ i \notin settled /\ ~Returned(i)
      /\ doc[i].entry = <<"post", i>> /\ <<"post", i>> \in Sources
      /\ DOMAIN doc[i] = Fields /\ doc[i].left \in Int
      /\ doc[i].left = Amount[i] - PaidOf(applications, i)
  <2>1. seen[p][i] = doc[i]
    <3>1. i \in Locked(q)
      BY <1>1, <1>3 DEF Locked
    <3> QED BY <1>0, <1>3, <1>4, <3>1 DEF Known
  <2>2. InvoiceOk(i) /\ Written(Sources, i, doc[i])
    BY <1>3, <1>4 DEF ControlInv, InvoicesOk, LedgerInv, DocsOk
  <2>3. CanCommit(p)
    BY DEF VoidInvoice
  <2>4. doc[i].status # "voided" /\ i \notin settled /\ IsFree(<<"reverse", doc[i].entry>>)
    BY <1>0, <1>1, <1>3, <2>1, <2>3 DEF CanCommit, Asks
  <2>5. doc[i].entry = <<"post", i>> /\ doc[i].status \notin OffBooks
    BY <2>2, <2>4 DEF InvoiceOk, OffBooks
  <2>6. ~Returned(i)
    BY <2>4, <2>5 DEF IsFree, Returned, Sources
  <2>7. <<"post", i>> \in Sources /\ DOMAIN doc[i] = Fields /\ doc[i].left \in Int
    BY <1>4, <2>2, <2>5 DEF Written
  <2>8. doc[i].left = Amount[i] - PaidOf(applications, i)
    BY <2>2, <2>4, <2>6 DEF InvoiceOk
  <2> QED BY <2>4, <2>5, <2>6, <2>7, <2>8
<1>8. PICK C : C = {c \in Credits : c \in DOMAIN seen[p]}
  OBVIOUS
<1>9. IsFiniteSet(C) /\ C \in SUBSET Docs /\ i \notin C /\ C \subseteq Credits
  <2>1. C \in SUBSET Docs /\ i \notin C /\ C \subseteq Credits
    BY <1>4, <1>8
  <2>2. IsFiniteSet(Docs)
    BY DEF ReceivablesAssumption
  <2>3. IsFiniteSet(C)
    BY <2>1, <2>2, FS_Subset
  <2> QED BY <2>1, <2>3
<1>10. PICK g : g = [c \in C |-> SumFunctionOnSet(AmountsOf(applications), RowsOf(N, c))]
  OBVIOUS
<1>11. doc' = [x \in Docs |->
                  IF x = i THEN [doc[i] EXCEPT !.status = "voided", !.left = 0]
                  ELSE IF x \in DOMAIN seen[p]
                       THEN GivenBack(seen[p][x], AmountOf({k \in N : k.credit = x}))
                  ELSE doc[x]]
  BY <1>0, <1>1, <1>2, Zenon DEF VoidInvoice, Asks
<1>12. doc'[i].status = "voided" /\ doc'[i].left = 0 /\ doc'[i].entry = <<"post", i>>
  <2>1. doc'[i] = [doc[i] EXCEPT !.status = "voided", !.left = 0]
    BY <1>4, <1>11
  <2> QED BY <1>7, <2>1 DEF Fields
<1>13. ASSUME NEW c \in C
       PROVE  /\ c \in Credits /\ c \in Docs /\ c \notin Invoices /\ Kind[c] = "note"
              /\ g[c] \in Int /\ doc[c].left \in Int
              /\ doc[c].status \in OnBooks /\ doc'[c].status \in OnBooks
              /\ doc'[c].left = doc[c].left + g[c]
              /\ doc'[c].entry = doc[c].entry /\ doc'[c].amount = doc[c].amount
  <2>1. /\ c \in Credits /\ c \in Docs /\ c \notin Invoices /\ c # i /\ c \in DOMAIN seen[p]
        /\ seen[p][c] = doc[c] /\ \E k \in N : k.credit = c
    BY <1>4, <1>5, <1>8
  <2>2. Kind[c] = "note" /\ LiveOf(applications, c) # {}
    BY <1>5, <2>1 DEF LiveOf
  <2>3. Written(Sources, c, doc[c]) /\ CreditOk(c, doc[c], applications)
    BY <1>3, <2>1 DEF CreditInv, CreditsOk, LedgerInv, DocsOk
  <2>4. doc[c].status \in OnBooks
    BY <2>2, <2>3 DEF CreditOk
  <2>5. PICK a : a = AmountOf(RowsOf(N, c))
    OBVIOUS
  <2>6. a = g[c] /\ a \in Int
    <3>1. RowsOf(N, c) \in SUBSET DOMAIN applications
      BY <1>5 DEF RowsOf
    <3> QED BY <1>3, <1>10, <2>5, <3>1, AmountsAre
  <2>7. doc'[c] = GivenBack(doc[c], a)
    BY <1>11, <2>1, <2>5 DEF RowsOf
  <2>8. DOMAIN doc[c] = Fields /\ doc[c].left \in Int
    BY <2>3 DEF Written
  <2> QED BY <2>1, <2>2, <2>4, <2>6, <2>7, <2>8 DEF GivenBack, Fields, OnBooks
<1>14. ASSUME NEW x \in Docs, x # i, x \notin C PROVE doc'[x] = doc[x]
  <2>1. x \notin DOMAIN seen[p]
    BY <1>5, <1>8, <1>14
  <2> QED BY <1>11, <1>14, <2>1
<1>15. AppsSound(applications) /\ IsFiniteSet(N) /\ IntOn(AmountsOf(applications), N)
  <2>1. AppsSound(applications)
    BY <1>3, RowsSound
  <2> QED BY <1>6, <2>1, PaidIs
<1>16. SumFunctionOnSet(g, C) = PaidOf(applications, i) /\ IntOn(g, C)
  <2>1. PICK a : a = [k \in N |-> k.credit]
    OBVIOUS
  <2>2. PICK f : f = AmountsOf(applications)
    OBVIOUS
  <2>3. \A k \in N : a[k] \in C
    BY <1>5, <1>8, <2>1
  <2>4. SumFunctionOnSet(GroupSums(f, a, N, C), C) = SumFunctionOnSet(f, N)
    BY <1>9, <1>15, <2>2, <2>3, SumGroups
  <2>5. \A c \in C : RowsOf(N, c) = Group(a, N, c)
    BY <2>1 DEF RowsOf, Group
  <2>6. g = GroupSums(f, a, N, C)
    BY <1>10, <2>2, <2>5 DEF GroupSums
  <2>7. IntOn(g, C)
    BY <1>13 DEF IntOn
  <2> QED BY <1>6, <2>2, <2>4, <2>6, <2>7 DEF PaidOf
<1>17. PICK w \in Int : w = PaidOf(applications, i)
  BY <1>15, PaidIs
<1>18. PICK m \in Int : m = Amount[i]
  BY <1>4 DEF ReceivablesAssumption
<1>19. PICK source : source = <<"reverse", <<"post", i>>>>
  OBVIOUS
<1>20. PICK e : e = Reversal(entries[<<"post", i>>])
  OBVIOUS
<1>21. Balanced(e) /\ e["ar"] = -m /\ e["deposits"] = 0
  <2>1. entries[<<"post", i>>] = Entry(0, m, 0, -m)
    BY <1>4, <1>7, <1>18 DEF ControlInv, Exact, Posting
  <2>2. Balanced(entries[<<"post", i>>])
    BY <1>3, <1>7 DEF LedgerInv, Books, LedgerOk, Sources
  <2>3. Balanced(e)
    BY <1>20, <2>2, ReversalBalances
  <2> QED BY <1>20, <2>1, <2>3 DEF Reversal, Entry
<1>22. /\ Sources' = Sources \cup {source} /\ Exact'
       /\ Balance("ar")' = Balance("ar") + e["ar"]
       /\ Balance("deposits")' = Balance("deposits") + e["deposits"]
       /\ \A j : j # i => (Returned(j)' <=> Returned(j))
  <2>1. entries' = WithEntry(source, e)
    BY <1>0, <1>1, <1>7, <1>19, <1>20, Zenon DEF VoidInvoice, Asks
  <2>2. \A x \in Docs : source # <<"post", x>>
    BY <1>19
  <2>3. \A j : j # i => source # <<"reverse", <<"post", j>>>>
    BY <1>19
  <2>4. /\ Sources' = Sources \cup {source} /\ Exact'
        /\ Balance("ar")' = Balance("ar") + e["ar"]
        /\ Balance("deposits")' = Balance("deposits") + e["deposits"]
        /\ \A j : source # <<"reverse", <<"post", j>>>> => (Returned(j)' <=> Returned(j))
    BY <1>3, <1>21, <2>1, <2>2, Entered DEF ControlInv
  <2> QED BY <2>3, <2>4
<1>23. CarriedBy("ar", doc') = CarriedBy("ar", doc) + (-m)
  <2>1. PICK f : f = [x \in {i} |-> -doc[i].left]
    OBVIOUS
  <2>2. SumFunctionOnSet(f, {i}) = -doc[i].left /\ IntOn(f, {i})
    <3>1. f[i] = -doc[i].left /\ f[i] \in Int
      BY <1>7, <2>1
    <3> QED BY <3>1, SumOfOne DEF IntOn
  <2>3. PICK b : b = [c \in C |-> -g[c]]
    OBVIOUS
  <2>4. SumFunctionOnSet(b, C) = -w /\ IntOn(b, C)
    <3>1. \A c \in C : b[c] = -g[c]
      BY <2>3
    <3>2. IsFiniteSet(C) /\ IntOn(g, C)
      BY <1>9, <1>16
    <3>3. SumFunctionOnSet(b, C) = -SumFunctionOnSet(g, C) /\ IntOn(b, C)
      BY <3>1, <3>2, SumNegated
    <3> QED BY <1>16, <1>17, <3>3
  <2>5. PICK h : h = [x \in Docs |-> IF x \in {i} THEN f[x] ELSE IF x \in C THEN b[x] ELSE 0]
    OBVIOUS
  <2>6. SumFunctionOnSet(h, Docs) = -m /\ IntOn(h, Docs)
    <3>1. PICK T : T = {i}
      OBVIOUS
    <3>2. T \in SUBSET Docs /\ C \in SUBSET Docs /\ T \cap C = {} /\ IsFiniteSet(Docs)
      BY <1>4, <1>9, <3>1 DEF ReceivablesAssumption
    <3>3. \A x \in Docs : h[x] = IF x \in T THEN f[x] ELSE IF x \in C THEN b[x] ELSE 0
      BY <2>5, <3>1
    <3>4. SumFunctionOnSet(h, Docs) = SumFunctionOnSet(f, T) + SumFunctionOnSet(b, C) /\ IntOn(h, Docs)
      BY <2>2, <2>4, <3>1, <3>2, <3>3, SumOfTwo
    <3>5. -doc[i].left + (-w) = -m
      BY <1>7, <1>17, <1>18
    <3> QED BY <2>2, <2>4, <3>1, <3>4, <3>5
  <2>7. ASSUME NEW x \in Docs
        PROVE  Carried("ar", x, doc'[x]) = Carried("ar", x, doc[x]) + h[x]
    <3>1. CASE x = i
      <4>1. h[x] = -doc[i].left
        BY <1>4, <2>1, <2>5, <3>1
      <4> QED BY <1>4, <1>7, <1>12, <3>1, <4>1 DEF Carried, OffBooks
    <3>2. CASE x \in C
      <4>1. h[x] = -g[x]
        BY <1>9, <2>3, <2>5, <3>2
      <4> QED BY <1>13, <3>2, <4>1 DEF Carried, OffBooks, OnBooks
    <3>3. CASE x # i /\ x \notin C
      <4>1. h[x] = 0 /\ doc'[x] = doc[x]
        BY <1>14, <2>5, <3>3
      <4> QED BY <1>3, <4>1, CarriedIs
    <3> QED BY <3>1, <3>2, <3>3
  <2>8. CarriedBy("ar", doc') = CarriedBy("ar", doc) + SumFunctionOnSet(h, Docs)
    BY <1>3, <2>6, <2>7, CarriedMoves
  <2> QED BY <2>6, <2>8
<1>24. CarriedBy("deposits", doc') = CarriedBy("deposits", doc) + 0
  <2>1. ASSUME NEW x \in Docs
        PROVE  Carried("deposits", x, doc'[x]) = Carried("deposits", x, doc[x])
    <3>1. CASE x = i
      <4>1. x \notin Credits
        BY <1>4, <3>1
      <4> QED BY <4>1 DEF Carried
    <3>2. CASE x \in C
      <4>1. Kind[x] = "note"
        BY <1>13, <3>2
      <4> QED BY <4>1 DEF Carried
    <3>3. CASE x # i /\ x \notin C
      BY <1>14, <3>3
    <3> QED BY <3>1, <3>2, <3>3
  <2>2. PICK a \in Int : a = 0
    OBVIOUS
  <2>3. Carried("deposits", i, doc'[i]) = Carried("deposits", i, doc[i]) + a
    BY <1>3, <1>4, <2>1, <2>2, CarriedIs
  <2>4. CarriedBy("deposits", doc') = CarriedBy("deposits", doc) + a
    <3>1. \A z \in Docs \ {i} : Carried("deposits", z, doc'[z]) = Carried("deposits", z, doc[z])
      BY <2>1
    <3>2. LedgerInv /\ i \in Docs
      BY <1>3, <1>4
    <3> QED BY <2>3, <3>1, <3>2, OneMoves
  <2> QED BY <2>2, <2>4
<1>25. InBalance'
  <2>1. PICK a \in Int : a = e["ar"] /\ CarriedBy("ar", doc') = CarriedBy("ar", doc) + a
    BY <1>18, <1>21, <1>23
  <2>2. PICK b \in Int : b = e["deposits"] /\ CarriedBy("deposits", doc') = CarriedBy("deposits", doc) + b
    BY <1>21, <1>24
  <2> QED BY <1>22, <2>1, <2>2, InBalanceMoves DEF ControlInv
<1>26. /\ DOMAIN applications' = DOMAIN applications
       /\ \A k \in DOMAIN applications : /\ applications'[k].amount = applications[k].amount
                                         /\ applications'[k].live <=> applications[k].live /\ k \notin N
  <2>1. applications' = [k \in DOMAIN applications |->
                 [applications[k] EXCEPT !.live = @ /\ k \notin N]]
    BY <1>0, <1>1, <1>2, Zenon DEF VoidInvoice, Asks
  <2>2. \A k \in DOMAIN applications : DOMAIN applications[k] = {"amount", "live"}
    BY <1>3 DEF LedgerInv, AppsOk
  <2> QED BY <2>1, <2>2
<1>27. settled' = settled
  BY Zenon DEF VoidInvoice
<1>28. InvoicesOk'
  <2>1. InvoiceOk(i)'
    <3>1. OnInvoice(applications', i) = {}
      BY <1>6, <1>26 DEF OnInvoice
    <3>2. Returned(i)'
      BY <1>19, <1>22 DEF Returned
    <3> QED BY <1>12, <3>1, <3>2 DEF InvoiceOk
  <2>2. ASSUME NEW j \in Invoices \ {i}
        PROVE  /\ doc'[j] = doc[j] /\ (Returned(j)' <=> Returned(j)) /\ (j \in settled' <=> j \in settled)
               /\ OnInvoice(applications', j) = OnInvoice(applications, j)
               /\ \A k \in OnInvoice(applications, j) : applications'[k].amount = applications[k].amount
    <3>1. j \in Docs /\ j \notin C
      BY <1>4, <1>9 DEF Docs
    <3>2. doc'[j] = doc[j]
      BY <1>14, <3>1
    <3>3. \A k \in N : k.invoice # j
      BY <1>5
    <3>4. /\ OnInvoice(applications', j) = OnInvoice(applications, j)
          /\ \A k \in OnInvoice(applications, j) : applications'[k].amount = applications[k].amount
      BY <1>26, <3>3 DEF OnInvoice
    <3> QED BY <1>22, <1>27, <3>2, <3>4
  <2> QED BY <1>3, <1>4, <2>1, <2>2, OneInvoice DEF ControlInv
<1>29. NoneBelowZero'
  BY <1>26 DEF ControlInv, NoneBelowZero
<1>30. Backed'
  <2>1. ASSUME NEW c \in Credits \ Created, doc'[c].status \in OnBooks
        PROVE  doc'[c].entry = <<"post", c>> /\ doc'[c].amount = Amount[c]
    <3>1. CASE c \in C
      BY <1>13, <3>1 DEF ControlInv, Backed
    <3>2. CASE c \notin C
      <4>1. doc'[c] = doc[c]
        BY <1>4, <1>14, <3>2
      <4> QED BY <2>1, <4>1 DEF ControlInv, Backed
    <3> QED BY <3>1, <3>2
  <2> QED BY <2>1 DEF Backed
<1>31. Moves(p)
  <2>1. \A j \in Invoices : doc'[j] = doc[j] \/ lock[j] \in {None, p}
    <3>1. lock[i] \in {None, p}
      BY <1>1, <1>3 DEF Touched
    <3>2. \A j \in Invoices : j # i => doc'[j] = doc[j]
      BY <1>4, <1>9, <1>14 DEF Docs
    <3> QED BY <3>1, <3>2
  <2>2. ASSUME NEW c \in Credits, doc[c].status = "open", doc'[c].status = "voided" PROVE FALSE
    <3>1. c \notin C
      BY <1>13, <2>2 DEF OnBooks
    <3>2. doc'[c] = doc[c]
      BY <1>4, <1>14, <3>1
    <3> QED BY <2>2, <3>2
  <2> QED BY <1>22, <1>25, <1>28, <1>29, <1>30, <2>1, <2>2 DEF Moves
<1> QED BY <1>3, <1>31, ControlCommits

-----------------------------------------------------------------------------
(* The steps that write no table.                                          *)

LEMMA ControlTables ==
  ASSUME ControlInv, UNCHANGED tables
  PROVE  /\ InBalance' /\ InvoicesOk' /\ Exact' /\ Backed' /\ NoneBelowZero'
         /\ Sources' = Sources /\ doc' = doc /\ applications' = applications
<1>1. doc' = doc /\ applications' = applications /\ settled' = settled /\ entries' = entries
  BY DEF tables
<1>2. Sources' = Sources /\ Exact' /\ Backed' /\ NoneBelowZero'
  BY <1>1 DEF ControlInv, Sources, Exact, Backed, NoneBelowZero
<1>3. InBalance'
  BY <1>1 DEF ControlInv, InBalance, Balance
<1>4. InvoicesOk'
  BY <1>1, <1>2 DEF ControlInv, InvoicesOk, InvoiceOk, Returned
<1> QED BY <1>1, <1>2, <1>3, <1>4

LEMMA ControlBegin ==
  ASSUME ControlInv, CreditInv', NEW p \in Procs, NEW r \in todo, NEW app, Begin(p, r, app),
         NEW q, q = Request[r],
         q.kind = "apply" /\ Kind[q.credit] # "note" => q.amount <= doc[q.invoice].left,
         q.kind = "unapply" => /\ app.invoice = q.invoice /\ Kind[q.credit] # "deposit"
                               /\ Kind[q.credit] = "note" => doc[q.invoice].status # "voided",
         q.kind = "send" => doc[q.invoice].status \in {"issued", "sent"}
  PROVE  ControlInv'
<1>1. DOMAIN job = Procs /\ DOMAIN seen = Procs
  BY DEF ControlInv, CreditInv, LedgerInv, JobsOk
<1>2. /\ job'[p].req = r /\ job'[p].app = app /\ seen'[p] = [x \in Touched(q) |-> doc[x]]
      /\ job'[p].stage = IF ReadsInside(q) = {} THEN "entered" ELSE "begun"
      /\ \A o \in Procs \ {p} : job'[o] = job[o] /\ seen'[o] = seen[o]
      /\ UNCHANGED tables
  BY <1>1 DEF Begin, tables
<1>3. /\ InBalance' /\ InvoicesOk' /\ Exact' /\ Backed' /\ NoneBelowZero'
      /\ Sources' = Sources /\ doc' = doc
  BY <1>2, ControlTables
<1>4. Known(p)'
  <2>1. Asks(p)' = q
    BY <1>2 DEF Asks
  <2>2. ReadsInside(q) = {} => Locked(q) = {}
    BY LockedIs
  <2>3. \A x \in Touched(q) : seen'[p][x] = doc[x]
    BY <1>2
  <2>4. /\ q.kind \in {"apply", "unapply", "send"} => q.invoice \in Touched(q)
        /\ q.kind = "void" => q.credit \in Touched(q)
    BY DEF Touched
  <2>5. CASE q.kind \in {"apply", "unapply", "send"}
    BY <1>2, <1>3, <2>1, <2>3, <2>4, <2>5 DEF Known
  <2>6. CASE q.kind = "void"
    <3>1. seen'[p][q.credit] = doc'[q.credit]
      BY <1>3, <2>3, <2>4, <2>6
    <3> QED BY <2>1, <2>6, <3>1 DEF Known
  <2>7. CASE q.kind \notin {"apply", "unapply", "send", "void"}
    <3>1. job'[p].stage = "entered" => Locked(q) = {}
      BY <1>2, <2>2
    <3> QED BY <2>1, <2>7, <3>1 DEF Known
  <2> QED BY <2>5, <2>6, <2>7
<1>5. ASSUME NEW o \in Procs \ {p}, job'[o] # Idle PROVE Known(o)'
  <2>1. Known(o) /\ job'[o] = job[o] /\ seen'[o] = seen[o]
    BY <1>2, <1>5 DEF ControlInv
  <2>2. Asks(o)' = Asks(o)
    BY <2>1 DEF Asks
  <2> QED BY <1>3, <2>1, <2>2 DEF Known
<1> QED BY <1>3, <1>4, <1>5 DEF ControlInv

LEMMA ControlBegins ==
  ASSUME ControlInv, CreditInv', NEW p \in Procs, BeginAny(p)
  PROVE  ControlInv'
<1>1. PICK r \in todo :
        \/ BeginPost(p, r) \/ BeginApply(p, r) \/ BeginUnapply(p, r) \/ BeginVoid(p, r)
        \/ BeginPay(p, r) \/ BeginVoidInvoice(p, r) \/ BeginSend(p, r)
  BY DEF BeginAny
<1>2. PICK q : q = Request[r]
  OBVIOUS
<1>3. CASE BeginPost(p, r) \/ BeginVoid(p, r) \/ BeginPay(p, r) \/ BeginVoidInvoice(p, r)
  <2>1. Begin(p, r, None) /\ q.kind \in {"post", "void", "pay", "voidInvoice"}
    BY <1>2, <1>3 DEF BeginPost, BeginVoid, BeginPay, BeginVoidInvoice
  <2> QED BY <1>2, <2>1, ControlBegin
<1>4. CASE BeginApply(p, r)
  <2>1. /\ Begin(p, r, None) /\ q.kind = "apply"
        /\ Kind[q.credit] # "note" => q.amount <= doc[q.invoice].left
    BY <1>2, <1>4 DEF BeginApply
  <2> QED BY <1>2, <2>1, ControlBegin
<1>5. CASE BeginUnapply(p, r)
  <2>1. /\ q.kind = "unapply" /\ Kind[q.credit] # "deposit"
        /\ \E k \in DOMAIN applications :
             /\ k.invoice = q.invoice /\ Begin(p, r, k)
             /\ Kind[q.credit] = "note" => "voided" \notin {doc[q.credit].status, doc[q.invoice].status}
    BY <1>2, <1>5 DEF BeginUnapply
  <2>2. PICK k \in DOMAIN applications :
             /\ k.invoice = q.invoice /\ Begin(p, r, k)
             /\ Kind[q.credit] = "note" => "voided" \notin {doc[q.credit].status, doc[q.invoice].status}
    BY <2>1
  <2> QED BY <1>2, <2>1, <2>2, ControlBegin
<1>6. CASE BeginSend(p, r)
  <2>1. Begin(p, r, None) /\ q.kind = "send" /\ doc[q.invoice].status \in {"issued", "sent"}
    BY <1>2, <1>6 DEF BeginSend
  <2> QED BY <1>2, <2>1, ControlBegin
<1> QED BY <1>1, <1>3, <1>4, <1>5, <1>6

LEMMA ControlEnter ==
  ASSUME ReceivablesAssumption, ControlInv, CreditInv', NEW p \in Procs, Enter(p)
  PROVE  ControlInv'
<1>0. PICK q : q = Asks(p)
  OBVIOUS
<1>1. UNCHANGED tables /\ job[p] # Idle /\ Known(p) /\ LedgerInv
  BY DEF Enter, Idle, ControlInv, CreditInv
<1>2. /\ DOMAIN job = Procs /\ DOMAIN seen = Procs /\ DOMAIN job[p] = {"req", "stage", "app"}
      /\ job[p].req \in DOMAIN Request /\ Named(q) \subseteq DOMAIN seen[p]
  BY <1>0, <1>1 DEF LedgerInv, JobsOk, JobOk
<1>3. /\ job'[p].req = job[p].req /\ job'[p].app = job[p].app
      /\ \A x \in Touched(q) :
           seen'[p][x] = IF x \in ReadsInside(q) \/ x \notin DOMAIN seen[p] THEN doc[x] ELSE seen[p][x]
      /\ \A o \in Procs \ {p} : job'[o] = job[o] /\ seen'[o] = seen[o]
  <2>1. job' = [job EXCEPT ![p].stage = "entered"]
    BY DEF Enter
  <2>2. seen' = [seen EXCEPT ![p] = [x \in Touched(q) |->
                   IF x \in ReadsInside(q) \/ x \notin DOMAIN seen[p] THEN doc[x] ELSE seen[p][x]]]
    BY <1>0 DEF Enter, Asks
  <2> QED BY <1>2, <2>1, <2>2
<1>4. Named(q) \subseteq Touched(q) /\ Asks(p)' = q
  <2>1. Asks(p)' = q
    BY <1>0, <1>3 DEF Asks
  <2>2. Named(q) \subseteq Touched(q)
    BY <1>0, <1>1, <1>2, NamedIs DEF LedgerInv, Asks
  <2> QED BY <2>1, <2>2
<1>5. /\ InBalance' /\ InvoicesOk' /\ Exact' /\ Backed' /\ NoneBelowZero'
      /\ Sources' = Sources /\ doc' = doc
  BY <1>1, ControlTables
<1>6. Known(p)'
  <2>1. CASE q.kind \in {"apply", "unapply", "send"}
    <3>1. q.invoice \in Touched(q)
      BY <2>1 DEF Touched
    <3>2. seen[p][q.invoice] = doc[q.invoice]
      BY <1>0, <1>1, <2>1 DEF Known
    <3>3. seen'[p][q.invoice] = doc[q.invoice]
      BY <1>3, <3>1, <3>2
    <3>4. job'[p].app = job[p].app
      BY <1>3
    <3> QED BY <1>0, <1>1, <1>4, <1>5, <2>1, <3>3, <3>4 DEF Known
  <2>2. CASE q.kind = "void"
    <3>1. ReadsInside(q) = {} /\ q.credit \in Named(q)
      BY <2>2 DEF ReadsInside, Locks, Named
    <3>2. seen'[p][q.credit] = seen[p][q.credit]
      BY <1>2, <1>3, <1>4, <3>1
    <3> QED BY <1>0, <1>1, <1>4, <1>5, <2>2, <3>2 DEF Known
  <2>3. CASE q.kind \notin {"apply", "unapply", "send", "void"}
    <3>1. ASSUME NEW i \in Locked(q) PROVE seen'[p][i] = doc[i]
      <4>1. i \in ReadsInside(q)
        <5>1. Locks(q) = Locked(q)
          BY LockedIs
        <5>2. Locks(q) \subseteq ReadsInside(q)
          BY DEF ReadsInside, Locks, Touched
        <5> QED BY <5>1, <5>2
      <4>2. i \in Touched(q)
        <5>1. Locked(q) \subseteq Named(q)
          BY <2>3 DEF Locked, Named
        <5> QED BY <1>4, <5>1
      <4> QED BY <1>3, <4>1, <4>2
    <3> QED BY <1>4, <1>5, <2>3, <3>1 DEF Known
  <2> QED BY <2>1, <2>2, <2>3
<1>7. ASSUME NEW o \in Procs \ {p}, job'[o] # Idle PROVE Known(o)'
  <2>1. Known(o) /\ job'[o] = job[o] /\ seen'[o] = seen[o]
    BY <1>3, <1>7 DEF ControlInv
  <2>2. Asks(o)' = Asks(o)
    BY <2>1 DEF Asks
  <2> QED BY <1>5, <2>1, <2>2 DEF Known
<1> QED BY <1>5, <1>6, <1>7 DEF ControlInv

LEMMA ControlRefuse ==
  ASSUME ReceivablesAssumption, InvoicesApart, ControlInv, CreditInv', NEW p \in Procs,
         Refuse(p) \/ Crash(p)
  PROVE  ControlInv'
<1>1. End(p) /\ job[p] # Idle /\ UNCHANGED tables
  BY DEF Refuse, Crash, tables, Idle
<1>2. Moves(p)
  <2>1. \A c \in Credits : doc[c].status = "open" /\ doc'[c].status = "voided" => FALSE
    BY <1>1 DEF tables
  <2> QED BY <1>1, <2>1, ControlTables DEF Moves
<1> QED BY <1>1, <1>2, ControlCommits

LEMMA ControlStutters ==
  ASSUME ControlInv, CreditInv', UNCHANGED vars
  PROVE  ControlInv'
<1>1. UNCHANGED <<tables, seen, job>>
  BY DEF vars, tables
<1>2. /\ InBalance' /\ InvoicesOk' /\ Exact' /\ Backed' /\ NoneBelowZero'
      /\ Sources' = Sources /\ doc' = doc
  BY <1>1, ControlTables
<1>3. ASSUME NEW p \in Procs, job'[p] # Idle PROVE Known(p)'
  <2>1. Known(p) /\ Asks(p)' = Asks(p)
    BY <1>1, <1>3 DEF ControlInv, Asks
  <2> QED BY <1>1, <1>2, <2>1 DEF Known
<1> QED BY <1>2, <1>3 DEF ControlInv

-----------------------------------------------------------------------------
(* The first state: the invoices are posted, the credits are not.          *)

LEMMA ControlInit ==
  ASSUME ReceivablesAssumption, Init
  PROVE  ControlInv
<1>1. CreditInv
  BY CreditInit
<1>2. /\ Invoices \in SUBSET Docs /\ IsFiniteSet(Docs) /\ IsFiniteSet(Invoices)
      /\ \A x \in Docs : Amount[x] \in Nat
  <2>1. Invoices \in SUBSET Docs /\ IsFiniteSet(Docs) /\ \A x \in Docs : Amount[x] \in Nat
    BY DEF ReceivablesAssumption, Docs
  <2>2. IsFiniteSet(Invoices)
    BY <2>1, FS_Subset
  <2> QED BY <2>1, <2>2
<1>3. ASSUME NEW x \in Docs
      PROVE  /\ doc[x].status = (IF x \in Invoices THEN "issued" ELSE IF x \in Created THEN "none" ELSE "draft")
             /\ doc[x].left = Amount[x]
             /\ x \in Invoices => doc[x].entry = <<"post", x>>
  BY DEF Init
<1>4. PICK S : S = {<<"post", i>> : i \in Invoices}
  OBVIOUS
<1>5. Sources = S /\ \A i \in Invoices : entries[<<"post", i>>] = Entry(0, Amount[i], 0, -Amount[i])
  <2>1. entries = [s \in S |-> Entry(0, Amount[s[2]], 0, -Amount[s[2]])]
    BY <1>4 DEF Init
  <2>2. \A i \in Invoices : <<"post", i>> \in S /\ <<"post", i>>[2] = i
    BY <1>4
  <2> QED BY <2>1, <2>2 DEF Sources
<1>6. PICK b : b = [i \in Invoices |-> <<"post", i>>]
  OBVIOUS
<1>7. b \in Bijection(Invoices, S)
  BY <1>4, <1>6 DEF Bijection, Injection, Surjection, IsInjective
<1>8. IsFiniteSet(S)
  BY <1>2, <1>7, FS_Surjection DEF Bijection
<1>9. Balance("ar") = SumFunctionOnSet(Amount, Invoices) /\ IntOn(Amount, Invoices)
  <2>1. PICK g : g = [s \in DOMAIN entries |-> entries[s]["ar"]]
    OBVIOUS
  <2>2. Balance("ar") = SumFunctionOnSet(g, S)
    BY <1>5, <2>1 DEF Balance, SumFunction, Sources
  <2>3. ASSUME NEW i \in Invoices PROVE g[b[i]] = Amount[i]
    <3>1. PICK s : s = <<"post", i>>
      OBVIOUS
    <3>2. s \in DOMAIN entries /\ entries[s] = Entry(0, Amount[i], 0, -Amount[i]) /\ b[i] = s
      BY <1>4, <1>5, <1>6, <3>1 DEF Sources
    <3>3. g[s] = entries[s]["ar"]
      BY <2>1, <3>2
    <3> QED BY <3>2, <3>3 DEF Entry
  <2>4. IntOn(Amount, Invoices)
    BY <1>2 DEF IntOn
  <2>5. SumFunctionOnSet(g, S) = SumFunctionOnSet(Amount, Invoices)
    BY <1>2, <1>7, <2>3, <2>4, SumRenamed
  <2> QED BY <2>2, <2>4, <2>5
<1>10. Balance("deposits") = 0
  <2>1. PICK g : g = [s \in DOMAIN entries |-> entries[s]["deposits"]]
    OBVIOUS
  <2>2. Balance("deposits") = SumFunctionOnSet(g, S)
    BY <1>5, <2>1 DEF Balance, SumFunction, Sources
  <2>3. ASSUME NEW s \in S PROVE g[s] = 0
    <3>1. PICK i \in Invoices : s = <<"post", i>>
      BY <1>4
    <3>2. s \in DOMAIN entries /\ entries[s] = Entry(0, Amount[i], 0, -Amount[i])
      BY <1>5, <3>1 DEF Sources
    <3>3. g[s] = entries[s]["deposits"]
      BY <2>1, <3>2
    <3> QED BY <3>2, <3>3 DEF Entry
  <2> QED BY <1>8, <2>2, <2>3, SumZero
<1>11. CarriedBy("ar", doc) = SumFunctionOnSet(Amount, Invoices)
  <2>1. \A x \in Docs : CarriedIn("ar", doc)[x] = IF x \in Invoices THEN Amount[x] ELSE 0
    BY <1>3 DEF CarriedIn, Carried, OffBooks
  <2>2. PICK h : h = CarriedIn("ar", doc)
    OBVIOUS
  <2>3. SumFunctionOnSet(h, Docs) = SumFunctionOnSet(Amount, Invoices)
    <3>1. \A x \in Docs : h[x] = IF x \in Invoices THEN Amount[x] ELSE 0
      BY <2>1, <2>2
    <3>2. IntOn(Amount, Invoices)
      BY <1>9
    <3> QED BY <1>2, <3>1, <3>2, SumOfPart, Zenon
  <2> QED BY <2>2, <2>3 DEF CarriedBy
<1>12. CarriedBy("deposits", doc) = 0
  <2>1. \A x \in Credits : x \notin Invoices
    BY DEF ReceivablesAssumption
  <2>2. \A x \in Docs : CarriedIn("deposits", doc)[x] = 0
    BY <1>3, <2>1 DEF CarriedIn, Carried, OffBooks
  <2> QED BY <1>2, <2>2, SumZero DEF CarriedBy
<1>13. InBalance
  BY <1>9, <1>10, <1>11, <1>12 DEF InBalance, Controls
<1>14. DOMAIN applications = {} /\ settled = {} /\ \A p \in Procs : job[p] = Idle
  BY DEF Init
<1>15. InvoicesOk
  <2>1. ASSUME NEW i \in Invoices PROVE InvoiceOk(i)
    <3>1. OnInvoice(applications, i) = {}
      BY <1>14 DEF OnInvoice
    <3>2. PaidOf(applications, i) = 0
      BY <3>1, SumEmpty DEF PaidOf
    <3>3. doc[i].status = "issued" /\ doc[i].left = Amount[i] /\ doc[i].entry = <<"post", i>> /\ Amount[i] \in Nat
      BY <1>2, <1>3
    <3> QED BY <3>2, <3>3 DEF InvoiceOk
  <2> QED BY <2>1 DEF InvoicesOk
<1>16. Exact
  <2>1. \A x \in Docs : <<"post", x>> \in S => x \in Invoices
    BY <1>4
  <2> QED BY <1>5, <2>1 DEF Exact, Posting
<1>17. Backed
  <2>1. ASSUME NEW c \in Credits PROVE doc[c].status \notin OnBooks
    <3>1. c \in Docs /\ c \notin Invoices
      BY DEF ReceivablesAssumption, Docs
    <3> QED BY <1>3, <3>1 DEF OnBooks
  <2> QED BY <2>1 DEF Backed
<1> QED BY <1>1, <1>13, <1>14, <1>15, <1>16, <1>17 DEF ControlInv, NoneBelowZero

LEMMA ControlStep ==
  ASSUME ReceivablesAssumption, FewLines, CreditsApart, InvoicesApart, ControlInv,
         [Next]_vars, [Heeded]_vars
  PROVE  ControlInv'
<1>1. CreditInv' /\ LedgerInv'
  <2>1. CreditInv'
    BY CreditStep DEF ControlInv
  <2> QED BY <2>1 DEF CreditInv
<1>2. CASE UNCHANGED vars
  BY <1>1, <1>2, ControlStutters
<1>3. ASSUME Heeded, NEW p \in Procs, BeginAny(p) \/ Enter(p) \/ Commit(p) \/ Refuse(p) \/ Crash(p)
      PROVE  ControlInv'
  <2>1. PaysWhatIsOwed(p) /\ VoidsWhatIsFree(p) /\ VoidsWhatWasPosted(p)
    BY <1>3 DEF Heeded
  <2>2. CASE BeginAny(p)
    BY <1>1, <2>2, ControlBegins
  <2>3. CASE Enter(p)
    BY <1>1, <2>3, ControlEnter
  <2>4. CASE Refuse(p) \/ Crash(p)
    BY <1>1, <2>4, ControlRefuse
  <2>5. CASE Commit(p)
    BY <1>1, <2>1, <2>5, ControlPost, ControlApplyCredit, ControlApplyNote, ControlUnapply,
       ControlVoidCredit, ControlPay, ControlVoidInvoice, ControlSend DEF Commit
  <2> QED BY <1>3, <2>2, <2>3, <2>4, <2>5
<1> QED BY <1>2, <1>3 DEF Next

-----------------------------------------------------------------------------
(* What the accounts say of the documents.                                 *)

LeftIn(S) == [x \in Docs |-> IF x \in S /\ doc[x].status \notin OffBooks THEN doc[x].left ELSE 0]

LEMMA LeftIs ==
  ASSUME ReceivablesAssumption, LedgerInv, NEW S \in SUBSET Docs
  PROVE  /\ LeftOf(S) = SumFunctionOnSet(LeftIn(S), Docs) /\ LeftOf(S) \in Int
         /\ IntOn(LeftIn(S), Docs)
         /\ \A x \in Docs :
              LeftIn(S)[x] = IF x \in S /\ doc[x].status \notin OffBooks THEN doc[x].left ELSE 0
<1>1. PICK V : V = {x \in S : doc[x].status \notin OffBooks}
  OBVIOUS
<1>2. PICK f : f = [x \in V |-> doc[x].left]
  OBVIOUS
<1>3. LeftOf(S) = SumFunction(f)
  <2>1. V = {d \in S : doc[d].status \notin {"none", "draft", "voided"}}
    BY <1>1 DEF OffBooks
  <2> QED BY <1>2, <2>1 DEF LeftOf
<1>4. V \in SUBSET Docs /\ IsFiniteSet(Docs) /\ IsFiniteSet(V)
  <2>1. V \in SUBSET Docs /\ IsFiniteSet(Docs)
    BY <1>1 DEF ReceivablesAssumption
  <2> QED BY <2>1, FS_Subset
<1>5. IntOn(f, V) /\ DOMAIN f = V
  BY <1>2, <1>4 DEF IntOn, LedgerInv, DocsOk, Written
<1>6. SumFunction(f) = SumFunctionOnSet(f, V)
  BY <1>5, SumFunctionIs
<1>7. \A x \in Docs : LeftIn(S)[x] = IF x \in S /\ doc[x].status \notin OffBooks THEN doc[x].left ELSE 0
  BY DEF LeftIn
<1>8. \A x \in Docs : LeftIn(S)[x] = IF x \in V THEN f[x] ELSE 0
  BY <1>1, <1>2, <1>7
<1>9. SumFunctionOnSet(LeftIn(S), Docs) = SumFunctionOnSet(f, V) /\ IntOn(LeftIn(S), Docs)
  <2>1. PICK g : g = LeftIn(S)
    OBVIOUS
  <2>2. SumFunctionOnSet(g, Docs) = SumFunctionOnSet(f, V) /\ IntOn(g, Docs)
    BY <1>4, <1>5, <1>8, <2>1, SumOfPart
  <2> QED BY <2>1, <2>2
<1>10. SumFunctionOnSet(f, V) \in Int
  BY <1>4, <1>5, SumInt
<1> QED BY <1>3, <1>6, <1>7, <1>9, <1>10

LEMMA ControlMeans ==
  ASSUME ReceivablesAssumption, ControlInv
  PROVE  ControlsAgree
<1>1. LedgerInv /\ IsFiniteSet(Docs)
  BY DEF ControlInv, CreditInv, ReceivablesAssumption
<1>2. PICK N : N = Of("note")
  OBVIOUS
<1>3. PICK R : R = Of("receipt")
  OBVIOUS
<1>4. PICK D : D = Of("deposit")
  OBVIOUS
<1>5. N \in SUBSET Docs /\ R \in SUBSET Docs /\ D \in SUBSET Docs /\ Invoices \in SUBSET Docs
  BY <1>2, <1>3, <1>4 DEF Of, Docs
<1>6. ASSUME NEW x \in Docs
      PROVE  \/ x \in Invoices /\ x \notin N /\ x \notin R /\ x \notin D /\ x \notin Credits
             \/ x \notin Invoices /\ x \in N /\ x \notin R /\ x \notin D /\ x \in Credits /\ Kind[x] = "note"
             \/ x \notin Invoices /\ x \notin N /\ x \in R /\ x \notin D /\ x \in Credits /\ Kind[x] = "receipt"
             \/ x \notin Invoices /\ x \notin N /\ x \notin R /\ x \in D /\ x \in Credits /\ Kind[x] = "deposit"
  BY <1>2, <1>3, <1>4 DEF Of, Docs, ReceivablesAssumption
<1>7. \A account \in Controls : Balance(account) = SumFunctionOnSet(CarriedIn(account, doc), Docs)
  BY DEF ControlInv, InBalance, CarriedBy
<1> DEFINE li == LeftIn(Invoices)
           ln == LeftIn(N)
           lr == LeftIn(R)
           ld == LeftIn(D)
           credits == [x \in Docs |-> ln[x] + lr[x]]
           less == [x \in Docs |-> -credits[x]]
<1>8. /\ IntOn(li, Docs) /\ IntOn(ln, Docs) /\ IntOn(lr, Docs) /\ IntOn(ld, Docs)
      /\ LeftOf(Invoices) = SumFunctionOnSet(li, Docs) /\ LeftOf(N) = SumFunctionOnSet(ln, Docs)
      /\ LeftOf(R) = SumFunctionOnSet(lr, Docs) /\ LeftOf(D) = SumFunctionOnSet(ld, Docs)
  BY <1>1, <1>5, LeftIs
<1>9. ASSUME NEW x \in Docs
      PROVE  /\ li[x] = IF x \in Invoices /\ doc[x].status \notin OffBooks THEN doc[x].left ELSE 0
             /\ ln[x] = IF x \in N /\ doc[x].status \notin OffBooks THEN doc[x].left ELSE 0
             /\ lr[x] = IF x \in R /\ doc[x].status \notin OffBooks THEN doc[x].left ELSE 0
             /\ ld[x] = IF x \in D /\ doc[x].status \notin OffBooks THEN doc[x].left ELSE 0
             /\ doc[x].left \in Int
  BY <1>1, <1>5, LeftIs DEF LedgerInv, DocsOk, Written
<1>10. \A x \in Docs : credits[x] = ln[x] + lr[x] /\ less[x] = -credits[x]
  OBVIOUS
<1> HIDE DEF li, ln, lr, ld, credits, less
<1>11. SumFunctionOnSet(credits, Docs) = SumFunctionOnSet(ln, Docs) + SumFunctionOnSet(lr, Docs)
  BY <1>1, <1>8, <1>10, SumPlus
<1>12. SumFunctionOnSet(less, Docs) = -SumFunctionOnSet(credits, Docs) /\ IntOn(less, Docs)
  <2>1. IntOn(credits, Docs)
    BY <1>8, <1>10 DEF IntOn
  <2> QED BY <1>1, <1>10, <2>1, SumNegated
<1>13. Balance("ar") = SumFunctionOnSet(li, Docs) + SumFunctionOnSet(less, Docs)
  <2>1. PICK h : h = CarriedIn("ar", doc)
    OBVIOUS
  <2>2. ASSUME NEW x \in Docs PROVE h[x] = li[x] + less[x]
    <3>1. h[x] = Carried("ar", x, doc[x])
      BY <2>1 DEF CarriedIn
    <3>2. less[x] = -(ln[x] + lr[x])
      BY <1>10
    <3> QED BY <1>6, <1>9, <3>1, <3>2 DEF Carried
  <2>3. SumFunctionOnSet(h, Docs) = SumFunctionOnSet(li, Docs) + SumFunctionOnSet(less, Docs)
    BY <1>1, <1>8, <1>12, <2>2, SumPlus
  <2> QED BY <1>7, <2>1, <2>3 DEF Controls
<1>14. Balance("deposits") = -SumFunctionOnSet(ld, Docs)
  <2>1. PICK h : h = CarriedIn("deposits", doc)
    OBVIOUS
  <2>2. ASSUME NEW x \in Docs PROVE h[x] = -ld[x]
    <3>1. h[x] = Carried("deposits", x, doc[x])
      BY <2>1 DEF CarriedIn
    <3> QED BY <1>6, <1>9, <3>1 DEF Carried
  <2>3. SumFunctionOnSet(h, Docs) = -SumFunctionOnSet(ld, Docs)
    BY <1>1, <1>8, <2>2, SumNegated
  <2> QED BY <1>7, <2>1, <2>3 DEF Controls
<1>15. /\ SumFunctionOnSet(li, Docs) \in Int /\ SumFunctionOnSet(ln, Docs) \in Int
       /\ SumFunctionOnSet(lr, Docs) \in Int
  BY <1>1, <1>8, SumInt
<1>16. Balance("ar") = LeftOf(Invoices) - LeftOf(N) - LeftOf(R)
  BY <1>8, <1>11, <1>12, <1>13, <1>15
<1>17. Balance("deposits") = -LeftOf(D)
  BY <1>8, <1>14
<1> QED BY <1>2, <1>3, <1>4, <1>16, <1>17 DEF ControlsAgree, ReceivableAgrees, DepositsAgree

(* Accounts receivable and the customers' deposits in the ledger are what  *)
(* the open documents say, after any posting, application, payment and     *)
(* void, as long as a payment is received for what is owed, an invoice is  *)
(* voided when no deposit or receipt is applied to it, and no deposit that *)
(* a payment made is voided.                                               *)
THEOREM ControlsStayInAgreement ==
  FewLines /\ CreditsApart /\ InvoicesApart => (Spec /\ [][Heeded]_vars => []ControlsAgree)
<1> SUFFICES ASSUME FewLines, CreditsApart, InvoicesApart
             PROVE  Spec /\ [][Heeded]_vars => []ControlsAgree
  OBVIOUS
<1>1. Init => ControlInv
  BY ReceivablesAssumption, ControlInit
<1>2. ControlInv /\ [Next]_vars /\ [Heeded]_vars => ControlInv'
  BY ReceivablesAssumption, ControlStep
<1>3. ControlInv => ControlsAgree
  BY ReceivablesAssumption, ControlMeans
<1> QED BY <1>1, <1>2, <1>3, PTL DEF Spec

=============================================================================
