---------------------------- MODULE LedgerProofs ----------------------------
(***************************************************************************)
(* What is proved of the sums of money of Payments: the customer is never  *)
(* charged more than the invoice, and what is left of it can be paid.      *)
(***************************************************************************)
EXTENDS PaymentsProofs, Integers, FiniteSetsExt, FiniteSetTheorems, WellFoundedInduction, TLAPS

-----------------------------------------------------------------------------
(* Sums over finite sets.  MapThenSumSet of the community modules takes    *)
(* the elements of a set in an order of its own choice, by a recursive     *)
(* function; here is what a proof needs of it: that the sum is that        *)
(* of any one element and the rest, whichever is taken first.              *)

First(s) == CHOOSE x \in s : TRUE

\* it holds the sums of f over the subsets of S.
Sums(it, f, S) ==
    it = [s \in SUBSET S |-> IF s = {} THEN 0 ELSE f[First(s)] + it[s \ {First(s)}]]

SumOver(f, S) == (CHOOSE it : Sums(it, f, S))[S]

\* Among subsets of a finite set one has no other inside it: what is false of some subset
\* is false of a smallest one.
LEMMA SmallestSubset ==
    ASSUME NEW S, IsFiniteSet(S), NEW T, T \subseteq SUBSET S, T # {}
    PROVE  \E s \in T : \A t \in T : ~(t \subseteq s /\ t # s)
  <1>1. IsWellFoundedOn(StrictSubsetOrdering(S), SUBSET S)
    BY FS_StrictSubsetOrderingWellFounded, FS_FiniteSubsetsOfFinite
  <1>2. \E s \in T : \A t \in T : ~(<<t, s>> \in StrictSubsetOrdering(S))
    BY <1>1, WFMin
  <1> QED  BY <1>2 DEF StrictSubsetOrdering

\* The element that is taken first.
LEMMA FirstIsIn ==
    ASSUME NEW s, s # {}
    PROVE  First(s) \in s /\ s \ {First(s)} \subseteq s /\ s \ {First(s)} # s
  <1>1. First(s) \in s
    BY DEF First
  <1> QED  BY <1>1

\* What such a function is at a set.
LEMMA SumsAt ==
    ASSUME NEW S, NEW f, NEW it, Sums(it, f, S), NEW s \in SUBSET S
    PROVE  it[s] = IF s = {} THEN 0 ELSE f[First(s)] + it[s \ {First(s)}]
  BY Zenon DEF Sums

\* Two of them agree where both are defined.
LEMMA SumsAgree ==
    ASSUME NEW A, NEW B, NEW f, NEW it, NEW jt, IsFiniteSet(A), Sums(it, f, A), Sums(jt, f, B),
           NEW s, s \subseteq A, s \subseteq B
    PROVE  it[s] = jt[s]
  <1>a. \A t \in SUBSET A : it[t] = IF t = {} THEN 0 ELSE f[First(t)] + it[t \ {First(t)}]
    BY Zenon DEF Sums
  <1>b. \A t \in SUBSET B : jt[t] = IF t = {} THEN 0 ELSE f[First(t)] + jt[t \ {First(t)}]
    BY Zenon DEF Sums
  <1> DEFINE Bad == {t \in SUBSET A : t \subseteq B /\ it[t] # jt[t]}
  <1> SUFFICES ASSUME Bad # {} PROVE FALSE
    OBVIOUS
  <1>1. PICK t \in Bad : \A u \in Bad : ~(u \subseteq t /\ u # t)
    <2>1. Bad \subseteq SUBSET A
      OBVIOUS
    <2> HIDE DEF Bad
    <2> QED  BY <2>1, SmallestSubset
  <1> DEFINE u == t \ {First(t)}
  <1>2. /\ it[t] = IF t = {} THEN 0 ELSE f[First(t)] + it[u]
        /\ jt[t] = IF t = {} THEN 0 ELSE f[First(t)] + jt[u]
    <2>1. t \in SUBSET A /\ t \in SUBSET B
      OBVIOUS
    <2> HIDE DEF Bad
    <2> QED  BY <1>a, <1>b, <2>1
  <1>3. t # {}
    BY <1>2
  <1>4. u \notin Bad /\ u \subseteq A /\ u \subseteq B
    BY <1>1, <1>3, FirstIsIn
  <1>5. it[u] = jt[u]
    BY <1>4
  <1> QED  BY <1>2, <1>3, <1>5

\* There is one for every finite set.
LEMMA SumsExist ==
    ASSUME NEW S, IsFiniteSet(S), NEW f
    PROVE  \E it : Sums(it, f, S)
  <1> DEFINE Bad == {t \in SUBSET S : ~\E it : Sums(it, f, t)}
  <1> SUFFICES ASSUME Bad # {} PROVE FALSE
    OBVIOUS
  <1>1. PICK t \in Bad : \A u \in Bad : ~(u \subseteq t /\ u # t)
    <2>1. Bad \subseteq SUBSET S
      OBVIOUS
    <2> HIDE DEF Bad
    <2> QED  BY <2>1, SmallestSubset
  <1>2. ASSUME NEW u, u \subseteq t, u # t PROVE \E it : Sums(it, f, u)
    BY <1>1, <1>2
  <1> DEFINE xt == [s \in SUBSET t |->
                      IF s = {} THEN 0 ELSE f[First(s)] + SumOver(f, s \ {First(s)})]
  <1>3. ASSUME NEW u, u \subseteq t, u # t PROVE xt[u] = SumOver(f, u)
    <2> DEFINE it == CHOOSE x : Sums(x, f, u)
    <2>1. Sums(it, f, u)
      BY <1>2, <1>3
    <2>2. it[u] = IF u = {} THEN 0 ELSE f[First(u)] + it[u \ {First(u)}]
      BY <2>1, SumsAt
    <2>3. SumOver(f, u) = it[u]
      BY DEF SumOver
    <2>4. ASSUME u # {} PROVE it[u \ {First(u)}] = SumOver(f, u \ {First(u)})
      <3> DEFINE w == u \ {First(u)}
                 jt == CHOOSE x : Sums(x, f, w)
      <3>1. w \subseteq u /\ w # t
        BY <1>3, <2>4, FirstIsIn
      <3>2. Sums(jt, f, w)
        BY <1>2, <1>3, <3>1
      <3>3. IsFiniteSet(u)
        BY <1>3, FS_Subset
      <3> HIDE DEF it, jt
      <3>4. it[w] = jt[w]
        BY <2>1, <3>1, <3>2, <3>3, SumsAgree
      <3> QED  BY <3>4 DEF SumOver, jt
    <2> HIDE DEF it
    <2> QED  BY <1>3, <2>2, <2>3, <2>4
  <1>4. \A s \in SUBSET t : s # {} => xt[s \ {First(s)}] = SumOver(f, s \ {First(s)})
    <2> HIDE DEF xt
    <2> QED  BY <1>3, FirstIsIn
  <1>5. xt = [s \in SUBSET t |-> IF s = {} THEN 0 ELSE f[First(s)] + xt[s \ {First(s)}]]
    <2> DEFINE bt == [s \in SUBSET t |-> IF s = {} THEN 0 ELSE f[First(s)] + xt[s \ {First(s)}]]
    <2>1. ASSUME NEW s \in SUBSET t PROVE xt[s] = bt[s]
      BY <1>4, <2>1, Zenon
    <2> QED  BY <2>1, Zenon
  <1>6. Sums(xt, f, t)
    BY <1>5, Zenon DEF Sums
  <1> QED  BY <1>1, <1>6

\* The sum of nothing is 0, and any other sum that of the first element and the rest.
LEMMA SumByFirst ==
    ASSUME NEW S, IsFiniteSet(S), NEW f
    PROVE  SumOver(f, S) = IF S = {} THEN 0 ELSE f[First(S)] + SumOver(f, S \ {First(S)})
  <1> DEFINE it == CHOOSE x : Sums(x, f, S)
             w == S \ {First(S)}
             jt == CHOOSE x : Sums(x, f, w)
  <1>1. Sums(it, f, S)
    BY SumsExist
  <1>2. IsFiniteSet(w) /\ w \subseteq S
    BY FS_Subset
  <1>3. Sums(jt, f, w)
    BY <1>2, SumsExist
  <1>4. SumOver(f, S) = it[S] /\ SumOver(f, w) = jt[w]
    BY DEF SumOver
  <1> HIDE DEF it, jt
  <1>5. it[w] = jt[w]
    BY <1>1, <1>2, <1>3, SumsAgree
  <1>6. it[S] = IF S = {} THEN 0 ELSE f[First(S)] + it[w]
    BY <1>1, SumsAt
  <1> QED  BY <1>4, <1>5, <1>6

\* A sum of numbers is a number.
LEMMA SumIsNat ==
    ASSUME NEW S, IsFiniteSet(S), NEW f, \A x \in S : f[x] \in Nat
    PROVE  SumOver(f, S) \in Nat
  <1> DEFINE Bad == {t \in SUBSET S : SumOver(f, t) \notin Nat}
  <1> SUFFICES ASSUME Bad # {} PROVE FALSE
    OBVIOUS
  <1>1. PICK t \in Bad : \A u \in Bad : ~(u \subseteq t /\ u # t)
    <2>1. Bad \subseteq SUBSET S
      OBVIOUS
    <2> HIDE DEF Bad
    <2> QED  BY <2>1, SmallestSubset
  <1>2. SumOver(f, t) = IF t = {} THEN 0 ELSE f[First(t)] + SumOver(f, t \ {First(t)})
    BY FS_Subset, SumByFirst
  <1>3. t # {}
    BY <1>2
  <1>4. SumOver(f, t \ {First(t)}) \in Nat /\ First(t) \in S
    BY <1>1, <1>3, FirstIsIn
  <1> QED  BY <1>2, <1>3, <1>4

\* Whichever element is taken out, the sum is that of it and the rest.
LEMMA SumByAny ==
    ASSUME NEW S, IsFiniteSet(S), NEW f, \A x \in S : f[x] \in Nat, NEW x \in S
    PROVE  SumOver(f, S) = f[x] + SumOver(f, S \ {x})
  <1> DEFINE Bad == {t \in SUBSET S : \E y \in t : SumOver(f, t) # f[y] + SumOver(f, t \ {y})}
  <1> SUFFICES ASSUME Bad # {} PROVE FALSE
    OBVIOUS
  <1>1. PICK t \in Bad : \A u \in Bad : ~(u \subseteq t /\ u # t)
    <2>1. Bad \subseteq SUBSET S
      OBVIOUS
    <2> HIDE DEF Bad
    <2> QED  BY <2>1, SmallestSubset
  <1>2. PICK y \in t : SumOver(f, t) # f[y] + SumOver(f, t \ {y})
    OBVIOUS
  <1> DEFINE c == First(t)
             w == (t \ {y}) \ {c}
  <1>3. c \in t /\ c \in S /\ y \in S
    BY FirstIsIn
  <1>4. t \subseteq S /\ \A u : u \subseteq t => IsFiniteSet(u)
    BY FS_Subset
  <1>5. ASSUME NEW u, u \subseteq t, u # t, NEW z \in u
        PROVE  SumOver(f, u) = f[z] + SumOver(f, u \ {z})
    BY <1>1, <1>4, <1>5
  <1> HIDE DEF Bad
  <1>6. SumOver(f, t) = f[c] + SumOver(f, t \ {c})
    BY <1>3, <1>4, SumByFirst
  <1> HIDE DEF c
  <1>7. y # c
    BY <1>2, <1>6
  <1>8. (t \ {c}) \ {y} = w
    OBVIOUS
  <1>9. SumOver(f, t \ {c}) = f[y] + SumOver(f, w)
    <2>1. t \ {c} \subseteq t /\ t \ {c} # t /\ y \in t \ {c}
      BY <1>3, <1>7
    <2> QED  BY <1>5, <1>8, <2>1
  <1>10. SumOver(f, t \ {y}) = f[c] + SumOver(f, w)
    <2>1. t \ {y} \subseteq t /\ t \ {y} # t /\ c \in t \ {y}
      BY <1>3, <1>7
    <2> QED  BY <1>5, <2>1
  <1>11. SumOver(f, w) \in Nat /\ f[c] \in Nat /\ f[y] \in Nat
    <2>1. IsFiniteSet(w) /\ \A z \in w : f[z] \in Nat
      BY <1>4
    <2> QED  BY <1>3, <2>1, SumIsNat
  <1> HIDE DEF w
  <1> QED  BY <1>2, <1>6, <1>9, <1>10, <1>11

\* More elements, a larger sum; and larger terms, too.
LEMMA SumGrows ==
    ASSUME NEW S, IsFiniteSet(S), NEW f, NEW g,
           \A x \in S : f[x] \in Nat /\ g[x] \in Nat,
           NEW T, T \subseteq S, \A x \in T : f[x] <= g[x]
    PROVE  SumOver(f, T) <= SumOver(g, S)
  <1> DEFINE Bad == {t \in SUBSET S : ~(SumOver(f, T \cap t) <= SumOver(g, t))}
  <1> SUFFICES ASSUME Bad # {} PROVE FALSE
    <2>1. T \cap S = T
      OBVIOUS
    <2> QED  BY <2>1
  <1>1. PICK t \in Bad : \A u \in Bad : ~(u \subseteq t /\ u # t)
    <2>1. Bad \subseteq SUBSET S
      OBVIOUS
    <2> HIDE DEF Bad
    <2> QED  BY <2>1, SmallestSubset
  <1>2. t \subseteq S /\ \A u : u \subseteq t => IsFiniteSet(u)
    BY FS_Subset
  <1>3. \A u : u \subseteq t => SumOver(f, u) \in Nat /\ SumOver(g, u) \in Nat
    BY <1>2, SumIsNat
  <1>4. t # {}
    <2>1. SumOver(f, {}) = 0 /\ SumOver(g, {}) = 0
      BY FS_EmptySet, SumByFirst
    <2>2. ASSUME t = {} PROVE FALSE
      <3>1. T \cap t = {}
        BY <2>2
      <3> QED  BY <2>1, <2>2, <3>1
    <2> QED  BY <2>2
  <1>5. PICK x : x \in t
    BY <1>4
  <1> DEFINE u == t \ {x}
  <1>6. SumOver(f, T \cap u) <= SumOver(g, u)
    <2>1. u \subseteq t /\ u # t /\ u \in SUBSET S
      BY <1>2, <1>5
    <2> QED  BY <1>1, <2>1
  <1>7. SumOver(g, t) = g[x] + SumOver(g, u)
    BY <1>2, <1>5, SumByAny
  <1>8. CASE x \in T
    <2>1. SumOver(f, T \cap t) = f[x] + SumOver(f, (T \cap t) \ {x})
      BY <1>2, <1>5, <1>8, SumByAny
    <2>2. (T \cap t) \ {x} = T \cap u
      OBVIOUS
    <2>3. /\ f[x] \in Nat /\ g[x] \in Nat /\ f[x] <= g[x]
          /\ SumOver(f, T \cap u) \in Nat /\ SumOver(g, u) \in Nat
      BY <1>2, <1>3, <1>5, <1>8
    <2>4. SumOver(f, T \cap t) <= SumOver(g, t)
      BY <1>6, <1>7, <2>1, <2>2, <2>3
    <2> QED  BY <2>4
  <1>9. CASE x \notin T
    <2>1. T \cap t = T \cap u
      BY <1>9
    <2>2. g[x] \in Nat /\ SumOver(f, T \cap u) \in Nat /\ SumOver(g, u) \in Nat
      BY <1>2, <1>3, <1>5
    <2>3. SumOver(f, T \cap t) <= SumOver(g, t)
      BY SMTT(40), <1>6, <1>7, <2>1, <2>2
    <2> QED  BY <2>3
  <1> QED  BY <1>8, <1>9

\* Sums of the same terms are the same.
LEMMA SumOfSame ==
    ASSUME NEW S, IsFiniteSet(S), NEW f, NEW g,
           \A x \in S : f[x] \in Nat /\ g[x] = f[x]
    PROVE  SumOver(f, S) = SumOver(g, S)
  <1>1. \A x \in S : f[x] \in Nat /\ g[x] \in Nat /\ f[x] <= g[x] /\ g[x] <= f[x]
    OBVIOUS
  <1>2. SumOver(f, S) <= SumOver(g, S) /\ SumOver(g, S) <= SumOver(f, S)
    BY <1>1, SumGrows
  <1>3. SumOver(f, S) \in Nat /\ SumOver(g, S) \in Nat
    BY <1>1, SumIsNat
  <1> QED  BY <1>2, <1>3

\* An element is added.
LEMMA SumOfAdded ==
    ASSUME NEW S, IsFiniteSet(S), NEW f, NEW x, x \notin S,
           \A y \in S \cup {x} : f[y] \in Nat
    PROVE  SumOver(f, S \cup {x}) = SumOver(f, S) + f[x]
  <1>1. IsFiniteSet(S \cup {x}) /\ (S \cup {x}) \ {x} = S
    BY FS_AddElement
  <1>2. SumOver(f, S \cup {x}) = f[x] + SumOver(f, S)
    BY <1>1, SumByAny
  <1>3. SumOver(f, S) \in Nat /\ f[x] \in Nat
    BY SumIsNat
  <1> QED  BY <1>2, <1>3

\* A sum of zeros is zero.
LEMMA SumOfZeros ==
    ASSUME NEW S, IsFiniteSet(S), NEW f, \A x \in S : f[x] = 0
    PROVE  SumOver(f, S) = 0
  <1> DEFINE Bad == {t \in SUBSET S : SumOver(f, t) # 0}
  <1> SUFFICES ASSUME Bad # {} PROVE FALSE
    OBVIOUS
  <1>1. PICK t \in Bad : \A u \in Bad : ~(u \subseteq t /\ u # t)
    <2>1. Bad \subseteq SUBSET S
      OBVIOUS
    <2> HIDE DEF Bad
    <2> QED  BY <2>1, SmallestSubset
  <1>2. SumOver(f, t) = IF t = {} THEN 0 ELSE f[First(t)] + SumOver(f, t \ {First(t)})
    BY FS_Subset, SumByFirst
  <1>3. t # {}
    BY <1>2
  <1>4. SumOver(f, t \ {First(t)}) = 0 /\ f[First(t)] = 0
    BY <1>1, <1>3, FirstIsIn
  <1> QED  BY <1>2, <1>3, <1>4

\* The sum over two sets that share nothing.
LEMMA SumOfUnion ==
    ASSUME NEW A, NEW B, IsFiniteSet(A), IsFiniteSet(B), A \cap B = {}, NEW f,
           \A x \in A \cup B : f[x] \in Nat
    PROVE  SumOver(f, A \cup B) = SumOver(f, A) + SumOver(f, B)
  <1> DEFINE Bad == {t \in SUBSET B : SumOver(f, A \cup t) # SumOver(f, A) + SumOver(f, t)}
  <1> SUFFICES ASSUME Bad # {} PROVE FALSE
    OBVIOUS
  <1>1. PICK t \in Bad : \A u \in Bad : ~(u \subseteq t /\ u # t)
    <2>1. Bad \subseteq SUBSET B
      OBVIOUS
    <2> HIDE DEF Bad
    <2> QED  BY <2>1, SmallestSubset
  <1>2. t \subseteq B /\ \A u : u \subseteq t => IsFiniteSet(u)
    BY FS_Subset
  <1>3. SumOver(f, A) \in Nat
    BY SumIsNat
  <1>4. t # {}
    <2>1. SumOver(f, {}) = 0
      BY FS_EmptySet, SumByFirst
    <2>2. ASSUME t = {} PROVE FALSE
      <3>1. A \cup t = A
        BY <2>2
      <3> QED  BY <1>3, <2>1, <2>2, <3>1
    <2> QED  BY <2>2
  <1>5. PICK x : x \in t
    BY <1>4
  <1> DEFINE u == t \ {x}
  <1>6. SumOver(f, A \cup u) = SumOver(f, A) + SumOver(f, u)
    <2>1. u \in SUBSET B /\ u \subseteq t /\ u # t
      BY <1>2, <1>5
    <2>2. u \notin Bad
      BY <1>1, <2>1
    <2> HIDE DEF u
    <2> QED  BY <2>1, <2>2
  <1>7. x \notin A \cup u /\ u \cup {x} = t /\ (A \cup u) \cup {x} = A \cup t
    BY <1>2, <1>5
  <1>8. IsFiniteSet(u) /\ IsFiniteSet(A \cup u)
    BY <1>2, FS_Union
  <1>9. \A y \in (A \cup u) \cup {x} : f[y] \in Nat
    BY <1>2, <1>5
  <1>10. SumOver(f, A \cup t) = SumOver(f, A \cup u) + f[x]
    <2> DEFINE v == A \cup u
    <2>1. IsFiniteSet(v) /\ x \notin v /\ v \cup {x} = A \cup t /\ \A y \in v \cup {x} : f[y] \in Nat
      BY <1>7, <1>8, <1>9
    <2> HIDE DEF v
    <2>2. SumOver(f, v \cup {x}) = SumOver(f, v) + f[x]
      BY ZenonT(60), <2>1, SumOfAdded
    <2> QED  BY <2>1, <2>2 DEF v
  <1>11. SumOver(f, t) = SumOver(f, u) + f[x]
    BY SMTT(40), <1>7, <1>8, <1>9, SumOfAdded
  <1>12. SumOver(f, u) \in Nat /\ f[x] \in Nat
    BY <1>8, <1>9, SumIsNat
  <1>13. SumOver(f, A \cup t) # SumOver(f, A) + SumOver(f, t)
    OBVIOUS
  <1> HIDE DEF Bad, u
  <1> QED  BY <1>3, <1>6, <1>10, <1>11, <1>12, <1>13

-----------------------------------------------------------------------------
(* The sums of Payments. *)

Amounts == [p \in Payer |-> call[p].amount]
Owed(ps) == [p \in Payer |-> ps[p].amount]
Gained(ps) == [p \in Payer |-> ps[p].received]

\* The sums of Payments are sums of these functions.
LEMMA AmountSum ==
    ASSUME IsFiniteSet(Payer), NEW S \in SUBSET Payer
    PROVE  MapThenSumSet(LAMBDA p : call[p].amount, S) = SumOver(Amounts, S)
  <1> DEFINE F(it) == it = [s \in SUBSET S |-> IF s = {} THEN 0
                                ELSE call[First(s)].amount + it[s \ {First(s)}]]
             jt == CHOOSE it : F(it)
             kt == CHOOSE it : Sums(it, Amounts, S)
  <1>1. ASSUME NEW it PROVE F(it) <=> Sums(it, Amounts, S)
    <2>1. \A s \in SUBSET S : s # {} => call[First(s)].amount = Amounts[First(s)]
      BY FirstIsIn DEF Amounts
    <2>2. [s \in SUBSET S |-> IF s = {} THEN 0 ELSE call[First(s)].amount + it[s \ {First(s)}]]
            = [s \in SUBSET S |-> IF s = {} THEN 0 ELSE Amounts[First(s)] + it[s \ {First(s)}]]
      BY <2>1
    <2> QED  BY <2>2 DEF Sums
  <1>2. MapThenSumSet(LAMBDA p : call[p].amount, S) = jt[S]
    BY DEF MapThenSumSet, MapThenFoldSet, First
  <1>3. SumOver(Amounts, S) = kt[S]
    BY DEF SumOver
  <1>4. IsFiniteSet(S)
    BY FS_Subset
  <1> HIDE DEF F
  <1>5. Sums(jt, Amounts, S) /\ Sums(kt, Amounts, S)
    BY <1>1, <1>4, SumsExist
  <1> HIDE DEF jt, kt
  <1>6. jt[S] = kt[S]
    BY <1>4, <1>5, SumsAgree
  <1> QED  BY <1>2, <1>3, <1>6

LEMMA ProcessingSum ==
    ASSUME IsFiniteSet(Payer), NEW ps
    PROVE  Processing(ps) = SumOver(Owed(ps), {p \in Payer : ps[p].status = "processing"})
  <1> DEFINE S == {p \in Payer : ps[p].status = "processing"}
             F(it) == it = [s \in SUBSET S |-> IF s = {} THEN 0
                                ELSE ps[First(s)].amount + it[s \ {First(s)}]]
             jt == CHOOSE it : F(it)
             kt == CHOOSE it : Sums(it, Owed(ps), S)
  <1>0. S \subseteq Payer
    OBVIOUS
  <1>2. Processing(ps) = jt[S]
    BY DEF Processing, MapThenSumSet, MapThenFoldSet, First
  <1> HIDE DEF S
  <1>1. ASSUME NEW it PROVE F(it) <=> Sums(it, Owed(ps), S)
    <2>1. \A s \in SUBSET S : s # {} => ps[First(s)].amount = Owed(ps)[First(s)]
      BY <1>0, FirstIsIn DEF Owed
    <2>2. [s \in SUBSET S |-> IF s = {} THEN 0 ELSE ps[First(s)].amount + it[s \ {First(s)}]]
            = [s \in SUBSET S |-> IF s = {} THEN 0 ELSE Owed(ps)[First(s)] + it[s \ {First(s)}]]
      BY <2>1
    <2> QED  BY <2>2 DEF Sums
  <1>3. SumOver(Owed(ps), S) = kt[S]
    BY DEF SumOver
  <1>4. IsFiniteSet(S)
    BY <1>0, FS_Subset
  <1> HIDE DEF F
  <1>5. Sums(jt, Owed(ps), S) /\ Sums(kt, Owed(ps), S)
    BY <1>1, <1>4, SumsExist
  <1> HIDE DEF jt, kt
  <1>6. jt[S] = kt[S]
    BY <1>4, <1>5, SumsAgree
  <1> QED  BY <1>2, <1>3, <1>6 DEF S

LEMMA ReceivedSum ==
    ASSUME IsFiniteSet(Payer), NEW ps, NEW d
    PROVE  Received(ps, d) = SumOver(Gained(ps), {p \in Payer :
               ps[p].status \in {"succeeded", "requires_capture"} /\ ps[p].debit = d})
  <1> DEFINE S == {p \in Payer : ps[p].status \in {"succeeded", "requires_capture"}
                                     /\ ps[p].debit = d}
             F(it) == it = [s \in SUBSET S |-> IF s = {} THEN 0
                                ELSE ps[First(s)].received + it[s \ {First(s)}]]
             jt == CHOOSE it : F(it)
             kt == CHOOSE it : Sums(it, Gained(ps), S)
  <1>0. S \subseteq Payer
    OBVIOUS
  <1>2. Received(ps, d) = jt[S]
    BY DEF Received, MapThenSumSet, MapThenFoldSet, First
  <1> HIDE DEF S
  <1>1. ASSUME NEW it PROVE F(it) <=> Sums(it, Gained(ps), S)
    <2>1. \A s \in SUBSET S : s # {} => ps[First(s)].received = Gained(ps)[First(s)]
      BY <1>0, FirstIsIn DEF Gained
    <2>2. [s \in SUBSET S |-> IF s = {} THEN 0 ELSE ps[First(s)].received + it[s \ {First(s)}]]
            = [s \in SUBSET S |-> IF s = {} THEN 0 ELSE Gained(ps)[First(s)] + it[s \ {First(s)}]]
      BY <2>1
    <2> QED  BY <2>2 DEF Sums
  <1>3. SumOver(Gained(ps), S) = kt[S]
    BY DEF SumOver
  <1>4. IsFiniteSet(S)
    BY <1>0, FS_Subset
  <1> HIDE DEF F
  <1>5. Sums(jt, Gained(ps), S) /\ Sums(kt, Gained(ps), S)
    BY <1>1, <1>4, SumsExist
  <1> HIDE DEF jt, kt
  <1>6. jt[S] = kt[S]
    BY <1>4, <1>5, SumsAgree
  <1> QED  BY <1>2, <1>3, <1>6 DEF S

-----------------------------------------------------------------------------
(* The ledger.                                                             *)

\* The payments that Priority has taken from the open balance.
Approved == {p \in Payer : ReceiptsOf(p) # {}}

\* The intents ps show the payment of p as money that is under way.
Shows(ps, p) == ps[p].status = "processing" /\ ps[p].amount = call[p].amount

\* What was charged is taken from the balance, or under way in the document, or the
\* payer has the lock for it or has left it locked.
Pending ==
    \A p \in Charged \ Approved : at[p] \in Moved \cup {"kept", "dead"} \/ Shows(pis, p)

Balanced ==
    /\ open = Total - SumOver(Amounts, Approved)
    /\ SumOver(Amounts, Charged) <= Total

\* What a payer that is about to charge may rely on: its snapshot shows what is under
\* way, there is room for its amount, the open balance is the one that it has seen.
Relies(p) ==
    /\ at[p] = "check" /\ call[p].kind = "debit" =>
          \A q \in Charged \ Approved : Shows(call[p].snap, q)
    /\ at[p] \in {"charge", "capture"} => SumOver(Amounts, Charged \cup {p}) <= Total
    /\ at[p] \in {"fees", "receipt", "authorize", "persist"} => call[p].seen = open

\* The document has the amount that was asked for.
AmountRecorded(p) == pis[p].status # "none" => pis[p].amount = call[p].amount

Ledger ==
    /\ Balanced /\ Pending
    /\ \A p \in Payer : Relies(p) /\ AmountRecorded(p)

\* What else holds of a state, by the other proofs.
Known == TypeOK /\ LockOwned /\ IntentInv /\ \A p \in Payer : MoneyStage(p)

\* A payment that is taken from the balance was charged, and its card has one receipt.
LEMMA ApprovedWasCharged ==
    ASSUME Known
    PROVE  /\ Approved \subseteq Charged
           /\ \A p \in Payer : call[p].kind = "card" /\ receipt[p] # "approved" => p \notin Approved
  <1>1. ASSUME NEW p \in Payer, NEW h \in Hook, h[1] = p, receipt[h] = "approved"
        PROVE  stripe[p] = "succeeded" /\ call[p].kind = "debit"
    BY <1>1 DEF Known, IntentInv, HookFlow, TaggedIsBooked, HookMoved
  <1>2. ASSUME NEW p \in Payer, receipt[p] = "approved" PROVE stripe[p] = "succeeded"
    <2>1. CardStage(p) /\ Flow(p) /\ at[p] \in Place
      BY <1>2, PayerIsActor, CallFields DEF Known, IntentInv, MoneyStage, Flow, TypeOK
    <2>2. \/ at[p] \in Early \cup {"persist", "capture", "cancel", "record_cancel",
                            "cleanup", "lost"}
          \/ at[p] \in Moved
          \/ at[p] \in {"unlock", "returned", "kept", "stuck", "dead"}
      BY <2>1 DEF Flow, Place, Holding, Undoing, Early, Ended
    <2> QED  BY <1>2, <2>1, <2>2 DEF CardStage, NotTaken, Booked
  <1>3. \A p \in Payer : \A a \in ReceiptsOf(p) :
            receipt[a] = "approved" /\ (a = p \/ (a \in Hook /\ a[1] = p))
    BY DEF ReceiptsOf, Hook
  <1> QED  BY <1>1, <1>2, <1>3 DEF Approved, Charged

-----------------------------------------------------------------------------
(* What a step does to the sums.                                           *)

Quiet == open' = open /\ Approved' = Approved /\ Charged' \subseteq Charged

Charges(p) ==
    /\ at[p] \in {"charge", "capture"} /\ p \notin Charged /\ Charged' = Charged \cup {p}
    /\ open' = open /\ Approved' = Approved

Approves(p) ==
    /\ p \in Charged \ Approved /\ Approved' = Approved \cup {p} /\ Charged' = Charged
    /\ open' = Settled(call[p].amount)

\* The amount of what was charged never changes.
AmountsStay == \A q \in Payer :
    q \in Charged \/ at[q] \in {"charge", "capture"} => call'[q] = call[q]

\* A payer's own step.
PayerPays(p) ==
    /\ \/ open' = open /\ (receipt'[p] = "approved" <=> receipt[p] = "approved")
       \/ /\ at[p] = "approve" /\ receipt[p] # "approved" /\ receipt'[p] = "approved"
          /\ open' = Settled(call[p].amount)
    /\ p \in Charged => p \in Charged'
    /\ p \in Charged' => p \in Charged \/ at[p] \in {"charge", "capture"}
    /\ call'[p] = call[p] \/ at[p] \in {"idle", "check"}

LEMMA PayerPaysOnce ==
    ASSUME TypeOK, NEW p \in Payer, Flow(p), MoneyStage(p), Read(p) \/ PayerWorks(p)
    PROVE  PayerPays(p)
  <1> USE DEF docVars, priorityVars, stripeVars, Goes, PayerPays, Charged
  <1>p. /\ p \in Actor /\ call[p] \in Call
        /\ at[p] \in {"receipt", "approve", "cleanup"} =>
              call[p].kind = "card" /\ receipt[p] # "approved"
        /\ at[p] \in {"authorize", "charge", "idle", "check"} => stripe[p] = "none"
        /\ at[p] = "cancel" => stripe[p] # "succeeded"
    BY DEF Actor, TypeOK, Flow, CardPlace, MoneyStage, CardStage, NotTaken, Moved, Early, Untouched
  <1>1. CASE Read(p)
    BY <1>1, <1>p DEF Read, TypeOK
  <1>2. CASE Lock(p)
    BY <1>2, <1>p DEF Lock, TypeOK
  <1>3. CASE Check(p)
    BY <1>3, <1>p DEF Check, TypeOK
  <1>4. CASE Unlock(p)
    BY <1>4, <1>p DEF Unlock, TypeOK
  <1>5. CASE CreateFeesInvoice(p)
    BY <1>5, <1>p DEF CreateFeesInvoice, TypeOK
  <1>6. CASE CreateReceipt(p)
    BY <1>6, <1>p DEF CreateReceipt, TypeOK
  <1>7. CASE Authorize(p)
    BY <1>7, <1>p DEF Authorize, TypeOK
  <1>8. CASE PersistCard(p)
    BY <1>8, <1>p DEF PersistCard, TypeOK, Persists
  <1>9. CASE Capture(p)
    BY <1>9, <1>p DEF Capture, TypeOK
  <1>10. CASE CancelIntent(p)
    BY <1>10, <1>p DEF CancelIntent, TypeOK
  <1>11. CASE RecordCancel(p)
    BY <1>11, <1>p DEF RecordCancel, TypeOK
  <1>12. CASE Cleanup(p)
    BY <1>12, <1>p DEF Cleanup, TypeOK, AfterDelete
  <1>13. CASE ApproveFees(p)
    BY <1>13, <1>p DEF ApproveFees, TypeOK
  <1>14. CASE BookCard(p)
    BY <1>14, <1>p DEF BookCard, TypeOK
  <1>15. CASE PatchReceipt(p)
    BY <1>15, <1>p DEF PatchReceipt, TypeOK
  <1>16. CASE ApproveReceipt(p)
    BY <1>16, <1>p DEF ApproveReceipt, TypeOK
  <1>17. CASE TagCard(p)
    BY <1>17, <1>p DEF TagCard, TypeOK
  <1>18. CASE ChargeBank(p)
    BY <1>18, <1>p DEF ChargeBank, TypeOK
  <1>19. CASE PersistDebit(p)
    BY <1>19, <1>p DEF PersistDebit, TypeOK, Persists
  <1>20. CASE PayerCallFails(p)
    BY <1>20, <1>p DEF PayerCallFails, Fails, TypeOK
  <1> QED
    BY <1>1, <1>2, <1>3, <1>4, <1>5, <1>6, <1>7, <1>8, <1>9, <1>10, <1>11, <1>12, <1>13,
       <1>14, <1>15, <1>16, <1>17, <1>18, <1>19, <1>20 DEF PayerWorks

\* A step of a payer, for all payments.
LEMMA PayerEffect ==
    ASSUME Known, NEW p \in Payer, Read(p) \/ PayerWorks(p)
    PROVE  /\ Quiet \/ Charges(p) \/ (at[p] = "approve" /\ Approves(p))
           /\ AmountsStay
  <1>1. PayerPays(p) /\ PayerFrame(p) /\ Flow(p) /\ MoneyStage(p)
    BY PayerPaysOnce, PayerKeepsOthers DEF Known, IntentInv
  <1>2. \A q \in Payer \ {p} : (q \in Charged' <=> q \in Charged) /\ call'[q] = call[q]
    BY <1>1 DEF PayerFrame, Charged
  <1>3. AmountsStay
    BY <1>1, <1>2 DEF AmountsStay, PayerPays, Flow, Untouched, Early, Charged
  <1>4. \A q \in Payer : \A a \in {q} \cup ({q} \X Attempt) :
            a # p => (a \in ReceiptsOf(q)' <=> a \in ReceiptsOf(q))
    <2>1. \A q \in Payer : \A a \in {q} \cup ({q} \X Attempt) : a \in Actor
      BY DEF Actor, Hook
    <2> QED  BY <1>1, <2>1 DEF PayerFrame, ReceiptsOf
  <1>5. \A q \in Payer \ {p} : p \notin {q} \cup ({q} \X Attempt)
    BY ActorsAssumption DEF Hook
  <1>6. \A q \in Payer \ {p} : ReceiptsOf(q)' = ReceiptsOf(q)
    BY <1>4, <1>5 DEF ReceiptsOf
  <1>7. CASE open' = open /\ (receipt'[p] = "approved" <=> receipt[p] = "approved")
    <2>1. ReceiptsOf(p)' = ReceiptsOf(p)
      BY <1>4, <1>7 DEF ReceiptsOf
    <2>2. Approved' = Approved
      BY <1>6, <2>1 DEF Approved
    <2>3. Charged \subseteq Payer /\ Charged' \subseteq Payer
      BY DEF Charged
    <2>4. Charged' \subseteq Charged \/ (p \notin Charged /\ Charged' = Charged \cup {p}
                                            /\ at[p] \in {"charge", "capture"})
      BY <1>1, <1>2, <2>3 DEF PayerPays
    <2> QED  BY <1>3, <1>7, <2>2, <2>4 DEF Quiet, Charges
  <1>8. CASE /\ at[p] = "approve" /\ receipt[p] # "approved" /\ receipt'[p] = "approved"
             /\ open' = Settled(call[p].amount)
    <2>1. p \in Charged /\ call[p].kind = "card"
      BY <1>1, <1>8 DEF MoneyStage, Flow, CardPlace, Moved, CardStage, Charged
    <2>2. p \notin Approved
      BY <1>8, <2>1, ApprovedWasCharged
    <2>3. p \in ReceiptsOf(p)'
      BY <1>8 DEF ReceiptsOf
    <2>4. Approved' = Approved \cup {p}
      BY <1>6, <2>3 DEF Approved
    <2>5. Charged' = Charged
      <3>1. Charged \subseteq Payer /\ Charged' \subseteq Payer
        BY DEF Charged
      <3> QED  BY <1>1, <1>2, <2>1, <3>1 DEF PayerPays
    <2> QED  BY <1>3, <1>8, <2>1, <2>2, <2>4, <2>5 DEF Approves
  <1> QED  BY <1>1, <1>7, <1>8 DEF PayerPays

\* A handler's own step.
HookPays(h) ==
    \/ open' = open /\ (receipt'[h] = "approved" <=> receipt[h] = "approved")
    \/ /\ at[h] = "hook_approve" /\ receipt'[h] = "approved"
       /\ open' = Settled(call[h[1]].amount)

LEMMA HookPaysOnce ==
    ASSUME TypeOK, NEW h \in Hook, HookFlow(h), Deliver(h) \/ HookWorks(h)
    PROVE  HookPays(h)
  <1> USE DEF docVars, priorityVars, stripeVars, Goes, HookPays
  <1>h. /\ h \in Actor
        /\ at[h] = "draft" => receipt[h] # "approved"
    BY HookParts DEF HookFlow
  <1>1. CASE Deliver(h)
    BY <1>1, <1>h DEF Deliver, TypeOK
  <1>2. CASE HookReads(h)
    BY <1>2, <1>h DEF HookReads, TypeOK
  <1>3. CASE HookLocks(h)
    BY <1>3, <1>h DEF HookLocks, TypeOK
  <1>4. CASE HookGets(h)
    BY <1>4, <1>h DEF HookGets, TypeOK
  <1>5. CASE HookDrafts(h)
    BY <1>5, <1>h DEF HookDrafts, TypeOK
  <1>6. CASE HookPatches(h)
    BY <1>6, <1>h DEF HookPatches, TypeOK
  <1>7. CASE HookApproves(h)
    BY <1>7, <1>h DEF HookApproves, TypeOK
  <1>8. CASE HookTags(h)
    BY <1>8, <1>h DEF HookTags, TypeOK
  <1>9. CASE HookBooks(h)
    BY <1>9, <1>h DEF HookBooks, TypeOK
  <1>10. CASE HookUnlocks(h)
    BY <1>10, <1>h DEF HookUnlocks, TypeOK
  <1>11. CASE HookCallFails(h)
    BY <1>11, <1>h DEF HookCallFails, Fails, TypeOK
  <1> QED
    BY <1>1, <1>2, <1>3, <1>4, <1>5, <1>6, <1>7, <1>8, <1>9, <1>10, <1>11 DEF HookWorks

\* A step of a handler, for all payments.
LEMMA HookEffect ==
    ASSUME Known, NEW h \in Hook, Deliver(h) \/ HookWorks(h)
    PROVE  /\ Quiet \/ (at[h] = "hook_approve" /\ Approves(h[1]))
           /\ AmountsStay
  <1> DEFINE p == h[1]
  <1>1. HookPays(h) /\ HookFrame(h) /\ HookFlow(h) /\ h \in Actor /\ p \in Payer
    BY HookPaysOnce, HookKeepsOthers, HookParts DEF Known, IntentInv
  <1>2. Charged' = Charged /\ AmountsStay
    BY <1>1 DEF HookFrame, Charged, AmountsStay
  <1>4. \A q \in Payer : \A a \in {q} \cup ({q} \X Attempt) :
            a # h => (a \in ReceiptsOf(q)' <=> a \in ReceiptsOf(q))
    <2>1. \A q \in Payer : \A a \in {q} \cup ({q} \X Attempt) : a \in Actor
      BY DEF Actor, Hook
    <2> QED  BY <1>1, <2>1 DEF HookFrame, ReceiptsOf
  <1>5. \A q \in Payer \ {p} : h \notin {q} \cup ({q} \X Attempt)
    BY ActorsAssumption DEF Hook
  <1>6. \A q \in Payer \ {p} : ReceiptsOf(q)' = ReceiptsOf(q)
    BY <1>4, <1>5 DEF ReceiptsOf
  <1>7. CASE open' = open /\ (receipt'[h] = "approved" <=> receipt[h] = "approved")
    <2>1. ReceiptsOf(p)' = ReceiptsOf(p)
      <3> HIDE DEF p
      <3>1. \A a : a \in ReceiptsOf(p)' <=> a \in ReceiptsOf(p)
        BY <1>1, <1>4, <1>7 DEF ReceiptsOf
      <3> QED  BY <3>1
    <2>2. Approved' = Approved
      BY <1>6, <2>1 DEF Approved
    <2> QED  BY <1>2, <1>7, <2>2 DEF Quiet
  <1>8. CASE /\ at[h] = "hook_approve" /\ receipt'[h] = "approved"
             /\ open' = Settled(call[p].amount)
    <2>1. p \in Charged /\ call[p].kind = "debit" /\ p \notin tagged
      BY <1>1, <1>8 DEF HookFlow, HookMoved, Charged
    <2>2. ASSUME NEW a \in ReceiptsOf(p) PROVE FALSE
      <3>1. receipt[p] = "none"
        BY <1>1, <2>1 DEF Known, IntentInv, Flow
      <3>2. a \in Hook /\ a[1] = p /\ receipt[a] = "approved"
        BY <3>1 DEF ReceiptsOf, Hook
      <3>3. HookFlow(a) /\ a \in Actor
        BY <3>2, HookParts DEF Known, IntentInv
      <3>4. at[a] \in {"hook_tag", "kept", "dead"}
        BY <2>1, <3>2, <3>3 DEF HookFlow
      <3>5. Blocks(a) /\ Blocks(h)
        BY <1>8, <3>4, Holdings DEF Blocks, HookMoved
      <3>6. a = h
        BY <1>1, <3>3, <3>5 DEF Known, LockOwned
      <3> QED  BY <1>8, <3>4, <3>6
    <2>3. h \in ReceiptsOf(p)'
      BY <1>8 DEF ReceiptsOf, Hook
    <2>4. Approved' = Approved \cup {p} /\ p \notin Approved
      BY <1>1, <1>6, <2>2, <2>3 DEF Approved
    <2> QED  BY <1>2, <1>8, <2>1, <2>4 DEF Approves
  <1> QED  BY <1>1, <1>7, <1>8 DEF HookPays

\* Everything else is quiet.
LEMMA OtherEffect ==
    ASSUME TypeOK, \/ \E p \in Payer : SettleDebit(p)
                   \/ \E a \in Actor : Crash(a)
                   \/ Synchronise
                   \/ UNCHANGED vars
    PROVE  Quiet /\ AmountsStay /\ UNCHANGED <<call, receipt, pis>>
  <1> USE DEF docVars, priorityVars, stripeVars, vars
  <1>1. UNCHANGED <<open, receipt, call, pis>>
    BY DEF SettleDebit, Crash, Synchronise
  <1>2. Charged' \subseteq Charged
    BY DEF SettleDebit, Crash, Synchronise, Charged, TypeOK
  <1>3. Approved' = Approved
    BY <1>1 DEF Approved, ReceiptsOf
  <1> QED  BY <1>1, <1>2, <1>3 DEF Quiet, AmountsStay

-----------------------------------------------------------------------------
(* The ledger balances.                                                    *)

\* Sums of amounts are numbers, and those of what was charged do not change.
LEMMA AmountSums ==
    ASSUME IsFiniteSet(Payer), TypeOK, NEW S \in SUBSET Payer
    PROVE  /\ IsFiniteSet(S) /\ \A p \in S : Amounts[p] = call[p].amount /\ Amounts[p] \in Nat
           /\ SumOver(Amounts, S) \in Nat
  <1>1. IsFiniteSet(S)
    BY FS_Subset
  <1>2. \A p \in S : Amounts[p] = call[p].amount /\ Amounts[p] \in Nat
    BY CallFields DEF Amounts
  <1> QED  BY <1>1, <1>2, SumIsNat

LEMMA AmountsKept ==
    ASSUME IsFiniteSet(Payer), TypeOK, NEW S \in SUBSET Payer, \A q \in S : call'[q] = call[q]
    PROVE  SumOver(Amounts', S) = SumOver(Amounts, S)
  <1>1. \A q \in S : Amounts'[q] = Amounts[q]
    BY DEF Amounts
  <1> QED  BY <1>1, AmountSums, SumOfSame

\* What is left of the total is left to be charged, when the document shows what is
\* under way.
LEMMA RoomLeft ==
    ASSUME IsFiniteSet(Payer), PaymentsAssumption, Known, Balanced, NEW ps \in [Payer -> Intent],
           \A q \in Charged \ Approved : Shows(ps, q),
           NEW d, NEW amount \in Nat, IsValidAmount(ps, d, amount, open)
    PROVE  SumOver(Amounts, Charged) + amount <= Total
  <1> DEFINE U == Charged \ Approved
             P == {p \in Payer : ps[p].status = "processing"}
  <1>t. TypeOK /\ Total \in Nat /\ MinRemainder \in Nat /\ open \in Nat
    BY PaymentsAssumption DEF Known, TypeOK
  <1>1. /\ Approved \subseteq Charged /\ Charged \subseteq Payer
        /\ U \subseteq Payer /\ P \subseteq Payer
    BY ApprovedWasCharged DEF Charged
  <1>2. Processing(ps) = SumOver(Owed(ps), P)
    BY ProcessingSum
  <1>3. \A p \in P : Owed(ps)[p] \in Nat
    BY DEF Owed, Intent
  <1>4. U \subseteq P /\ \A q \in U : Amounts[q] = Owed(ps)[q]
    BY <1>1 DEF Shows, Amounts, Owed
  <1>5. IsFiniteSet(P) /\ IsFiniteSet(U) /\ IsFiniteSet(Approved)
    BY <1>1, FS_Subset
  <1>6. SumOver(Owed(ps), P) \in Nat
    BY <1>3, <1>5, SumIsNat
  <1>7. SumOver(Amounts, U) <= SumOver(Owed(ps), P)
    <2>1. \A p \in P : Amounts[p] \in Nat /\ Owed(ps)[p] \in Nat
      BY <1>1, <1>3, <1>t, AmountSums
    <2>2. \A p \in U : Amounts[p] <= Owed(ps)[p]
      BY <1>4, <2>1
    <2> HIDE DEF U, P
    <2> QED  BY <1>4, <1>5, <2>1, <2>2, SumGrows
  <1>8. SumOver(Amounts, Charged) = SumOver(Amounts, Approved) + SumOver(Amounts, U)
    <2>1. Approved \cup U = Charged /\ Approved \cap U = {}
      BY <1>1
    <2>2. \A p \in Approved \cup U : Amounts[p] \in Nat
      BY <1>1, <1>t, AmountSums
    <2> HIDE DEF U
    <2> QED  BY <1>5, <2>1, <2>2, SumOfUnion
  <1>9. SumOver(Amounts, Approved) \in Nat /\ SumOver(Amounts, U) \in Nat
    BY <1>1, <1>t, AmountSums
  <1>10. Processing(ps) + amount <= open
    <2> DEFINE balance == d - Received(ps, d)
    <2>1. balance = open
      BY DEF IsValidAmount
    <2> DEFINE left == balance - Processing(ps) - amount
    <2>2. left = 0 \/ left >= MinRemainder
      BY DEF IsValidAmount
    <2> HIDE DEF balance
    <2> QED  BY <1>2, <1>6, <1>t, <2>1, <2>2
  <1> HIDE DEF U, P
  <1> QED  BY <1>2, <1>6, <1>7, <1>8, <1>9, <1>10, <1>t DEF Balanced

\* A step that charges has the room for it, and one that takes a receipt from the balance
\* never finds it too small.
LEMMA BalanceKept ==
    ASSUME IsFiniteSet(Payer), PaymentsAssumption, Known, Balanced, AmountsStay,
           \A p \in Payer : Relies(p),
           Quiet \/ \E p \in Payer : Charges(p) \/ Approves(p)
    PROVE  Balanced'
  <1>t. TypeOK /\ Total \in Nat /\ open \in Nat
    BY PaymentsAssumption DEF Known, TypeOK
  <1>1. Approved \subseteq Charged /\ Charged \subseteq Payer
    BY ApprovedWasCharged DEF Charged
  <1>2. SumOver(Amounts', Approved) = SumOver(Amounts, Approved)
    BY <1>1, <1>t, AmountsKept DEF AmountsStay
  <1>3. ASSUME NEW S \in SUBSET Charged
        PROVE  /\ SumOver(Amounts', S) = SumOver(Amounts, S)
               /\ SumOver(Amounts, S) <= SumOver(Amounts, Charged)
               /\ SumOver(Amounts, S) \in Nat /\ SumOver(Amounts, Charged) \in Nat
    <2>1. S \in SUBSET Payer /\ Charged \in SUBSET Payer
      BY <1>1
    <2>2. /\ SumOver(Amounts, S) \in Nat /\ SumOver(Amounts, Charged) \in Nat
          /\ IsFiniteSet(Charged)
          /\ \A x \in Charged : Amounts[x] \in Nat
      BY <1>t, <2>1, AmountSums
    <2>3. SumOver(Amounts, S) <= SumOver(Amounts, Charged)
      <3>1. \A x \in S : Amounts[x] <= Amounts[x]
        BY <2>2
      <3> QED  BY <2>2, <3>1, SumGrows
    <2>4. SumOver(Amounts', S) = SumOver(Amounts, S)
      BY <1>t, <2>1, AmountsKept DEF AmountsStay
    <2> QED  BY <2>2, <2>3, <2>4
  <1>4. CASE Quiet
    <2>1. SumOver(Amounts', Charged') <= Total
      BY <1>3, <1>4, <1>t DEF Quiet, Balanced
    <2> QED  BY <1>2, <1>4, <2>1 DEF Quiet, Balanced
  <1>5. ASSUME NEW p \in Payer, Charges(p) PROVE Balanced'
    <2>1. \A q \in Charged \cup {p} : call'[q] = call[q]
      BY <1>1, <1>5 DEF AmountsStay, Charges
    <2>2. SumOver(Amounts', Charged \cup {p}) = SumOver(Amounts, Charged \cup {p})
      BY <1>1, <1>t, <2>1, AmountsKept
    <2>3. SumOver(Amounts, Charged \cup {p}) <= Total
      BY <1>5 DEF Relies, Charges
    <2> QED  BY <1>2, <1>5, <2>2, <2>3 DEF Charges, Balanced
  <1>6. ASSUME NEW p \in Payer, Approves(p) PROVE Balanced'
    <2> DEFINE S == Approved \cup {p}
               a == call[p].amount
    <2>1. S \subseteq Charged /\ p \notin Approved
      BY <1>1, <1>6 DEF Approves
    <2>2. SumOver(Amounts, S) = SumOver(Amounts, Approved) + a
      <3>1. IsFiniteSet(Approved) /\ \A y \in S : Amounts[y] \in Nat
        BY <1>1, <1>t, <2>1, AmountSums
      <3>2. Amounts[p] = a
        BY DEF Amounts
      <3> HIDE DEF a
      <3> QED  BY <2>1, <3>1, <3>2, SumOfAdded
    <2>3. SumOver(Amounts, S) <= Total
      BY <1>3, <1>t, <2>1 DEF Balanced
    <2>4. a \in Nat /\ SumOver(Amounts, Approved) \in Nat
      BY <1>1, <1>t, AmountSums, CallFields
    <2>5. open' = Total - SumOver(Amounts, S)
      <3>1. open' = IF a < open THEN open - a ELSE 0
        BY <1>6 DEF Approves, Settled
      <3> HIDE DEF a, S
      <3> QED  BY <1>t, <2>2, <2>3, <2>4, <3>1 DEF Balanced
    <2>6. /\ SumOver(Amounts', S) = SumOver(Amounts, S)
          /\ SumOver(Amounts', Charged) = SumOver(Amounts, Charged)
      BY <1>3, <2>1
    <2>7. Approved' = S /\ Charged' = Charged
      BY <1>6 DEF Approves
    <2> HIDE DEF S, a
    <2> QED  BY <2>5, <2>6, <2>7 DEF Balanced
  <1> QED  BY <1>4, <1>5, <1>6

-----------------------------------------------------------------------------
(* What was charged is shown.                                              *)

\* A payer's own step.
LEMMA PayerShows ==
    ASSUME "lost_answer" \notin Mishap, TypeOK, NEW p \in Payer, Flow(p), MoneyStage(p),
           AmountRecorded(p), Read(p) \/ PayerWorks(p)
    PROVE  /\ AmountRecorded(p)'
           /\ p \in Charged' /\ receipt'[p] # "approved" =>
                 \/ at'[p] \in Moved \cup {"kept", "dead"}
                 \/ Shows(pis, p)'
                 \/ p \in Charged /\ at[p] \notin Moved \cup {"kept", "dead"}
                       /\ UNCHANGED <<pis[p], call[p]>>
  <1> USE DEF docVars, priorityVars, stripeVars, Goes, Charged, Shows, AmountRecorded, Moved,
              Flow, Untouched, Early, CardPlace, DebitPlace, Recorded
  <1>p. /\ p \in Actor /\ call[p] \in Call /\ pis[p] \in Intent
    BY DEF Actor, TypeOK
  <1>q. /\ at[p] = "tag" => receipt[p] = "approved"
        /\ p \in Charged => \/ at[p] \in Moved \cup {"unlock", "returned", "kept", "stuck", "dead"}
                          \/ call[p].kind = "debit"
    BY CallFields, PayerIsActor DEF MoneyStage, CardStage, NotTaken, Place, Holding, Undoing, Ended,
       TypeOK, HookStep, HookMoved
  <1>1. CASE Read(p)
    BY <1>1, <1>p, <1>q DEF Read, TypeOK, Intent
  <1>2. CASE Lock(p)
    BY <1>2, <1>p, <1>q DEF Lock, TypeOK, Intent
  <1>3. CASE Check(p)
    BY <1>3, <1>p, <1>q DEF Check, TypeOK, Intent
  <1>4. CASE Unlock(p)
    BY <1>4, <1>p, <1>q DEF Unlock, TypeOK, Intent
  <1>5. CASE CreateFeesInvoice(p)
    BY <1>5, <1>p, <1>q DEF CreateFeesInvoice, TypeOK, Intent
  <1>6. CASE CreateReceipt(p)
    BY <1>6, <1>p, <1>q DEF CreateReceipt, TypeOK, Intent
  <1>7. CASE Authorize(p)
    BY <1>7, <1>p, <1>q DEF Authorize, TypeOK, Intent
  <1>8. CASE PersistCard(p)
    BY <1>8, <1>p, <1>q DEF PersistCard, TypeOK, Intent, Persists
  <1>9. CASE Capture(p)
    BY <1>9, <1>p, <1>q DEF Capture, TypeOK, Intent
  <1>10. CASE CancelIntent(p)
    BY <1>10, <1>p, <1>q DEF CancelIntent, TypeOK, Intent
  <1>11. CASE RecordCancel(p)
    BY <1>11, <1>p, <1>q DEF RecordCancel, TypeOK, Intent
  <1>12. CASE Cleanup(p)
    BY <1>12, <1>p, <1>q DEF Cleanup, TypeOK, Intent, AfterDelete
  <1>13. CASE ApproveFees(p)
    BY <1>13, <1>p, <1>q DEF ApproveFees, TypeOK, Intent
  <1>14. CASE BookCard(p)
    BY <1>14, <1>p, <1>q DEF BookCard, TypeOK, Intent
  <1>15. CASE PatchReceipt(p)
    BY <1>15, <1>p, <1>q DEF PatchReceipt, TypeOK, Intent
  <1>16. CASE ApproveReceipt(p)
    BY <1>16, <1>p, <1>q DEF ApproveReceipt, TypeOK, Intent
  <1>17. CASE TagCard(p)
    BY <1>17, <1>p, <1>q DEF TagCard, TypeOK, Intent
  <1>18. CASE ChargeBank(p)
    BY <1>18, <1>p, <1>q DEF ChargeBank, TypeOK, Intent
  <1>19. CASE PersistDebit(p)
    BY <1>19, <1>p, <1>q DEF PersistDebit, TypeOK, Intent, Persists
  <1>20. CASE PayerCallFails(p)
    BY <1>20, <1>p, <1>q DEF PayerCallFails, Fails, TypeOK, Intent
  <1> QED
    BY <1>1, <1>2, <1>3, <1>4, <1>5, <1>6, <1>7, <1>8, <1>9, <1>10, <1>11, <1>12, <1>13,
       <1>14, <1>15, <1>16, <1>17, <1>18, <1>19, <1>20 DEF PayerWorks

\* A handler sets the status of an intent that failed, or that names a receipt.
LEMMA HookSetsIntent ==
    ASSUME TypeOK, NEW h \in Hook, HookFlow(h), Deliver(h) \/ HookWorks(h)
    PROVE  \/ pis' = pis
           \/ /\ stripe[h[1]] = "failed" \/ h[1] \in tagged
              /\ pis'[h[1]].amount = pis[h[1]].amount /\ Recorded(h[1])
              /\ call[h[1]].kind = "debit"
  <1> USE DEF docVars, priorityVars, stripeVars, Goes
  <1>h. h \in Actor /\ h[1] \in Payer /\ pis[h[1]] \in Intent
    BY HookParts DEF TypeOK
  <1>1. CASE Deliver(h)
    BY <1>1, <1>h DEF Deliver, TypeOK, Intent, HookFlow, Recorded, HookMoved
  <1>2. CASE HookReads(h)
    BY <1>2, <1>h DEF HookReads, TypeOK, Intent, HookFlow, Recorded, HookMoved
  <1>3. CASE HookLocks(h)
    BY <1>3, <1>h DEF HookLocks, TypeOK, Intent, HookFlow, Recorded, HookMoved
  <1>4. CASE HookGets(h)
    BY <1>4, <1>h DEF HookGets, TypeOK, Intent, HookFlow, Recorded, HookMoved
  <1>5. CASE HookDrafts(h)
    BY <1>5, <1>h DEF HookDrafts, TypeOK, Intent, HookFlow, Recorded, HookMoved
  <1>6. CASE HookPatches(h)
    BY <1>6, <1>h DEF HookPatches, TypeOK, Intent, HookFlow, Recorded, HookMoved
  <1>7. CASE HookApproves(h)
    BY <1>7, <1>h DEF HookApproves, TypeOK, Intent, HookFlow, Recorded, HookMoved
  <1>8. CASE HookTags(h)
    BY <1>8, <1>h DEF HookTags, TypeOK, Intent, HookFlow, Recorded, HookMoved
  <1>9. CASE HookBooks(h)
    BY <1>9, <1>h DEF HookBooks, TypeOK, Intent, HookFlow, Recorded, HookMoved
  <1>10. CASE HookUnlocks(h)
    BY <1>10, <1>h DEF HookUnlocks, TypeOK, Intent, HookFlow, Recorded, HookMoved
  <1>11. CASE HookCallFails(h)
    BY <1>11, <1>h DEF HookCallFails, Fails, TypeOK, Intent, HookFlow, Recorded, HookMoved
  <1> QED
    BY <1>1, <1>2, <1>3, <1>4, <1>5, <1>6, <1>7, <1>8, <1>9, <1>10, <1>11 DEF HookWorks

\* How a payer arrives where it relies on something.
LEMMA PayerArrives ==
    ASSUME TypeOK, NEW p \in Payer, Read(p) \/ PayerWorks(p)
    PROVE  /\ at'[p] = "check" => Lock(p) /\ ~locked
           /\ at'[p] = "charge" => Check(p)
           /\ at'[p] = "capture" => PersistCard(p) /\ Persists(p, "requires_capture")
           /\ at'[p] \in {"fees", "receipt", "authorize", "persist"} =>
                 \/ Check(p)
                 \/ at[p] \in {"fees", "receipt", "authorize"} /\ call' = call
  <1> USE DEF docVars, priorityVars, stripeVars, Goes
  <1>p. p \in Actor
    BY PayerIsActor
  <1>1. CASE Read(p)
    BY <1>1, <1>p DEF Read, TypeOK, Moved
  <1>2. CASE Lock(p)
    BY <1>2, <1>p DEF Lock, TypeOK, Moved
  <1>3. CASE Check(p)
    BY <1>3, <1>p DEF Check, TypeOK, Moved
  <1>4. CASE Unlock(p)
    BY <1>4, <1>p DEF Unlock, TypeOK, Moved
  <1>5. CASE CreateFeesInvoice(p)
    BY <1>5, <1>p DEF CreateFeesInvoice, TypeOK, Moved
  <1>6. CASE CreateReceipt(p)
    BY <1>6, <1>p DEF CreateReceipt, TypeOK, Moved
  <1>7. CASE Authorize(p)
    BY <1>7, <1>p DEF Authorize, TypeOK, Moved
  <1>8. CASE PersistCard(p)
    BY <1>8, <1>p DEF PersistCard, TypeOK, Moved, Persists
  <1>9. CASE Capture(p)
    BY <1>9, <1>p DEF Capture, TypeOK, Moved
  <1>10. CASE CancelIntent(p)
    BY <1>10, <1>p DEF CancelIntent, TypeOK, Moved
  <1>11. CASE RecordCancel(p)
    BY <1>11, <1>p DEF RecordCancel, TypeOK, Moved
  <1>12. CASE Cleanup(p)
    BY <1>12, <1>p DEF Cleanup, TypeOK, Moved, AfterDelete
  <1>13. CASE ApproveFees(p)
    BY <1>13, <1>p DEF ApproveFees, TypeOK, Moved
  <1>14. CASE BookCard(p)
    BY <1>14, <1>p DEF BookCard, TypeOK, Moved
  <1>15. CASE PatchReceipt(p)
    BY <1>15, <1>p DEF PatchReceipt, TypeOK, Moved
  <1>16. CASE ApproveReceipt(p)
    BY <1>16, <1>p DEF ApproveReceipt, TypeOK, Moved
  <1>17. CASE TagCard(p)
    BY <1>17, <1>p DEF TagCard, TypeOK, Moved
  <1>18. CASE ChargeBank(p)
    BY <1>18, <1>p DEF ChargeBank, TypeOK, Moved
  <1>19. CASE PersistDebit(p)
    BY <1>19, <1>p DEF PersistDebit, TypeOK, Moved, Persists
  <1>20. CASE PayerCallFails(p)
    BY <1>20, <1>p DEF PayerCallFails, Fails, TypeOK, Moved
  <1> QED
    BY <1>1, <1>2, <1>3, <1>4, <1>5, <1>6, <1>7, <1>8, <1>9, <1>10, <1>11, <1>12, <1>13,
       <1>14, <1>15, <1>16, <1>17, <1>18, <1>19, <1>20 DEF PayerWorks

\* A payer that relies on something waits for nobody: it has the lock.
RelyPlace == {"check", "charge", "capture", "fees", "receipt", "authorize", "persist"}

\* What a payer relies on outlives the quiet steps of others.
LEMMA QuietKeepsRelies ==
    ASSUME IsFiniteSet(Payer), PaymentsAssumption, Known, Quiet, AmountsStay,
           NEW q \in Payer, Relies(q), at'[q] = at[q], call'[q] = call[q]
    PROVE  Relies(q)'
  <1>t. TypeOK /\ Total \in Nat /\ Charged \subseteq Payer
    BY PaymentsAssumption DEF Known, Charged
  <1>1. at'[q] = "check" /\ call'[q].kind = "debit" =>
            \A r \in Charged' \ Approved' : Shows(call[q].snap, r)'
    <2>1. \A r \in Charged' : r \in Charged /\ call'[r] = call[r]
      BY <1>t DEF Quiet, AmountsStay
    <2> QED  BY <2>1 DEF Relies, Quiet, Shows
  <1>2. ASSUME at'[q] \in {"charge", "capture"} PROVE SumOver(Amounts', Charged' \cup {q}) <= Total
    <2> DEFINE S == Charged \cup {q}
               R == Charged' \cup {q}
    <2>1. R \subseteq S /\ S \in SUBSET Payer /\ R \in SUBSET Payer
      BY <1>t DEF Quiet
    <2>2. \A r \in R : call'[r] = call[r]
      BY <1>t, <1>2 DEF Quiet, AmountsStay
    <2>3. SumOver(Amounts, S) <= Total
      BY <1>2 DEF Relies
    <2> HIDE DEF R, S
    <2>4. SumOver(Amounts', R) = SumOver(Amounts, R)
      BY <1>t, <2>1, <2>2, AmountsKept
    <2>5. /\ IsFiniteSet(S) /\ \A x \in S : Amounts[x] \in Nat
          /\ SumOver(Amounts, S) \in Nat /\ SumOver(Amounts, R) \in Nat
      BY <1>t, <2>1, AmountSums
    <2>6. SumOver(Amounts, R) <= SumOver(Amounts, S)
      <3>1. \A x \in R : Amounts[x] <= Amounts[x]
        BY <2>1, <2>5
      <3> QED  BY <2>1, <2>5, <3>1, SumGrows
    <2>7. SumOver(Amounts', R) <= Total
      BY <1>t, <2>3, <2>4, <2>5, <2>6
    <2> QED  BY <2>7 DEF R
  <1>3. at'[q] \in {"fees", "receipt", "authorize", "persist"} => call'[q].seen = open'
    BY DEF Relies, Quiet
  <1> QED  BY <1>1, <1>2, <1>3 DEF Relies

\* A payer's own step: it relies on what it has just looked at, with the lock.
LEMMA PayerRelies ==
    ASSUME IsFiniteSet(Payer), PaymentsAssumption,
           Mishap \cap {"lost_answer", "stale_snapshot"} = {}, Known, Ledger,
           NEW p \in Payer, Read(p) \/ PayerWorks(p)
    PROVE  Relies(p)'
  <1>t. /\ TypeOK /\ Total \in Nat /\ Charged \subseteq Payer /\ open \in Nat
        /\ p \in Actor /\ Payer \subseteq Actor /\ Flow(p) /\ call[p] \in Call
    BY PaymentsAssumption, PayerIsActor DEF Known, Charged, IntentInv, TypeOK
  <1>b. /\ ~locked \/ at[p] \in {"check", "persist"} =>
              \A q \in Charged \ Approved : q # p => Shows(pis, q)
        /\ at[p] \in {"lock", "check"} => p \notin Charged
        /\ at[p] = "persist" => p \notin Charged
    <2>1. ASSUME NEW q \in Payer \ {p}, at[q] \in Moved \cup {"kept", "dead"},
                 ~locked \/ at[p] \in {"check", "persist"}
          PROVE  FALSE
      <3>1. Blocks(q)
        BY <2>1, Holdings DEF Blocks
      <3>2. CASE ~locked
        BY <1>t, <3>1, <3>2 DEF Known, LockOwned
      <3>3. CASE at[p] \in {"check", "persist"}
        BY <1>t, <3>1, <3>3, Holdings DEF Known, LockOwned, Blocks, Undoing
      <3> QED  BY <2>1, <3>2, <3>3
    <2>2. at[p] \in {"lock", "check"} => p \notin Charged
      BY <1>t DEF Flow, Early, Untouched, Charged
    <2>3. at[p] = "persist" => p \notin Charged
      BY <1>t DEF Known, MoneyStage, CardStage, NotTaken, Flow, CardPlace, Charged
    <2> QED  BY <1>t, <2>1, <2>2, <2>3 DEF Ledger, Pending
  <1>r. ASSUME Check(p) \/ PersistCard(p), p \notin Charged,
               NEW amount \in Nat, call'[p].amount = amount,
               SumOver(Amounts, Charged) + amount <= Total
        PROVE  SumOver(Amounts', Charged' \cup {p}) <= Total
    <2>1. Charged' = Charged /\ \A q \in Charged : call'[q] = call[q]
      BY <1>r, <1>t DEF Check, PersistCard, Charged, priorityVars, stripeVars, TypeOK
    <2>2. SumOver(Amounts', Charged) = SumOver(Amounts, Charged)
      BY <1>t, <2>1, AmountsKept
    <2>3. IsFiniteSet(Charged) /\ SumOver(Amounts, Charged) \in Nat
      BY <1>t, AmountSums
    <2>4. /\ \A y \in Charged : Amounts'[y] = Amounts[y] /\ Amounts[y] \in Nat
          /\ Amounts'[p] = amount
      BY <1>r, <1>t, <2>1, AmountSums DEF Amounts
    <2>5. SumOver(Amounts', Charged \cup {p}) = SumOver(Amounts', Charged) + amount
      <3>1. \A y \in Charged \cup {p} : Amounts'[y] \in Nat
        BY <1>r, <2>4
      <3> QED  BY SMTT(40), <1>r, <2>3, <2>4, <3>1, SumOfAdded
    <2> QED  BY <1>r, <2>1, <2>2, <2>5
  <1>1. ASSUME at'[p] = "check", call'[p].kind = "debit"
        PROVE  \A q \in Charged' \ Approved' : Shows(call[p].snap, q)'
    <2>1. Lock(p) /\ ~locked
      BY <1>1, <1>t, PayerArrives
    <2>2. call' = call /\ Charged' = Charged /\ Approved' = Approved /\ at[p] = "lock"
      BY <2>1 DEF Lock, Charged, Approved, ReceiptsOf, priorityVars, stripeVars, Goes
    <2>3. call[p].snap = pis
      BY <1>1, <2>1, <2>2 DEF Lock
    <2> QED  BY <1>b, <2>1, <2>2, <2>3 DEF Shows
  <1>2. ASSUME at'[p] = "charge" PROVE SumOver(Amounts', Charged' \cup {p}) <= Total
    <2> DEFINE a == IF call[p].amount = Whole THEN open ELSE call[p].amount
    <2>1. Check(p)
      BY <1>2, <1>t, PayerArrives
    <2>2. /\ at[p] = "check" /\ call[p].kind = "debit" /\ p \notin Charged
          /\ IsValidAmount(call[p].snap, call[p].snapDebit, a, open)
      BY <1>2, <1>b, <1>t, <2>1, CallFields DEF Check, Goes, TypeOK
    <2>3. call'[p].amount = a /\ a \in Nat
      BY <1>t, <2>1 DEF Check, TypeOK, Call
    <2>4. \A q \in Charged \ Approved : Shows(call[p].snap, q)
      BY <2>2 DEF Ledger, Relies
    <2>5. call[p].snap \in [Payer -> Intent]
      BY <1>t DEF Call
    <2> HIDE DEF a
    <2>6. SumOver(Amounts, Charged) + a <= Total
      BY <2>2, <2>3, <2>4, <2>5, RoomLeft DEF Ledger
    <2> QED  BY <1>r, <2>1, <2>2, <2>3, <2>6
  <1>3. ASSUME at'[p] = "capture" PROVE SumOver(Amounts', Charged' \cup {p}) <= Total
    <2>1. PersistCard(p) /\ Persists(p, "requires_capture") /\ at[p] = "persist"
      BY <1>3, <1>t, PayerArrives DEF PersistCard, Goes
    <2>2. IsValidAmount(pis, debit, call[p].amount, open) /\ p \notin Charged
      BY <1>b, <2>1 DEF Persists, Ledger, Relies
    <2>3. call'[p].amount = call[p].amount /\ call[p].amount \in Nat
      BY <1>t, <2>1, CallFields DEF PersistCard
    <2>4. \A q \in Charged \ Approved : Shows(pis, q)
      BY <1>b, <2>1, <2>2
    <2>5. SumOver(Amounts, Charged) + call[p].amount <= Total
      BY <1>t, <2>2, <2>3, <2>4, RoomLeft DEF Ledger, TypeOK
    <2> QED  BY <1>r, <2>1, <2>2, <2>3, <2>5
  <1>4. ASSUME at'[p] \in {"fees", "receipt", "authorize", "persist"} PROVE call'[p].seen = open'
    <2>1. CASE Check(p)
      BY <1>t, <2>1 DEF Check, priorityVars, TypeOK, Call
    <2>2. CASE at[p] \in {"fees", "receipt", "authorize"} /\ call' = call
      <3>1. Quiet
        BY <2>2, <1>t, PayerEffect DEF Charges
      <3> QED  BY <2>2, <3>1 DEF Ledger, Relies, Quiet
    <2> QED  BY <1>4, <1>t, <2>1, <2>2, PayerArrives
  <1> QED  BY <1>1, <1>2, <1>3, <1>4 DEF Relies, Shows

-----------------------------------------------------------------------------
(* Every step keeps the ledger.                                            *)

LEMMA PayerKeepsLedger ==
    ASSUME IsFiniteSet(Payer), PaymentsAssumption,
           Mishap \cap {"lost_answer", "stale_snapshot"} = {}, Known, LockOwned', Ledger,
           NEW p \in Payer, Read(p) \/ PayerWorks(p)
    PROVE  Ledger'
  <1>t. /\ TypeOK /\ Payer \subseteq Actor /\ Flow(p) /\ MoneyStage(p) /\ AmountRecorded(p)
        /\ Balanced /\ \A q \in Payer : Relies(q)
    BY PayerIsActor DEF Known, IntentInv, Ledger
  <1>f. PayerFrame(p)
    BY <1>t, PayerKeepsOthers
  <1>e. Quiet \/ Charges(p) \/ (at[p] = "approve" /\ Approves(p))
    BY PayerEffect
  <1>a. AmountsStay
    BY PayerEffect
  <1>1. Balanced'
    BY <1>a, <1>e, <1>t, BalanceKept
  <1>2. \A q \in Payer : AmountRecorded(q)'
    <2>1. AmountRecorded(p)'
      BY <1>t, PayerShows
    <2> QED  BY <1>f, <2>1 DEF PayerFrame, Ledger, AmountRecorded
  <1>3. Pending'
    <2> SUFFICES ASSUME NEW q \in Charged' \ Approved'
                 PROVE  at'[q] \in Moved \cup {"kept", "dead"} \/ Shows(pis, q)'
      BY DEF Pending
    <2>1. q \in Payer /\ q \notin Approved /\ receipt'[q] # "approved"
      BY <1>e DEF Charged, Quiet, Charges, Approves, Approved, ReceiptsOf
    <2>2. CASE q # p
      BY <1>f, <2>1, <2>2 DEF PayerFrame, Ledger, Pending, Charged, Shows
    <2>3. CASE q = p
      BY <1>t, <2>1, <2>3, PayerShows DEF Ledger, Pending, Shows
    <2> QED  BY <2>2, <2>3
  <1>4. ASSUME NEW q \in Payer PROVE Relies(q)'
    <2>1. CASE q = p
      BY <2>1, PayerRelies
    <2>2. CASE q # p /\ at[q] \in RelyPlace
      <3>1. at'[q] = at[q] /\ call'[q] = call[q]
        BY <1>f, <2>2 DEF PayerFrame
      <3>2. Blocks(q)
        BY <2>2, Holdings DEF Blocks, RelyPlace, Undoing
      <3>3. ~Blocks(p)
        BY <1>t, <2>2, <3>2 DEF Known, LockOwned
      <3>4. at[p] \notin {"charge", "capture", "approve"}
        BY <3>3, Holdings DEF Blocks, Undoing, Moved
      <3>5. Quiet
        BY <1>e, <3>4 DEF Charges
      <3> QED  BY <1>a, <1>t, <3>1, <3>5, QuietKeepsRelies
    <2>3. CASE q # p /\ at[q] \notin RelyPlace
      BY <1>f, <2>3 DEF PayerFrame, Relies, RelyPlace
    <2> QED  BY <2>1, <2>2, <2>3
  <1> QED  BY <1>1, <1>2, <1>3, <1>4 DEF Ledger

LEMMA HookKeepsLedger ==
    ASSUME IsFiniteSet(Payer), PaymentsAssumption, Known, Ledger, NEW h \in Hook,
           Deliver(h) \/ HookWorks(h)
    PROVE  Ledger'
  <1>t. /\ TypeOK /\ h \in Actor /\ h[1] \in Payer /\ HookFlow(h) /\ h \notin Payer
        /\ Balanced /\ \A q \in Payer : q \in Actor /\ Relies(q)
    BY HookParts, ActorsAssumption DEF Known, IntentInv, Ledger, Actor
  <1>f. HookFrame(h)
    BY <1>t, HookKeepsOthers
  <1>e. Quiet \/ (at[h] = "hook_approve" /\ Approves(h[1]))
    BY HookEffect
  <1>a. AmountsStay
    BY HookEffect
  <1>p. \/ pis' = pis
        \/ /\ stripe[h[1]] = "failed" \/ h[1] \in tagged
           /\ pis'[h[1]].amount = pis[h[1]].amount /\ Recorded(h[1])
           /\ call[h[1]].kind = "debit"
    BY <1>t, HookSetsIntent
  <1>1. Balanced'
    BY <1>a, <1>e, <1>t, BalanceKept
  <1>2. \A q \in Payer : AmountRecorded(q)'
    BY <1>f, <1>p DEF HookFrame, Ledger, AmountRecorded, Recorded
  <1>3. Pending'
    <2> SUFFICES ASSUME NEW q \in Charged' \ Approved'
                 PROVE  at'[q] \in Moved \cup {"kept", "dead"} \/ Shows(pis, q)'
      BY DEF Pending
    <2>1. q \in Payer /\ q \in Charged /\ q \notin Approved /\ at'[q] = at[q] /\ call'[q] = call[q]
      BY <1>e, <1>f, <1>t DEF Charged, Quiet, Approves, HookFrame
    <2>2. CASE q # h[1] \/ pis' = pis
      <3>1. pis'[q] = pis[q]
        BY <1>f, <2>1, <2>2 DEF HookFrame
      <3> QED  BY <2>1, <3>1 DEF Ledger, Pending, Shows
    <2>3. CASE q = h[1] /\ stripe[h[1]] = "failed"
      BY <2>1, <2>3 DEF Charged
    <2>4. CASE q = h[1] /\ h[1] \in tagged /\ call[h[1]].kind = "debit"
      <3>1. call[q].kind = "debit"
        BY <2>4
      <3>2. \E i \in Hook : i[1] = q /\ receipt[i] = "approved"
        BY <2>4, <3>1 DEF Known, IntentInv, TaggedIsBooked
      <3> QED  BY <2>1, <3>2 DEF Approved, ReceiptsOf, Hook
    <2> QED  BY <1>p, <2>2, <2>3, <2>4
  <1>4. ASSUME NEW q \in Payer PROVE Relies(q)'
    <2>1. at'[q] = at[q] /\ call'[q] = call[q]
      BY <1>f, <1>t DEF HookFrame
    <2>2. CASE at[q] \in RelyPlace
      <3>1. Blocks(q)
        BY <2>2, Holdings DEF Blocks, RelyPlace, Undoing
      <3>2. ~Blocks(h)
        BY <1>t, <3>1 DEF Known, LockOwned
      <3>3. Quiet
        BY <1>e, <3>2, Holdings DEF Blocks, HookMoved
      <3> QED  BY <1>a, <1>t, <2>1, <3>3, QuietKeepsRelies
    <2>3. CASE at[q] \notin RelyPlace
      BY <2>1, <2>3 DEF Relies, RelyPlace
    <2> QED  BY <2>2, <2>3
  <1> QED  BY <1>1, <1>2, <1>3, <1>4 DEF Ledger

LEMMA OthersKeepLedger ==
    ASSUME IsFiniteSet(Payer), PaymentsAssumption, Known, Ledger,
           \/ \E p \in Payer : SettleDebit(p)
           \/ \E a \in Actor : Crash(a)
           \/ Synchronise
           \/ UNCHANGED vars
    PROVE  Ledger'
  <1>t. /\ TypeOK /\ Balanced /\ \A q \in Payer : q \in Actor /\ Relies(q) /\ Flow(q)
    BY DEF Known, IntentInv, Ledger, Actor
  <1>e. Quiet /\ AmountsStay /\ UNCHANGED <<call, receipt, pis>>
    BY <1>t, OtherEffect
  <1>d. \A q \in Payer : \/ at'[q] = at[q]
                         \/ at'[q] = "dead"
                         \/ at'[q] = "lost" /\ q \notin Charged
    <2>1. ASSUME NEW a \in Actor, Crash(a), NEW q \in Payer, a = q
          PROVE  at'[q] = "dead" \/ (at'[q] = "lost" /\ q \notin Charged)
      <3>1. CASE Holds(q)
        BY <1>t, <2>1, <3>1 DEF Crash, TypeOK
      <3>2. CASE ~Holds(q)
        BY <1>t, <2>1, <3>2
        DEF Crash, TypeOK, Holds, Place, Ended, Flow, Early, Untouched, Charged
      <3> QED  BY <3>1, <3>2
    <2>2. ASSUME NEW a \in Actor, Crash(a), NEW q \in Payer, a # q
          PROVE  at'[q] = at[q]
      BY <1>t, <2>2 DEF Crash, TypeOK
    <2> QED  BY <2>1, <2>2 DEF SettleDebit, Synchronise, vars
  <1>1. Balanced'
    BY <1>e, <1>t, BalanceKept
  <1>2. \A q \in Payer : AmountRecorded(q)'
    BY <1>e DEF Ledger, AmountRecorded
  <1>3. Pending'
    <2> SUFFICES ASSUME NEW q \in Charged' \ Approved'
                 PROVE  at'[q] \in Moved \cup {"kept", "dead"} \/ Shows(pis, q)'
      BY DEF Pending
    <2>1. q \in Payer /\ q \in Charged \ Approved
      BY <1>e DEF Charged, Quiet
    <2> QED  BY <1>d, <1>e, <2>1 DEF Ledger, Pending, Shows
  <1>4. ASSUME NEW q \in Payer PROVE Relies(q)'
    <2>1. CASE at'[q] = at[q]
      BY <1>e, <1>t, <2>1, QuietKeepsRelies
    <2>2. CASE at'[q] \in {"dead", "lost"}
      BY <2>2 DEF Relies
    <2> QED  BY <1>d, <2>1, <2>2
  <1> QED  BY <1>1, <1>2, <1>3, <1>4 DEF Ledger

LEMMA LedgerAtFirst ==
    ASSUME IsFiniteSet(Payer), PaymentsAssumption, Init
    PROVE  Ledger
  <1>1. Charged = {} /\ Approved = {}
    <2>1. \A p \in Payer : p \in Actor /\ \A h \in {p} \X Attempt : h \in Actor
      BY DEF Actor, Hook
    <2> QED  BY <2>1 DEF Init, Charged, Approved, ReceiptsOf
  <1>2. SumOver(Amounts, {}) = 0
    BY FS_EmptySet, SumByFirst
  <1>3. Balanced
    BY <1>1, <1>2, PaymentsAssumption DEF Init, Balanced
  <1>4. \A p \in Payer : at[p] = "idle" /\ pis[p].status = "none"
    BY DEF Init, NoIntents, NoIntent, Actor
  <1> QED  BY <1>1, <1>3, <1>4 DEF Ledger, Pending, Relies, AmountRecorded

-----------------------------------------------------------------------------
(* What the runs check.                                                    *)

\* The customer never pays more than the invoice, for any number of payers, deliveries,
\* crashes and calls that fail, if Stripe always answers and if a bank debit looks at the
\* invoice as it is when it takes the lock; both are needed.
THEOREM TotalIsNeverExceeded ==
    ASSUME IsFiniteSet(Payer), Mishap \cap {"lost_answer", "stale_snapshot"} = {}
    PROVE  Spec => []NeverOvercharged
  <1>m. "lost_answer" \notin Mishap
    OBVIOUS
  <1>1. Init => Ledger
    BY LedgerAtFirst, PaymentsAssumption
  <1>2. Known /\ LockOwned' /\ Ledger /\ [Next]_vars => Ledger'
    BY PayerKeepsLedger, HookKeepsLedger, OthersKeepLedger, PaymentsAssumption DEF Next
  <1>3. TypeOK /\ LockOwned /\ IntentInv /\ (\A p \in Payer : MoneyStage(p)) => Known
    BY DEF Known
  <1>4. Ledger => NeverOvercharged
    <2>1. Charged \in SUBSET Payer
      BY DEF Charged
    <2>2. MapThenSumSet(LAMBDA p : call[p].amount, Charged) = SumOver(Amounts, Charged)
      BY <2>1, AmountSum
    <2> QED  BY <2>2 DEF Ledger, Balanced, NeverOvercharged
  <1>5. Spec => [](\A p \in Payer : MoneyStage(p))
    BY <1>m, MoneyIsFollowed
  <1> QED
    BY <1>1, <1>2, <1>3, <1>4, <1>5, TypeCorrect, LockIsOwned, IntentsAreKept, PTL DEF Spec

-----------------------------------------------------------------------------
(* What is left can be paid: the debit of the document is never less than  *)
(* the open balance, and what an intent has received is taken from it.     *)

\* A payment has no amount only until it is checked, or if it fails there.
Priced(p) ==
    call[p].amount = 0 =>
        /\ at[p] \in {"idle", "lock", "check", "unlock", "returned", "stuck", "dead", "lost"}
        /\ stripe[p] = "none"

\* An intent that has received something has a debit of before its receipt was approved.
Outdated(p) ==
    /\ at[p] = "approve" => 0 < open
    /\ pis[p].status # "none" => open <= pis[p].debit
    /\ 0 < pis[p].received =>
          /\ pis[p].status # "none"
          /\ open < pis[p].debit \/ at[p] \in {"patch", "approve", "kept", "dead"}

\* So has a delivery that is booking one the invoice as it was before.
Behind(h) ==
    /\ at[h] = "hook_approve" => 0 < open
    /\ at[h] \in {"hook_tag", "hook_book"} => open < debit

Remainder ==
    /\ open <= debit
    /\ \A p \in Payer : Priced(p) /\ Outdated(p)
    /\ \A h \in Hook : Behind(h)

\* A payer's own step.
LEMMA PayerLeavesRemainder ==
    ASSUME TypeOK, PaymentsAssumption, NEW p \in Payer, Flow(p), Priced(p), Outdated(p),
           open <= debit, Read(p) \/ PayerWorks(p)
    PROVE  /\ Priced(p)' /\ Outdated(p)'
           /\ debit' = debit /\ open' <= open /\ (open' # open => at[p] = "approve")
  <1> USE DEF docVars, priorityVars, stripeVars, Goes, Priced, Outdated, Moved, Flow, Early,
              Untouched, CardPlace, DebitPlace, Undoing
  <1>p. /\ p \in Actor /\ call[p] \in Call /\ pis[p] \in Intent /\ open \in Nat /\ debit \in Nat
    BY DEF Actor, TypeOK
  <1>1. CASE Read(p)
    BY <1>1, <1>p DEF Read, TypeOK, Call, Intent
  <1>2. CASE Lock(p)
    BY <1>2, <1>p DEF Lock, TypeOK, Call, Intent
  <1>3. CASE Check(p)
    <2> DEFINE a == IF call[p].amount = Whole THEN open ELSE call[p].amount
    <2>1. /\ call'[p].amount = a /\ UNCHANGED <<pis, open, debit, stripe>>
          /\ at[p] = "check" /\ at'[p] \in {"unlock", "fees", "charge"}
          /\ at'[p] # "unlock" => open > 0
      BY <1>3, <1>p DEF Check, TypeOK, Call
    <2>2. open > 0 => a # 0
      BY DEF Whole
    <2> HIDE DEF a
    <2> QED  BY <1>p, <2>1, <2>2
  <1>4. CASE Unlock(p)
    BY <1>4, <1>p DEF Unlock, TypeOK, Call, Intent
  <1>5. CASE CreateFeesInvoice(p)
    BY <1>5, <1>p DEF CreateFeesInvoice, TypeOK, Call, Intent
  <1>6. CASE CreateReceipt(p)
    BY <1>6, <1>p DEF CreateReceipt, TypeOK, Call, Intent
  <1>7. CASE Authorize(p)
    BY <1>7, <1>p DEF Authorize, TypeOK, Call, Intent
  <1>8. CASE PersistCard(p)
    BY <1>8, <1>p DEF PersistCard, TypeOK, Call, Intent, Persists
  <1>9. CASE Capture(p)
    BY <1>9, <1>p DEF Capture, TypeOK, Call, Intent
  <1>10. CASE CancelIntent(p)
    BY <1>10, <1>p DEF CancelIntent, TypeOK, Call, Intent
  <1>11. CASE RecordCancel(p)
    BY <1>11, <1>p DEF RecordCancel, TypeOK, Call, Intent
  <1>12. CASE Cleanup(p)
    BY <1>12, <1>p DEF Cleanup, TypeOK, Call, Intent, AfterDelete
  <1>13. CASE ApproveFees(p)
    BY <1>13, <1>p DEF ApproveFees, TypeOK, Call, Intent
  <1>14. CASE BookCard(p)
    BY <1>14, <1>p DEF BookCard, TypeOK, Call, Intent
  <1>15. CASE PatchReceipt(p)
    BY <1>15, <1>p DEF PatchReceipt, TypeOK, Call, Intent
  <1>16. CASE ApproveReceipt(p)
    BY <1>16, <1>p DEF ApproveReceipt, TypeOK, Call, Intent, Settled
  <1>17. CASE TagCard(p)
    BY <1>17, <1>p DEF TagCard, TypeOK, Call, Intent
  <1>18. CASE ChargeBank(p)
    BY <1>18, <1>p DEF ChargeBank, TypeOK, Call, Intent
  <1>19. CASE PersistDebit(p)
    BY <1>19, <1>p DEF PersistDebit, TypeOK, Call, Intent, Persists
  <1>20. CASE PayerCallFails(p)
    BY <1>20, <1>p DEF PayerCallFails, TypeOK, Call, Intent, Fails
  <1> QED
    BY <1>1, <1>2, <1>3, <1>4, <1>5, <1>6, <1>7, <1>8, <1>9, <1>10, <1>11, <1>12, <1>13,
       <1>14, <1>15, <1>16, <1>17, <1>18, <1>19, <1>20 DEF PayerWorks

\* A handler's own step.
LEMMA HookLeavesRemainder ==
    ASSUME TypeOK, NEW h \in Hook, HookFlow(h), Priced(h[1]), Outdated(h[1]), Behind(h),
           open <= debit, Deliver(h) \/ HookWorks(h)
    PROVE  /\ Behind(h)'
           /\ pis' # pis => Recorded(h[1])'
           /\ debit' = debit /\ open' <= open /\ (open' # open => at[h] = "hook_approve")
           /\ pis'[h[1]].status # "none" => open' <= pis'[h[1]].debit
           /\ 0 < pis'[h[1]].received =>
                 /\ pis'[h[1]].status # "none"
                 /\ \/ open' < pis'[h[1]].debit
                    \/ at[h[1]] \in {"patch", "approve", "kept", "dead"}
  <1> USE DEF docVars, priorityVars, stripeVars, Goes, Priced, Outdated, HookFlow, HookPlace,
              HookStep, HookMoved, Recorded, Behind
  <1>h. /\ h \in Actor /\ h[1] \in Payer /\ pis[h[1]] \in Intent /\ call[h[1]] \in Call
        /\ open \in Nat /\ debit \in Nat
    BY HookParts DEF TypeOK
  <1>1. CASE Deliver(h)
    BY <1>1, <1>h DEF Deliver, TypeOK, Call, Intent
  <1>2. CASE HookReads(h)
    <2>1. /\ UNCHANGED <<open, debit>> /\ at[h] = "event"
          /\ at'[h] \in {"lost", "hook_lock", "returned"}
          /\ \/ pis' = pis
             \/ Recorded(h[1]) /\ pis' = [pis EXCEPT ![h[1]].status = "failed"]
      BY <1>2, <1>h DEF HookReads, TypeOK
    <2>2. CASE pis' = pis
      BY <1>h, <2>1, <2>2
    <2>3. CASE pis' = [pis EXCEPT ![h[1]].status = "failed"] /\ Recorded(h[1])
      <3>1. /\ pis'[h[1]].status = "failed" /\ pis'[h[1]].debit = pis[h[1]].debit
            /\ pis'[h[1]].received = pis[h[1]].received
        BY <1>h, <2>3 DEF TypeOK, Intent
      <3> QED  BY <1>h, <2>1, <2>3, <3>1
    <2> QED  BY <2>1, <2>2, <2>3
  <1>3. CASE HookLocks(h)
    BY <1>3, <1>h DEF HookLocks, TypeOK, Call, Intent
  <1>4. CASE HookGets(h)
    BY <1>4, <1>h DEF HookGets, TypeOK, Call, Intent
  <1>5. CASE HookDrafts(h)
    BY <1>5, <1>h DEF HookDrafts, TypeOK, Call, Intent
  <1>6. CASE HookPatches(h)
    BY <1>6, <1>h DEF HookPatches, TypeOK, Call, Intent
  <1>7. CASE HookApproves(h)
    <2>1. /\ UNCHANGED <<pis, debit>> /\ at[h] = "hook_approve" /\ at'[h] = "hook_tag"
          /\ open' = Settled(call[h[1]].amount) /\ 0 < open
      BY <1>7, <1>h DEF HookApproves, TypeOK
    <2>2. call[h[1]].amount \in Nat /\ call[h[1]].amount # 0
      BY <1>h, <2>1 DEF Call
    <2>3. open' < open
      BY <1>h, <2>1, <2>2 DEF Settled
    <2>4. pis[h[1]].debit \in Nat /\ open' \in Nat
      BY <1>h, <2>1, <2>2, SettledNat DEF Intent
    <2> QED  BY <1>h, <2>1, <2>3, <2>4
  <1>8. CASE HookTags(h)
    BY SMTT(40), <1>8, <1>h DEF HookTags, TypeOK, Call, Intent
  <1>9. CASE HookBooks(h)
    BY <1>9, <1>h DEF HookBooks, TypeOK, Call, Intent
  <1>10. CASE HookUnlocks(h)
    BY <1>10, <1>h DEF HookUnlocks, TypeOK, Call, Intent
  <1>11. CASE HookCallFails(h)
    BY <1>11, <1>h DEF HookCallFails, TypeOK, Call, Intent, Fails
  <1> QED
    BY <1>1, <1>2, <1>3, <1>4, <1>5, <1>6, <1>7, <1>8, <1>9, <1>10, <1>11 DEF HookWorks

\* Every step keeps it, if the invoice is not synchronised while a receipt is being booked.
LEMMA RemainderIsKept ==
    ASSUME PaymentsAssumption, "sync_between" \notin Mishap,
           TypeOK, LockOwned, IntentInv, Remainder, [Next]_vars
    PROVE  Remainder'
  <1>t. /\ open \in Nat /\ debit \in Nat /\ open' \in Nat /\ debit' \in Nat
        /\ \A p \in Payer : p \in Actor /\ Flow(p) /\ pis[p] \in Intent
        /\ \A h \in Hook : h \in Actor /\ h[1] \in Payer /\ h \notin Payer /\ HookFlow(h)
    <2>1. TypeOK'
      BY PayerType, HookType, OtherType DEF Next
    <2> QED  BY <2>1, HookParts, PayerIsActor, ActorsAssumption DEF TypeOK, IntentInv
  <1>b. /\ \A p \in Payer : at[p] = "approve" => Blocks(p)
        /\ \A h \in Hook : at[h] \in HookMoved => Blocks(h)
    BY Holdings DEF Blocks, Moved
  <1>1. ASSUME NEW p \in Payer, Read(p) \/ PayerWorks(p) PROVE Remainder'
    <2>1. /\ Priced(p)' /\ Outdated(p)' /\ debit' = debit /\ open' <= open
          /\ open' # open => at[p] = "approve"
      BY <1>1, <1>t, PayerLeavesRemainder DEF Remainder
    <2>2. PayerFrame(p)
      BY <1>1, PayerKeepsOthers
    <2>3. ASSUME NEW q \in Payer, q # p PROVE Priced(q)' /\ Outdated(q)'
      <3>1. /\ at'[q] = at[q] /\ call'[q] = call[q] /\ stripe'[q] = stripe[q]
            /\ pis'[q] = pis[q] /\ Priced(q) /\ Outdated(q)
        BY <2>2, <2>3 DEF PayerFrame, Remainder
      <3>2. at[q] = "approve" => open' = open
        BY <1>b, <1>t, <2>1, <2>3 DEF LockOwned
      <3>3. pis[q].debit \in Nat
        BY <1>t DEF Intent
      <3> QED  BY <1>t, <2>1, <3>1, <3>2, <3>3 DEF Priced, Outdated
    <2>4. ASSUME NEW h \in Hook PROVE Behind(h)'
      <3>1. at'[h] = at[h] /\ Behind(h)
        BY <1>t, <2>2 DEF PayerFrame, Remainder
      <3>2. at[h] = "hook_approve" => open' = open
        BY <1>b, <1>t, <2>1 DEF LockOwned, HookMoved
      <3> QED  BY <1>t, <2>1, <3>1, <3>2 DEF Behind
    <2> QED  BY <1>t, <2>1, <2>3, <2>4 DEF Remainder
  <1>2. ASSUME NEW h \in Hook, Deliver(h) \/ HookWorks(h) PROVE Remainder'
    <2>1. /\ Behind(h)' /\ debit' = debit /\ open' <= open
          /\ open' # open => at[h] = "hook_approve"
          /\ pis'[h[1]].status # "none" => open' <= pis'[h[1]].debit
          /\ 0 < pis'[h[1]].received =>
                 /\ pis'[h[1]].status # "none"
                 /\ \/ open' < pis'[h[1]].debit
                    \/ at[h[1]] \in {"patch", "approve", "kept", "dead"}
      BY <1>2, <1>t, HookLeavesRemainder DEF Remainder
    <2>2. HookFrame(h)
      BY <1>2, HookKeepsOthers
    <2>3. ASSUME NEW q \in Payer PROVE Priced(q)' /\ Outdated(q)'
      <3>1. at'[q] = at[q] /\ call' = call /\ stripe' = stripe /\ Priced(q) /\ Outdated(q)
        BY <1>t, <2>2 DEF HookFrame, Remainder
      <3>2. at[q] = "approve" => open' = open
        BY <1>b, <1>t, <2>1 DEF LockOwned, HookMoved
      <3>3. pis[q].debit \in Nat
        BY <1>t DEF Intent
      <3>4. CASE q # h[1]
        BY <1>t, <2>1, <2>2, <3>1, <3>2, <3>3, <3>4 DEF Priced, Outdated, HookFrame
      <3>5. CASE q = h[1]
        BY <1>t, <2>1, <3>1, <3>2, <3>5 DEF Priced, Outdated
      <3> QED  BY <3>4, <3>5
    <2>4. ASSUME NEW i \in Hook, i # h PROVE Behind(i)'
      <3>1. at'[i] = at[i] /\ Behind(i)
        BY <1>t, <2>2, <2>4 DEF HookFrame, Remainder
      <3>2. at[i] = "hook_approve" => open' = open
        BY <1>b, <1>t, <2>1, <2>4 DEF LockOwned, HookMoved
      <3> QED  BY <1>t, <2>1, <3>1, <3>2 DEF Behind
    <2> QED  BY <1>t, <2>1, <2>3, <2>4 DEF Remainder
  <1>3. CASE \/ \E p \in Payer : SettleDebit(p)
             \/ \E a \in Actor : Crash(a)
             \/ UNCHANGED vars
    <2>1. UNCHANGED <<debit, pis, open, call>>
      BY <1>3 DEF SettleDebit, Crash, vars, docVars, priorityVars
    <2>2. \A a \in Actor : at'[a] = at[a] \/ at'[a] \in {"dead", "lost"}
      BY <1>3 DEF SettleDebit, Crash, vars, TypeOK
    <2>3. \A p \in Payer : stripe'[p] = stripe[p] \/ stripe[p] = "processing"
      BY <1>3 DEF SettleDebit, Crash, vars, stripeVars, TypeOK
    <2>4. \A p \in Payer : at'[p] = "lost" => at[p] # "patch" /\ at[p] # "approve"
                                                /\ at[p] # "kept" /\ at[p] # "dead"
      BY <1>3, <1>t DEF SettleDebit, Crash, vars, TypeOK, Holds, Holding, Moved, Ended
    <2>5. \A p \in Payer : Priced(p)' /\ Outdated(p)'
      BY <1>t, <2>1, <2>2, <2>3, <2>4 DEF Remainder, Priced, Outdated
    <2>6. \A h \in Hook : Behind(h)'
      BY <1>t, <2>1, <2>2 DEF Remainder, Behind
    <2> QED  BY <2>1, <2>5, <2>6 DEF Remainder
  <1>4. CASE Synchronise
    <2>1. /\ open <= debit' /\ UNCHANGED <<pis, open, call, at, stripe>>
          /\ \A h \in Hook : at[h] \notin {"hook_tag", "hook_book"}
      BY <1>4, <1>t, PaymentsAssumption DEF Synchronise, stripeVars, priorityVars, TypeOK
    <2>2. \A p \in Payer : Priced(p)' /\ Outdated(p)'
      BY <2>1 DEF Remainder, Priced, Outdated
    <2>3. \A h \in Hook : Behind(h)'
      BY <2>1 DEF Remainder, Behind
    <2> QED  BY <1>t, <2>1, <2>2, <2>3 DEF Remainder
  <1> QED  BY <1>1, <1>2, <1>3, <1>4 DEF Next

\* What is left of an invoice can be paid, after any payments, by anyone, whatever fails:
\* the check on the amount (IsValidAmount) agrees with Priority as soon as nothing is under
\* way and the document shows the balance.  It does not if the invoice is synchronised
\* between the approval of a receipt and the transaction that books it.
THEOREM WhatIsLeftIsPayable ==
    ASSUME IsFiniteSet(Payer), "sync_between" \notin Mishap
    PROVE  Spec => []RemainderPayable
  <1>1. Init => Remainder
    <2>1. ASSUME Init PROVE Remainder
      <3>1. /\ open = Total /\ debit = Total /\ Total \in Nat
            /\ \A p \in Payer : /\ at[p] = "idle" /\ stripe[p] = "none"
                                 /\ pis[p].status = "none" /\ pis[p].received = 0
            /\ \A h \in Hook : at[h] = "idle"
        BY <2>1, PaymentsAssumption DEF Init, NoIntents, NoIntent, Actor
      <3> QED  BY <3>1 DEF Remainder, Priced, Outdated, Behind
    <2> QED  BY <2>1
  <1>2. TypeOK /\ LockOwned /\ IntentInv /\ Remainder /\ [Next]_vars => Remainder'
    BY RemainderIsKept, PaymentsAssumption
  <1>3. TypeOK /\ LockOwned /\ Remainder => RemainderPayable
    <2> SUFFICES ASSUME TypeOK, LockOwned, Remainder, ~locked, debit = open, open > 0,
                        \A p \in Payer : pis[p].status # "processing"
                 PROVE  IsValidAmount(pis, debit, open, open)
      BY DEF RemainderPayable
    <2> DEFINE S == {p \in Payer : pis[p].status \in {"succeeded", "requires_capture"}
                                     /\ pis[p].debit = debit}
    <2>1. \A p \in S : pis[p].received = 0
      <3> SUFFICES ASSUME NEW p \in S, pis[p].received # 0
                   PROVE  FALSE
        OBVIOUS
      <3>1. 0 < pis[p].received /\ pis[p].debit \in Nat /\ open \in Nat
        BY DEF TypeOK, Intent
      <3>2. ~Blocks(p)
        BY PayerIsActor DEF LockOwned
      <3>3. at[p] \notin {"patch", "approve", "kept", "dead"}
        BY <3>2, Holdings DEF Blocks, Moved
      <3>4. open < pis[p].debit
        BY <3>1, <3>3 DEF Remainder, Outdated
      <3> QED  BY <3>1, <3>4
    <2>2. Received(pis, debit) = 0
      <3>1. IsFiniteSet(S)
        BY FS_Subset
      <3>2. \A p \in S : Gained(pis)[p] = 0
        BY <2>1 DEF Gained
      <3>3. Received(pis, debit) = SumOver(Gained(pis), S)
        BY ReceivedSum
      <3> HIDE DEF S
      <3> QED  BY <3>1, <3>2, <3>3, SumOfZeros
    <2>3. Processing(pis) = 0
      <3>1. {p \in Payer : pis[p].status = "processing"} = {}
        OBVIOUS
      <3>2. Processing(pis) = SumOver(Owed(pis), {})
        BY <3>1, ProcessingSum
      <3> QED  BY <3>2, FS_EmptySet, SumOfZeros
    <2>4. open \in Nat /\ debit \in Nat
      BY DEF TypeOK
    <2> QED  BY <2>2, <2>3, <2>4 DEF IsValidAmount
  <1> QED  BY <1>1, <1>2, <1>3, TypeCorrect, LockIsOwned, IntentsAreKept, PTL DEF Spec

=============================================================================
