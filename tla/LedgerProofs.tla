---------------------------- MODULE LedgerProofs ----------------------------
(***************************************************************************)
(* Safety of the paper ledger, for any number of matches, versions and     *)
(* ledger processes, any books and beliefs, any stake rule: its types, the *)
(* invariant LedgerInv and what follows from it, and what a single ledger  *)
(* process adds.                                                           *)
(***************************************************************************)
EXTENDS LedgerProps, FiniteSetTheorems, WellFoundedInduction, TLAPS

-----------------------------------------------------------------------------
(* Sums.  SumFunction adds the values of a function over its finite domain *)
(* in an order nobody chose: its recursion takes out one element at a time. *)

\* Induction on the naturals, of a set.
LEMMA Counting ==
  ASSUME NEW P \in SUBSET Nat, 0 \in P, \A n \in P : n + 1 \in P
  PROVE  P = Nat
<1> SUFFICES ASSUME Nat \ P # {} PROVE FALSE
  OBVIOUS
<1> DEFINE Left == Nat \ P
<1>1. PICK n \in Left : \A k \in Left : ~ (<<k, n>> \in OpToRel(<, Nat))
  <2>1. Left \subseteq Nat /\ Left # {}
    OBVIOUS
  <2> HIDE DEF Left
  <2> QED BY <2>1, NatLessThanWellFounded, WFMin
<1>2. n - 1 \in Nat /\ n - 1 < n
  OBVIOUS
<1>3. <<n - 1, n>> \in OpToRel(<, Nat)
  BY <1>2 DEF OpToRel
<1>4. n - 1 \in P
  BY <1>1, <1>2, <1>3
<1>5. (n - 1) + 1 \in P /\ (n - 1) + 1 = n
  BY <1>2, <1>4
<1> QED BY <1>1, <1>5

\* Induction on the subsets of a finite set.
LEMMA Growing ==
  ASSUME NEW U, IsFiniteSet(U), NEW P \in SUBSET SUBSET U,
         \A s \in SUBSET U : (\A x \in s : s \ {x} \in P) => s \in P
  PROVE  P = SUBSET U
<1> DEFINE Q == {n \in Nat : \A s \in SUBSET U : Cardinality(s) = n => s \in P}
<1>0. \A s \in SUBSET U : IsFiniteSet(s) /\ Cardinality(s) \in Nat
  BY FS_Subset, FS_CardinalityType
<1>1. 0 \in Q
  <2>1. {} \in P
    OBVIOUS
  <2>2. \A s \in SUBSET U : Cardinality(s) = 0 => s = {}
    BY <1>0, FS_EmptySet
  <2> QED BY <2>1, <2>2
<1>2. ASSUME NEW n \in Q PROVE n + 1 \in Q
  <2> SUFFICES ASSUME NEW s \in SUBSET U, Cardinality(s) = n + 1, NEW x \in s
               PROVE  s \ {x} \in P
    OBVIOUS
  <2>1. Cardinality(s \ {x}) = Cardinality(s) - 1
    BY <1>0, FS_RemoveElement
  <2>2. Cardinality(s \ {x}) = n
    BY <2>1
  <2> QED BY <2>2
<1>3. Q = Nat
  <2>1. Q \in SUBSET Nat
    OBVIOUS
  <2> HIDE DEF Q
  <2> QED BY <1>1, <1>2, <2>1, Counting
<1> QED BY <1>3, <1>0

\* The partial sums SumFunctionOnSet is defined by.
Pick(s) == CHOOSE x \in s : TRUE
IsPartial(iter, f, sets) ==
  iter = [s \in sets |-> IF s = {} THEN 0 ELSE f[Pick(s)] + iter[s \ {Pick(s)}]]
Partial(f, U) == CHOOSE iter : IsPartial(iter, f, SUBSET U)

\* A sum over a set is the last of its partial sums.
LEMMA Unfold == ASSUME NEW f, NEW U PROVE SumFunctionOnSet(f, U) = Partial(f, U)[U]
BY DEF SumFunctionOnSet, FoldFunctionOnSet, MapThenFoldSet, Partial, IsPartial, Pick

\* The partial sums of a function over a finite set are well defined.
LEMMA PartialSums ==
  ASSUME NEW f, NEW U, IsFiniteSet(U)
  PROVE  IsPartial(Partial(f, U), f, SUBSET U)
<1> DEFINE Small(n) == {s \in SUBSET U : Cardinality(s) <= n}
           P == {n \in Nat : \E iter : IsPartial(iter, f, Small(n))}
<1>0. \A s \in SUBSET U : IsFiniteSet(s) /\ Cardinality(s) \in Nat
  BY FS_Subset, FS_CardinalityType
<1>1. 0 \in P
  <2>1. \A s \in Small(0) : s = {}
    BY <1>0, FS_EmptySet
  <2>2. IsPartial([s \in Small(0) |-> 0], f, Small(0))
    BY <2>1 DEF IsPartial
  <2> QED BY <2>2
<1>2. ASSUME NEW n \in P PROVE n + 1 \in P
  <2>1. PICK iter : IsPartial(iter, f, Small(n))
    OBVIOUS
  <2> DEFINE next == [s \in Small(n + 1) |->
                        IF s = {} THEN 0 ELSE f[Pick(s)] + iter[s \ {Pick(s)}]]
  <2>2. \A s \in Small(n) : s \in Small(n + 1) /\ iter[s] = next[s]
    <3>1. \A s \in Small(n) : s \in Small(n + 1)
      BY <1>0
    <3>2. iter = [s \in Small(n) |-> IF s = {} THEN 0 ELSE f[Pick(s)] + iter[s \ {Pick(s)}]]
      BY <2>1 DEF IsPartial
    <3> HIDE DEF Small
    <3> QED BY <3>1, <3>2
  <2>3. ASSUME NEW s \in Small(n + 1), s # {} PROVE s \ {Pick(s)} \in Small(n)
    <3>1. Pick(s) \in s
      BY <2>3 DEF Pick
    <3>2. Cardinality(s \ {Pick(s)}) = Cardinality(s) - 1
      BY <1>0, <3>1, FS_RemoveElement
    <3> QED BY <1>0, <3>2
  <2>4. \A s \in Small(n + 1) :
          next[s] = IF s = {} THEN 0 ELSE f[Pick(s)] + next[s \ {Pick(s)}]
    BY <2>2, <2>3
  <2>5. IsPartial(next, f, Small(n + 1))
    BY <2>4 DEF IsPartial
  <2>6. \E it : IsPartial(it, f, Small(n + 1))
    <3> HIDE DEF next, Small
    <3> QED BY <2>5
  <2>7. n + 1 \in Nat
    OBVIOUS
  <2> HIDE DEF Small
  <2> QED BY <2>6, <2>7
<1>3. P = Nat
  <2>1. P \in SUBSET Nat
    OBVIOUS
  <2> HIDE DEF P
  <2> QED BY <1>1, <1>2, <2>1, Counting
<1>4. Cardinality(U) \in Nat /\ Small(Cardinality(U)) = SUBSET U
  BY <1>0, FS_Subset, FS_CardinalityType
<1>5. \E iter : IsPartial(iter, f, SUBSET U)
  BY <1>3, <1>4
<1> QED BY <1>5 DEF Partial

\* What identifies the sum of weights over the parts of a set.
Sums(A, f, U) ==
  /\ A \in [SUBSET U -> Int]
  /\ A[{}] = 0
  /\ \A s \in SUBSET U : \A x \in s : A[s] = f[x] + A[s \ {x}]

\* SumFunction is the sum over the whole domain.
LEMMA PartialIsSum ==
  ASSUME NEW U, IsFiniteSet(U), NEW f \in [U -> Int]
  PROVE  Sums(Partial(f, U), f, U)
<1> DEFINE A == Partial(f, U)
<1>1. A = [s \in SUBSET U |-> IF s = {} THEN 0 ELSE f[Pick(s)] + A[s \ {Pick(s)}]]
  <2>1. IsPartial(A, f, SUBSET U)
    BY PartialSums
  <2> HIDE DEF A
  <2> QED BY <2>1 DEF IsPartial
<1>2. \A s \in SUBSET U : s # {} => Pick(s) \in s
  BY DEF Pick
<1> HIDE DEF A
<1>3. \A s \in SUBSET U : A[s] \in Int
  <2> DEFINE P == {s \in SUBSET U : A[s] \in Int}
  <2>1. ASSUME NEW s \in SUBSET U, \A x \in s : s \ {x} \in P PROVE s \in P
    <3>1. CASE s = {}
      BY <1>1, <3>1
    <3>2. CASE s # {}
      <4>1. A[s] = f[Pick(s)] + A[s \ {Pick(s)}]
        BY <1>1, <3>2
      <4>2. f[Pick(s)] \in Int /\ A[s \ {Pick(s)}] \in Int
        BY <1>2, <2>1, <3>2
      <4> QED BY <4>1, <4>2
    <3> QED BY <3>1, <3>2
  <2>2. P \in SUBSET SUBSET U
    OBVIOUS
  <2> HIDE DEF P
  <2>3. P = SUBSET U
    BY <2>1, <2>2, Growing
  <2> QED BY <2>3 DEF P
<1>4. \A s \in SUBSET U : \A x \in s : A[s] = f[x] + A[s \ {x}]
  <2> DEFINE P == {s \in SUBSET U : \A x \in s : A[s] = f[x] + A[s \ {x}]}
  <2>1. ASSUME NEW s \in SUBSET U, \A x \in s : s \ {x} \in P PROVE s \in P
    <3> SUFFICES ASSUME NEW x \in s PROVE A[s] = f[x] + A[s \ {x}]
      OBVIOUS
    <3> DEFINE y == Pick(s)
    <3>1. y \in s /\ A[s] = f[y] + A[s \ {y}]
      BY <1>1, <1>2
    <3> HIDE DEF y
    <3>2. CASE x # y
      <4>1. A[s \ {y}] = f[x] + A[(s \ {y}) \ {x}]
        BY <2>1, <3>1, <3>2
      <4>2. A[s \ {x}] = f[y] + A[(s \ {x}) \ {y}]
        BY <2>1, <3>1, <3>2
      <4>3. (s \ {y}) \ {x} = (s \ {x}) \ {y}
        OBVIOUS
      <4>4. /\ f[x] \in Int /\ f[y] \in Int /\ A[(s \ {x}) \ {y}] \in Int
            /\ A[s \ {x}] \in Int /\ A[s \ {y}] \in Int /\ A[s] \in Int
        BY <1>3, <3>1
      <4>5. A[s] = f[y] + (f[x] + A[(s \ {x}) \ {y}])
        BY <3>1, <4>1, <4>3
      <4>6. f[x] + A[s \ {x}] = f[x] + (f[y] + A[(s \ {x}) \ {y}])
        BY <4>2
      <4> QED BY <4>4, <4>5, <4>6
    <3> QED BY <3>1, <3>2
  <2>2. P \in SUBSET SUBSET U
    OBVIOUS
  <2> HIDE DEF P
  <2>3. P = SUBSET U
    BY <2>1, <2>2, Growing
  <2> QED BY <2>3 DEF P
<1>5. A[{}] = 0 /\ A \in [SUBSET U -> Int]
  BY <1>1, <1>3
<1> QED BY <1>4, <1>5 DEF A, Sums

\* Nothing else satisfies it: the sum over a part is the sum of that part.
LEMMA SumOfPart ==
  ASSUME NEW U, IsFiniteSet(U), NEW f \in [U -> Int], NEW A, Sums(A, f, U),
         NEW S \in SUBSET U, NEW g, DOMAIN g = S, \A x \in S : g[x] = f[x]
  PROVE  SumFunction(g) = A[S]
<1>1. IsFiniteSet(S)
  BY FS_Subset
<1> DEFINE B == Partial(g, S)
<1>2. B = [s \in SUBSET S |-> IF s = {} THEN 0 ELSE g[Pick(s)] + B[s \ {Pick(s)}]]
  <2>1. IsPartial(B, g, SUBSET S)
    BY <1>1, PartialSums
  <2> HIDE DEF B
  <2> QED BY <2>1 DEF IsPartial
<1>3. SumFunction(g) = B[S]
  BY Unfold DEF SumFunction
<1> HIDE DEF B
<1>4. \A s \in SUBSET S : s # {} => Pick(s) \in s
  BY DEF Pick
<1> DEFINE P == {s \in SUBSET S : B[s] = A[s]}
<1>5. ASSUME NEW s \in SUBSET S, \A x \in s : s \ {x} \in P PROVE s \in P
  <2>1. CASE s = {}
    BY <1>2, <2>1 DEF Sums
  <2>2. CASE s # {}
    <3>1. B[s] = g[Pick(s)] + B[s \ {Pick(s)}] /\ Pick(s) \in s
      BY <1>2, <1>4, <2>2
    <3>2. A[s] = f[Pick(s)] + A[s \ {Pick(s)}]
      BY <3>1 DEF Sums
    <3> QED BY <1>5, <3>1, <3>2
  <2> QED BY <2>1, <2>2
<1>6. P \in SUBSET SUBSET S
  OBVIOUS
<1> HIDE DEF P
<1>7. P = SUBSET S
  BY <1>1, <1>5, <1>6, Growing
<1> QED BY <1>3, <1>7 DEF P

\* Weights that are nothing outside a part add up to the sum over the part.
LEMMA SumExtends ==
  ASSUME NEW U, IsFiniteSet(U), NEW f \in [U -> Int],
         NEW S \in SUBSET U, NEW g, DOMAIN g = S, \A x \in S : g[x] = f[x],
         \A x \in U \ S : f[x] = 0
  PROVE  SumFunction(g) = SumFunction(f)
<1> DEFINE A == Partial(f, U)
<1>1. Sums(A, f, U)
  BY PartialIsSum
<1>2. SumFunction(g) = A[S] /\ SumFunction(f) = A[U]
  <2> HIDE DEF A
  <2>1. SumFunction(g) = A[S]
    BY <1>1, SumOfPart
  <2>2. SumFunction(f) = A[U]
    BY <1>1, SumOfPart
  <2> QED BY <2>1, <2>2
<1> HIDE DEF A
<1> DEFINE P == {s \in SUBSET U : A[s] = A[s \cap S]}
<1>3. ASSUME NEW s \in SUBSET U, \A x \in s : s \ {x} \in P PROVE s \in P
  <2>1. CASE s \subseteq S
    <3>1. s \cap S = s
      BY <2>1
    <3> QED BY <3>1
  <2>2. CASE ~(s \subseteq S)
    <3>1. PICK x \in s : x \notin S
      BY <2>2
    <3>2. A[s] = f[x] + A[s \ {x}] /\ f[x] = 0 /\ A[s \ {x}] \in Int
      BY <1>1, <3>1 DEF Sums
    <3>3. (s \ {x}) \cap S = s \cap S
      BY <3>1
    <3>4. A[s \ {x}] = A[(s \ {x}) \cap S]
      BY <1>3, <3>1
    <3> QED BY <3>2, <3>3, <3>4
  <2> QED BY <2>1, <2>2
<1>4. P \in SUBSET SUBSET U
  OBVIOUS
<1> HIDE DEF P
<1>5. P = SUBSET U
  BY <1>3, <1>4, Growing
<1>6. A[U] = A[U \cap S] /\ U \cap S = S
  BY <1>5 DEF P
<1> QED BY <1>2, <1>6

\* A sum is an integer, and weights add up element by element.
LEMMA SumAdds ==
  ASSUME NEW U, IsFiniteSet(U), NEW f \in [U -> Int], NEW g \in [U -> Int], NEW h \in [U -> Int],
         \A x \in U : h[x] = f[x] + g[x]
  PROVE  /\ SumFunction(f) \in Int /\ SumFunction(g) \in Int
         /\ SumFunction(h) = SumFunction(f) + SumFunction(g)
<1> DEFINE A == Partial(f, U)
           B == Partial(g, U)
           C == Partial(h, U)
<1>1. Sums(A, f, U) /\ Sums(B, g, U) /\ Sums(C, h, U)
  BY PartialIsSum
<1> HIDE DEF A, B, C
<1>2. SumFunction(f) = A[U] /\ SumFunction(g) = B[U] /\ SumFunction(h) = C[U]
  BY <1>1, SumOfPart
<1> DEFINE P == {s \in SUBSET U : C[s] = A[s] + B[s]}
<1>3. ASSUME NEW s \in SUBSET U, \A x \in s : s \ {x} \in P PROVE s \in P
  <2>1. CASE s = {}
    BY <1>1, <2>1 DEF Sums
  <2>2. CASE s # {}
    <3>1. PICK x \in s : TRUE
      BY <2>2
    <3>2. /\ A[s] = f[x] + A[s \ {x}] /\ B[s] = g[x] + B[s \ {x}] /\ C[s] = h[x] + C[s \ {x}]
          /\ A[s \ {x}] \in Int /\ B[s \ {x}] \in Int
      BY <1>1 DEF Sums
    <3>3. C[s \ {x}] = A[s \ {x}] + B[s \ {x}] /\ h[x] = f[x] + g[x] /\ f[x] \in Int /\ g[x] \in Int
      BY <1>3
    <3> QED BY <3>2, <3>3
  <2> QED BY <2>1, <2>2
<1>4. P \in SUBSET SUBSET U
  OBVIOUS
<1> HIDE DEF P
<1>5. P = SUBSET U
  BY <1>3, <1>4, Growing
<1>6. C[U] = A[U] + B[U]
  BY <1>5 DEF P
<1>7. A[U] \in Int /\ B[U] \in Int
  BY <1>1 DEF Sums
<1> QED BY <1>2, <1>6, <1>7

\* A sum of weights of at most n is at most n to an element, and one of
\* weights that are no debt is no debt.
LEMMA SumBounded ==
  ASSUME NEW U, IsFiniteSet(U), NEW f \in [U -> Int], NEW n \in Int,
         \A x \in U : 0 <= f[x] /\ f[x] <= n
  PROVE  0 <= SumFunction(f) /\ SumFunction(f) <= Cardinality(U) * n
<1> DEFINE A == Partial(f, U)
<1>1. Sums(A, f, U)
  BY PartialIsSum
<1> HIDE DEF A
<1>2. SumFunction(f) = A[U]
  BY <1>1, SumOfPart
<1> DEFINE P == {s \in SUBSET U : 0 <= A[s] /\ A[s] <= Cardinality(s) * n}
<1>0. \A s \in SUBSET U : IsFiniteSet(s) /\ Cardinality(s) \in Nat
  BY FS_Subset, FS_CardinalityType
<1>3. ASSUME NEW s \in SUBSET U, \A x \in s : s \ {x} \in P PROVE s \in P
  <2>1. CASE s = {}
    BY <1>1, <2>1, FS_EmptySet DEF Sums
  <2>2. CASE s # {}
    <3>1. PICK x \in s : TRUE
      BY <2>2
    <3>2. A[s] = f[x] + A[s \ {x}] /\ A[s \ {x}] \in Int
      BY <1>1 DEF Sums
    <3>3. 0 <= A[s \ {x}] /\ A[s \ {x}] <= Cardinality(s \ {x}) * n
      BY <1>3
    <3>4. Cardinality(s \ {x}) = Cardinality(s) - 1 /\ Cardinality(s) \in Nat
      BY <1>0, FS_RemoveElement
    <3>5. 0 <= f[x] /\ f[x] <= n /\ f[x] \in Int
      OBVIOUS
    <3>6. Cardinality(s \ {x}) * n = Cardinality(s) * n - n
      <4> DEFINE c == Cardinality(s)
      <4>1. c \in Int
        BY <3>4
      <4> HIDE DEF c
      <4>2. (c - 1) * n = c * n - n
        BY <4>1
      <4> QED BY <3>4, <4>2 DEF c
    <3>7. Cardinality(s) * n \in Int
      BY <3>4
    <3>8. 0 <= A[s] /\ A[s] <= Cardinality(s) * n
      <4> HIDE <1>3
      <4> DEFINE c == Cardinality(s) * n
      <4> HIDE DEF c, P
      <4>1. c \in Int /\ A[s \ {x}] <= c - n
        BY <3>3, <3>6, <3>7 DEF c
      <4> QED BY <3>2, <3>3, <3>5, <4>1 DEF c
    <3> QED BY <3>8
  <2> QED BY <2>1, <2>2
<1>4. P \in SUBSET SUBSET U
  OBVIOUS
<1> HIDE DEF P
<1>5. P = SUBSET U
  BY <1>3, <1>4, Growing
<1> QED BY <1>2, <1>5 DEF P

-----------------------------------------------------------------------------
(* Type correctness.                                                       *)

(* The latest element of a set of times: what the CHOOSE in Before picks.  *)
LEMMA LatestExists ==
  ASSUME NEW S, S \subseteq Time, S # {}
  PROVE  \E i \in S : \A j \in S : j <= i
<1> DEFINE D == {n \in Nat : \E i \in S : n = MaxTime - i}
<1> USE LedgerAssumption DEF Time
<1>1. D \subseteq Nat /\ D # {}
  <2>1. PICK i \in S : TRUE
    OBVIOUS
  <2>2. MaxTime - i \in D
    BY <2>1
  <2> QED BY <2>2
<1>2. \E x \in D : \A y \in D : ~ (<<y, x>> \in OpToRel(<, Nat))
  <2> HIDE DEF D
  <2> QED BY <1>1, NatLessThanWellFounded, WFMin
<1>3. PICK x \in D : \A y \in D : ~(y < x)
  BY <1>2, <1>1 DEF OpToRel
<1>4. PICK i \in S : x = MaxTime - i
  OBVIOUS
<1>5. \A j \in S : j <= i
  <2> SUFFICES ASSUME NEW j \in S PROVE j <= i
    OBVIOUS
  <2>1. MaxTime - j \in D
    OBVIOUS
  <2> QED BY <2>1, <1>3, <1>4
<1> QED BY <1>5

(* Before yields a quote of its line, or None.                             *)
LEMMA BeforeType ==
  ASSUME NEW B, NEW line \in [Time -> B \cup {None}], NEW cutoff
  PROVE  Before(line, cutoff) \in B \cup {None}
<1> DEFINE times == {i \in Time : i < cutoff /\ line[i] # None}
<1>1. CASE times = {}
  BY <1>1 DEF Before
<1>2. CASE times # {}
  <2>1. \E i \in times : \A j \in times : j <= i
    BY <1>2, LatestExists
  <2>2. (CHOOSE i \in times : \A j \in times : j <= i) \in Time
    BY <2>1
  <2> QED BY <2>2, <1>2 DEF Before
<1> QED BY <1>1, <1>2

-----------------------------------------------------------------------------
(* Settlement.                                                             *)

\* A dividend is a natural number.
LEMMA RoundDividendType ==
  ASSUME NEW h \in Nat, NEW tie \in BOOLEAN
  PROVE  RoundDividend(h, tie) \in Nat
<1>1. RoundCents(h, tie) \in Nat
  BY DEF RoundCents
<1> QED BY <1>1 DEF RoundDividend

SettledForm == [status : FinalStatus, payout : Nat]

(* Every bet is settled to a final status and a payout that is no debt.    *)
LEMMA SettleBetType ==
  ASSUME NEW b, b.stake \in Nat, b.odds \in Nat, b.line \in Int \cup {NoLine},
         NEW home \in Nat, NEW away \in Nat, NEW tie \in BOOLEAN
  PROVE  SettleBet(b, home, away, tie) \in SettledForm
<1> USE DEF SettledForm, FinalStatus
<1>1. /\ b.stake * b.odds \in Nat /\ 2 * b.stake * b.odds \in Nat
      /\ b.stake * 100 \in Nat /\ 10 * b.stake \in Nat
  OBVIOUS
<1>2. Won(b, tie) \in SettledForm
  BY <1>1, RoundDividendType DEF Won
<1>3. Push(b) \in SettledForm /\ Lost \in SettledForm
  BY <1>1 DEF Push, Lost
<1>4. SettleQuarter(b, home, away, tie) \in SettledForm
  <2>1. \A r1, r2 : HalfPayout(b, r1) + HalfPayout(b, r2) \in Nat
    <3>1. \A r : HalfPayout(b, r) \in Nat
      BY <1>1 DEF HalfPayout
    <3> QED BY <3>1
  <2>2. \A R : QuarterStatus(R) \in FinalStatus
    BY DEF QuarterStatus
  <2>3. \A r1, r2 : RoundDividend(HalfPayout(b, r1) + HalfPayout(b, r2), tie) \in Nat
    BY <2>1, RoundDividendType
  <2> QED BY <2>2, <2>3 DEF SettleQuarter
<1>5. SettleHandicap(b, home, away, tie) \in SettledForm
  BY <1>2, <1>3, <1>4 DEF SettleHandicap
<1>6. Settle1x2(b, home, away, tie) \in SettledForm
  BY <1>2, <1>3 DEF Settle1x2
<1> QED BY <1>5, <1>6 DEF SettleBet

-----------------------------------------------------------------------------
(* Type correctness.                                                       *)

USE LedgerAssumption, StakingAssumption

\* A book of either target is a quote.
LEMMA BookTypes ==
  /\ \A t \in Targets : Books(t) \subseteq Book
  /\ \A b \in HadBooks : b.line = NoLine /\ \A o \in Outcomes1x2 : b.odds[o] \in Nat
  /\ \A b \in HdcBooks : b.line \in Int /\ \A o \in OutcomesHandicap : b.odds[o] \in Nat
BY DEF Books, Book

(* The prior and the close of a target are books of that target.           *)
LEMMA PriorType ==
  ASSUME TypeOK, NEW t \in Targets, NEW m \in Match
  PROVE  /\ Prior(t, m) \in Books(t) \cup {None}
         /\ Close(t, m) \in Books(t) \cup {None}
<1>1. quotes[t][m] \in [Time -> Books(t) \cup {None}]
  BY DEF TypeOK, FedTypeOK
<1> QED BY <1>1, BeforeType DEF Prior, Close

\* What a selection names exists.
LEMMA SelectionFields ==
  ASSUME NEW s \in Selection
  PROVE  /\ s.match \in Match /\ s.target \in Targets /\ s.outcome \in Outcomes1x2
         /\ s.target = "handicap" => s.outcome \in OutcomesHandicap
         /\ s.target # "handicap" => s.target = "1x2"
BY DEF Selection, OutcomesOf

\* A settled bet is a bet.
LEMMA SettledBetType ==
  ASSUME TypeOK, NEW s \in Due, NEW tie \in BOOLEAN
  PROVE  SettledBet(s, tie) \in Bet
<1>1. /\ s \in Selection /\ book[s] \in Bet /\ result[s.match] \in Result
  BY SelectionFields DEF Due, Open, Placed, TypeOK, FedTypeOK, OwnTypeOK
<1> DEFINE r == result[s.match]
           b == [target |-> s.target, outcome |-> s.outcome, line |-> book[s].line,
                 odds |-> book[s].odds, stake |-> book[s].stake]
           paid == SettleBet(b, r.home, r.away, tie)
<1>2. paid \in SettledForm
  <2>1. /\ b.stake \in Nat /\ b.odds \in Nat /\ b.line \in Int \cup {NoLine}
        /\ r.home \in Nat /\ r.away \in Nat
    BY <1>1 DEF Bet, Result
  <2> HIDE DEF b, r
  <2> QED BY <2>1, SettleBetType
<1>3. clock \in Time /\ r.source \in Sources
  BY <1>1 DEF TypeOK, FedTypeOK, Result
<1>4. SettledBet(s, tie) = [book[s] EXCEPT !.status = paid.status, !.payout = paid.payout,
                                           !.settledAt = clock, !.source = r.source]
  BY DEF SettledBet
<1> HIDE DEF paid
<1> QED BY <1>1, <1>2, <1>3, <1>4 DEF Bet, SettledForm

(* A stake worth placing is a natural number between the minimum and the cap. *)
LEMMA SizeStakeType ==
  ASSUME NEW bank \in Int, NEW prob \in Nat, NEW price \in Nat,
         WorthPlacing(bank, prob, price)
  PROVE  /\ SizeStake(bank, prob, price) \in Nat
         /\ SizeStake(bank, prob, price) >= MinStake
         /\ SizeStake(bank, prob, price) <= Cap(bank)
<1>1. price > 100
  BY DEF WorthPlacing, KellyPositive
<1>2. KellyEdge(prob, price) \in Int /\ KellyScale(price) \in Nat \ {0}
  BY <1>1 DEF KellyEdge, KellyScale
<1>3. Cap(bank) \in Int
  <2>1. 10 * CapDen \in Nat \ {0} /\ CapNum * bank \in Int
    OBVIOUS
  <2> QED BY <2>1 DEF Cap
<1>4. RawStake(bank, prob, price) \in Int
  <2>1. 10 * KellyScale(price) * KellyDen \in Nat \ {0}
    BY <1>2
  <2>2. bank * KellyEdge(prob, price) * KellyNum \in Int
    BY <1>2
  <2> QED BY <2>1, <2>2 DEF RawStake
<1>5. /\ SizeStake(bank, prob, price) \in Int
      /\ SizeStake(bank, prob, price) <= Cap(bank)
  BY <1>3, <1>4 DEF SizeStake
<1>6. SizeStake(bank, prob, price) >= MinStake
  BY DEF WorthPlacing
<1> QED BY <1>5, <1>6

(* What place_bets writes for a selection.                                 *)
SlipOf(s, b, bank, now) ==
  /\ b \in Bet
  /\ b.target = s.target /\ b.outcome = s.outcome
  /\ b.bank = bank /\ b.placedAt = now /\ b.status = "pending"
  /\ b.stake >= MinStake /\ b.stake <= Cap(bank)

\* The price a candidate is offered at is a price.
LEMMA OfferType ==
  ASSUME TypeOK, NEW s \in Candidates
  PROVE  LET sig   == signal[champion[s.target]][s]
             offer == Offer(s, sig)
         IN  /\ s \in Selection /\ champion[s.target] \in Version
             /\ sig.prob \in Nat /\ sig.odds \in Nat
             /\ offer # None => offer.line \in Int \cup {NoLine} /\ offer.odds \in Nat
<1> DEFINE sig   == signal[champion[s.target]][s]
           offer == Offer(s, sig)
<1>1. /\ s \in Selection /\ champion[s.target] \in Version /\ sig \in Signal
      /\ sig.prob \in Nat /\ sig.odds \in Nat
  BY SelectionFields DEF Candidates, TypeOK, FedTypeOK, Signal
<1>2. ASSUME offer # None
      PROVE  offer.line \in Int \cup {NoLine} /\ offer.odds \in Nat
  <2>1. CASE s.target = "handicap"
    <3>1. Prior(s.target, s.match) # None
      BY <1>2, <2>1 DEF Offer
    <3>2. Prior(s.target, s.match) \in HdcBooks
      BY <3>1, <1>1, <2>1, PriorType, SelectionFields DEF Books
    <3>3. offer = [line |-> Prior(s.target, s.match).line, odds |-> sig.odds]
      BY <2>1, <1>2 DEF Offer
    <3> QED BY <3>2, <3>3, <1>1, BookTypes
  <2>2. CASE s.target # "handicap"
    <3>1. Close(s.target, s.match) # None
      BY <1>2, <2>2 DEF Offer
    <3>2. Close(s.target, s.match) \in HadBooks
      BY <3>1, <1>1, <2>2, PriorType, SelectionFields DEF Books
    <3>3. offer = [line |-> NoLine, odds |-> Close(s.target, s.match).odds[s.outcome]]
      BY <2>2, <1>2 DEF Offer
    <3> QED BY <3>2, <3>3, <1>1, BookTypes, SelectionFields
  <2> QED BY <2>1, <2>2
<1> QED BY <1>1, <1>2

\* A candidate that place_bets skips: no price, or not worth a bet.
Declined(s, bank) ==
  LET sig   == signal[champion[s.target]][s]
      offer == Offer(s, sig)
  IN  offer = None \/ ~WorthPlacing(bank, sig.prob, offer.odds)

\* place_bets writes a bet, or declines for want of an offer or of value.
LEMMA SlipType ==
  ASSUME TypeOK, NEW s \in Candidates, NEW bank \in Int, NEW now \in Time
  PROVE  \/ Slip(s, bank, now) = None /\ Declined(s, bank)
         \/ SlipOf(s, Slip(s, bank, now), bank, now)
<1> DEFINE v     == champion[s.target]
           sig   == signal[v][s]
           offer == Offer(s, sig)
           stake == SizeStake(bank, sig.prob, offer.odds)
<1>1. /\ s \in Selection /\ v \in Version /\ sig.prob \in Nat /\ sig.odds \in Nat
      /\ offer # None => offer.line \in Int \cup {NoLine} /\ offer.odds \in Nat
  BY OfferType
<1>2. CASE Declined(s, bank)
  BY <1>2 DEF Slip, Declined
<1>3. CASE ~Declined(s, bank)
  <2>1. offer # None /\ WorthPlacing(bank, sig.prob, offer.odds)
    BY <1>3 DEF Declined
  <2>2. stake \in Nat /\ stake >= MinStake /\ stake <= Cap(bank)
    BY <1>1, <2>1, SizeStakeType
  <2>3. Slip(s, bank, now) =
          [target |-> s.target, outcome |-> s.outcome, version |-> v,
           line |-> offer.line, odds |-> offer.odds, stake |-> stake,
           bank |-> bank, placedAt |-> now, status |-> "pending", payout |-> 0,
           settledAt |-> None, source |-> None]
    BY <2>1 DEF Slip
  <2> HIDE DEF stake, offer, sig, v
  <2> QED BY <1>1, <2>1, <2>2, <2>3, SelectionFields DEF SlipOf, Bet
<1> QED BY <1>2, <1>3

\* The fields of the run in progress.
LEMMA RunFields ==
  ASSUME TypeOK, NEW p \in Proc
  PROVE  /\ tx[p] \in Run
         /\ tx[p].pc \in PC /\ tx[p].started \in Time
         /\ tx[p].realized \in Int /\ tx[p].bank \in Int
         /\ tx[p].settled \in [Selection -> Bet \cup {None}]
         /\ tx[p].placed \in [Selection -> Bet \cup {None}]
BY DEF TypeOK, OwnTypeOK, Run

\* A run keeps its type when one of its fields changes.
LEMMA RunUpdates ==
  \A r \in Run :
    /\ \A a \in PC : \A n \in Int :
         /\ [r EXCEPT !.pc = a, !.realized = n] \in Run
         /\ [r EXCEPT !.pc = a, !.bank = n] \in Run
    /\ \A a \in PC : \A u \in [Selection -> Bet \cup {None}] :
         [r EXCEPT !.pc = a, !.placed = u] \in Run
    /\ \A a \in PC : \A i \in Time : \A u \in [Selection -> Bet \cup {None}] :
         [r EXCEPT !.pc = a, !.started = i, !.settled = u] \in Run
<1> HIDE LedgerAssumption, StakingAssumption
<1> DEFINE W == [Selection -> Bet \cup {None}]
<1> HIDE DEF W
<1>1. \A r \in Run :
        /\ \A a \in PC : \A n \in Int :
             /\ [r EXCEPT !.pc = a, !.realized = n] \in Run
             /\ [r EXCEPT !.pc = a, !.bank = n] \in Run
        /\ \A a \in PC : \A u \in W : [r EXCEPT !.pc = a, !.placed = u] \in Run
        /\ \A a \in PC : \A i \in Time : \A u \in W :
             [r EXCEPT !.pc = a, !.started = i, !.settled = u] \in Run
  BY DEF Run, W
<1> QED BY ONLY <1>1 DEF W

\* An idle process has a run of the right type.
LEMMA NoRunType == NoRun \in Run
BY DEF NoRun, Run, Unchanged, PC, Time

\* What a run reads is a table of bets.
LEMMA ViewType ==
  ASSUME TypeOK, NEW p \in Proc
  PROVE  View(p) \in [Selection -> Bet \cup {None}]
<1>1. book \in [Selection -> Bet \cup {None}]
  BY DEF TypeOK, OwnTypeOK
<1> QED BY <1>1, RunFields DEF View

(* The values a step of a run gives to tx[p].                              *)
LEMMA SettleReadRun ==
  ASSUME TypeOK, NEW p \in Proc, NEW tie \in BOOLEAN
  PROVE  [NoRun EXCEPT !.pc = "settle", !.started = clock,
            !.settled = [s \in Selection |->
                           IF s \in Due THEN SettledBet(s, tie) ELSE None]] \in Run
<1> DEFINE upd == [s \in Selection |-> IF s \in Due THEN SettledBet(s, tie) ELSE None]
<1>1. upd \in [Selection -> Bet \cup {None}]
  BY SettledBetType
<1>2. clock \in Time /\ "settle" \in PC
  BY DEF TypeOK, FedTypeOK, PC
<1> HIDE DEF upd
<1>3. [NoRun EXCEPT !.pc = "settle", !.started = clock, !.settled = upd] \in Run
  BY ONLY <1>1, <1>2, RunUpdates, NoRunType
<1> QED BY ONLY <1>3 DEF upd

\* What a run inserts is a table of bets.
LEMMA SlipsType ==
  ASSUME TypeOK, NEW bets, NEW bank \in Int, NEW now \in Time
  PROVE  /\ Slips(bets, bank, now) \in [Selection -> Bet \cup {None}]
         /\ \A s \in Placed(Slips(bets, bank, now)) :
              bets[s] = None /\ SlipOf(s, Slips(bets, bank, now)[s], bank, now)
BY SlipType DEF Slips, SlipOf, Placed

(* A step that leaves the tables of the other jobs alone, and one that     *)
(* leaves the ledger alone.                                                *)
LEMMA FedUnchanged ==
  FedTypeOK /\ UNCHANGED <<clock, fed>> => FedTypeOK'
BY DEF FedTypeOK, fed

\* A step that leaves the ledger alone keeps its types.
LEMMA OwnUnchanged ==
  OwnTypeOK /\ UNCHANGED own /\ stable' \in BOOLEAN => OwnTypeOK'
BY DEF OwnTypeOK, own

\* A pool that is stored stays a pool of its target.
LEMMA UpsertType ==
  ASSUME NEW B, NEW line \in [Time -> B \cup {None}], NEW at, NEW b \in B \cup {None}
  PROVE  Upsert(line, at, b) \in [Time -> B \cup {None}]
BY DEF Upsert

\* The other jobs keep the types, and touch nothing of the ledger.
LEMMA FeedsType ==
  ASSUME TypeOK, Feeds
  PROVE  FedTypeOK' /\ UNCHANGED own /\ (stable' = FALSE \/ StartFetch) /\ stable' \in BOOLEAN
<1>1. ASSUME NEW shown \in [Targets -> [Match -> Book \cup {None}]], StoreOdds(shown)
      PROVE  FedTypeOK' /\ UNCHANGED own /\ stable' = FALSE
  <2> DEFINE new(t, m) == Upsert(quotes[t][m], fetch, shown[t][m])
  <2>1. quotes' = [t \in Targets |-> [m \in Match |-> new(t, m)]]
    BY <1>1 DEF StoreOdds
  <2>2. ASSUME NEW t \in Targets, NEW m \in Match
        PROVE  new(t, m) \in [Time -> Book \cup {None}] /\ new(t, m) \in [Time -> Books(t) \cup {None}]
    <3>1. /\ shown[t][m] \in Books(t) \cup {None} /\ shown[t][m] \in Book \cup {None}
          /\ quotes[t][m] \in [Time -> Books(t) \cup {None}]
          /\ quotes[t][m] \in [Time -> Book \cup {None}]
      BY <1>1 DEF StoreOdds, TypeOK, FedTypeOK
    <3> QED BY <3>1, UpsertType
  <2> HIDE DEF new
  <2>3. /\ quotes' \in [Targets -> [Match -> [Time -> Book \cup {None}]]]
        /\ \A t \in Targets : quotes'[t] \in [Match -> [Time -> Books(t) \cup {None}]]
    BY <2>1, <2>2
  <2>4. fetch' \in Time \cup {None} /\ shifted' \subseteq Match
    BY <1>1 DEF StoreOdds, TypeOK, FedTypeOK
  <2> QED BY <1>1, <2>3, <2>4 DEF StoreOdds, TypeOK, FedTypeOK
<1>2. ASSUME PredictUpcoming
      PROVE  FedTypeOK' /\ UNCHANGED own /\ stable' = FALSE
  <2> PICK belief \in [Match -> Beliefs1x2 \X BeliefsHdc] : signal' = Predicted(belief)
    BY <1>2 DEF PredictUpcoming
  <2>1. ASSUME NEW s \in Selection, Serves(s)
        PROVE  NewSignal(s, Prob(belief, s)) \in Signal \cup {None}
    <3> DEFINE prob  == Prob(belief, s)
               prior == Prior(s.target, s.match)
    <3>1. prob \in Nat
      <4>1. /\ belief[s.match][1] \in [Outcomes1x2 -> 0 .. 100]
            /\ belief[s.match][2] \in [OutcomesHandicap -> 0 .. 100]
        BY SelectionFields
      <4> DEFINE had == belief[s.match][1]
                 hdc == belief[s.match][2]
      <4>2. prob = IF s.target = "handicap" THEN hdc[s.outcome] ELSE had[s.outcome]
        BY DEF Prob
      <4> HIDE DEF had, hdc, prob
      <4>3. \A i \in 0 .. 100 : i \in Nat
        OBVIOUS
      <4> QED BY <4>1, <4>2, <4>3, SelectionFields DEF had, hdc
    <3>2. CASE prior = None
      BY <3>2 DEF NewSignal
    <3>3. CASE prior # None
      <4>1. prior \in Books(s.target)
        BY <3>3, PriorType, SelectionFields
      <4>2. prior.odds[s.outcome] \in Nat
        BY <4>1, BookTypes, SelectionFields DEF Books
      <4> HIDE DEF prob
      <4>3. [prob |-> prob, odds |-> prior.odds[s.outcome]] \in Signal
        BY <3>1, <4>2 DEF Signal
      <4> QED BY <4>3 DEF NewSignal, prob
    <3> QED BY <3>2, <3>3
  <2>2. signal' \in [Version -> [Selection -> Signal \cup {None}]]
    BY <2>1 DEF Predicted, TypeOK, FedTypeOK
  <2> QED BY <1>2, <2>2 DEF PredictUpcoming, TypeOK, FedTypeOK
<1>3. ASSUME NEW t \in Targets, NEW v \in Version, Promote(t, v)
      PROVE  FedTypeOK' /\ UNCHANGED own /\ stable' = FALSE
  BY <1>3 DEF Promote, TypeOK, FedTypeOK
<1>4. ASSUME NEW m \in Match, NEW r \in Rows, PublishResult(m, r)
      PROVE  FedTypeOK' /\ UNCHANGED own /\ stable' = FALSE
  <2>1. r \in Result
    OBVIOUS
  <2>2. /\ result' = [result EXCEPT ![m] = r]
        /\ seen' = [seen EXCEPT ![m] = IF r.confirmed THEN @ \cup {r} ELSE @]
    BY <1>4 DEF PublishResult
  <2>3. seen' \in [Match -> SUBSET Result] /\ result' \in [Match -> Result \cup {None}]
    BY <2>1, <2>2 DEF TypeOK, FedTypeOK
  <2> QED BY <1>4, <2>3 DEF PublishResult, TypeOK, FedTypeOK
<1>5. ASSUME NEW m \in Match, NEW k \in Kickoffs, Reschedule(m, k)
      PROVE  FedTypeOK' /\ UNCHANGED own /\ stable' = FALSE
  BY <1>5 DEF Reschedule, TypeOK, FedTypeOK
<1>6. ASSUME NEW m \in Match, CallOff(m)
      PROVE  FedTypeOK' /\ UNCHANGED own /\ stable' = FALSE
  BY <1>6 DEF CallOff, TypeOK, FedTypeOK
<1>8. CASE StartFetch
  BY <1>8 DEF StartFetch, TypeOK, FedTypeOK, OwnTypeOK
<1>7. \/ \E shown \in [Targets -> [Match -> Book \cup {None}]] : StoreOdds(shown)
      \/ StartFetch
      \/ PredictUpcoming
      \/ \E t \in Targets, v \in Version : Promote(t, v)
      \/ \E m \in Match, r \in Rows : PublishResult(m, r)
      \/ \E m \in Match, k \in Kickoffs : Reschedule(m, k)
      \/ \E m \in Match : CallOff(m)
  BY DEF Feeds
<1>9. FALSE \in BOOLEAN
  OBVIOUS
<1> QED BY ONLY <1>1, <1>2, <1>3, <1>4, <1>5, <1>6, <1>7, <1>8, <1>9

(* A step of one run rewrites tx[p] alone.                                 *)
LEMMA TxType ==
  ASSUME TypeOK, NEW p \in Proc, NEW r \in Run, tx' = [tx EXCEPT ![p] = r]
  PROVE  tx' \in [Proc -> Run]
BY DEF TypeOK, OwnTypeOK

\* The steps of a run keep the types.
LEMMA RunStepType ==
  ASSUME TypeOK, NEW p \in Proc, LedgerUpdate(p) \/ Crash(p)
  PROVE  TypeOK'
<1> USE DEF TypeOK
<1>1. CASE SettleRead(p)
  <2> PICK tie \in BOOLEAN :
        tx' = [tx EXCEPT ![p] = [NoRun EXCEPT !.pc = "settle", !.started = clock,
                 !.settled = [s \in Selection |->
                                IF s \in Due THEN SettledBet(s, tie) ELSE None]]]
    BY <1>1 DEF SettleRead
  <2>1. tx' \in [Proc -> Run]
    BY SettleReadRun, TxType
  <2>2. FedTypeOK'
    BY <1>1, FedUnchanged DEF SettleRead
  <2>3. OwnTypeOK'
    BY <1>1, <2>1 DEF SettleRead, OwnTypeOK
  <2> QED BY <2>2, <2>3
<1>2. CASE SumRealized(p)
  <2>1. Realized(View(p)) \in Int
    BY <1>2 DEF SumRealized
  <2>2. tx' = [tx EXCEPT ![p] = [tx[p] EXCEPT !.pc = "realized", !.realized = Realized(View(p))]]
    BY <1>2 DEF SumRealized, OwnTypeOK
  <2>3. [tx[p] EXCEPT !.pc = "realized", !.realized = Realized(View(p))] \in Run
    <3>1. "realized" \in PC /\ tx[p] \in Run
      BY RunFields DEF PC
    <3> QED BY ONLY <2>1, <3>1, RunUpdates
  <2>4. FedTypeOK'
    BY <1>2, FedUnchanged DEF SumRealized
  <2>5. OwnTypeOK'
    BY <1>2, <2>2, <2>3, TxType DEF SumRealized, OwnTypeOK
  <2> QED BY <2>4, <2>5
<1>3. CASE SumOpen(p)
  <2> DEFINE bank == InitialBankroll + tx[p].realized - OpenStakes(View(p))
  <2>1. bank \in Int
    BY <1>3 DEF SumOpen
  <2>2. tx' = [tx EXCEPT ![p] = [tx[p] EXCEPT !.pc = "place", !.bank = bank]]
    BY <1>3 DEF SumOpen, OwnTypeOK
  <2> HIDE DEF bank
  <2>3. [tx[p] EXCEPT !.pc = "place", !.bank = bank] \in Run
    <3>1. "place" \in PC /\ tx[p] \in Run
      BY RunFields DEF PC
    <3> QED BY ONLY <2>1, <3>1, RunUpdates
  <2>4. FedTypeOK'
    BY <1>3, FedUnchanged DEF SumOpen
  <2>5. OwnTypeOK'
    BY <1>3, <2>2, <2>3, TxType DEF SumOpen, OwnTypeOK
  <2> QED BY <2>4, <2>5
<1>4. CASE PlaceRead(p)
  <2> DEFINE slips == Slips(View(p), tx[p].bank, tx[p].started)
  <2>1. slips \in [Selection -> Bet \cup {None}]
    BY RunFields, SlipsType
  <2>2. tx' = [tx EXCEPT ![p] = [tx[p] EXCEPT !.pc = "insert", !.placed = slips]]
    BY <1>4 DEF PlaceRead, OwnTypeOK
  <2> HIDE DEF slips
  <2>3. [tx[p] EXCEPT !.pc = "insert", !.placed = slips] \in Run
    <3>1. "insert" \in PC /\ tx[p] \in Run
      BY RunFields DEF PC
    <3> QED BY ONLY <2>1, <3>1, RunUpdates
  <2>4. FedTypeOK'
    BY <1>4, FedUnchanged DEF PlaceRead
  <2>5. OwnTypeOK'
    BY <1>4, <2>2, <2>3, TxType DEF PlaceRead, OwnTypeOK
  <2> QED BY <2>4, <2>5
<1>5. CASE Commit(p)
  <2>1. tx' \in [Proc -> Run]
    BY <1>5, NoRunType, TxType DEF Commit
  <2>2. FedTypeOK'
    BY <1>5, FedUnchanged DEF Commit
  <2>3. OwnTypeOK'
    BY <1>5, <2>1, ViewType DEF Commit, OwnTypeOK
  <2> QED BY <2>2, <2>3
<1>6. CASE IntegrityError(p)
  <2>1. tx' \in [Proc -> Run]
    BY <1>6, NoRunType, TxType DEF IntegrityError
  <2> QED BY <1>6, <2>1, FedUnchanged DEF IntegrityError, OwnTypeOK
<1>7. CASE Crash(p)
  <2>1. tx' \in [Proc -> Run]
    BY <1>7, NoRunType, TxType DEF Crash
  <2>2. crashes' \in 0 .. MaxCrashes
    BY <1>7 DEF Crash, OwnTypeOK
  <2> QED BY <1>7, <2>1, <2>2, FedUnchanged DEF Crash, OwnTypeOK
<1> QED BY <1>1, <1>2, <1>3, <1>4, <1>5, <1>6, <1>7 DEF LedgerUpdate

\* Time keeps the types.
LEMMA TickType ==
  ASSUME TypeOK, Tick
  PROVE  TypeOK'
<1>1. clock' \in Time
  BY DEF Tick, TypeOK, FedTypeOK, Time
<1> QED BY <1>1 DEF Tick, TypeOK, FedTypeOK, OwnTypeOK, fed, own

\* Initially the types hold.
LEMMA InitType == Init => TypeOK
<1> SUFFICES ASSUME Init PROVE TypeOK
  OBVIOUS
<1>1. FedTypeOK
  BY DEF Init, FedTypeOK, Time
<1>2. OwnTypeOK
  <2>1. tx \in [Proc -> Run]
    BY NoRunType DEF Init
  <2>2. book \in [Selection -> Bet \cup {None}]
    BY DEF Init
  <2>3. stable = FALSE /\ crashes = 0
    BY ONLY Init DEF Init
  <2>4. stable \in BOOLEAN
    BY ONLY <2>3
  <2>5. crashes \in 0 .. MaxCrashes
    BY <2>3
  <2> QED BY <2>1, <2>2, <2>4, <2>5 DEF OwnTypeOK
<1> QED BY <1>1, <1>2 DEF TypeOK

\* Every step keeps the types.
LEMMA TypeStep == TypeOK /\ [Next]_vars => TypeOK'
<1> SUFFICES ASSUME TypeOK, [Next]_vars PROVE TypeOK'
  OBVIOUS
<1>1. CASE Tick
  BY <1>1, TickType
<1>2. CASE Feeds
  BY <1>2, FeedsType, OwnUnchanged DEF TypeOK
<1>3. ASSUME NEW p \in Proc, LedgerUpdate(p) \/ Crash(p) PROVE TypeOK'
  BY <1>3, RunStepType
<1>4. CASE UNCHANGED vars
  BY <1>4 DEF vars, fed, own, TypeOK, FedTypeOK, OwnTypeOK
<1> QED BY <1>1, <1>2, <1>3, <1>4 DEF Next

(* TypeOK is an invariant: every table keeps its shape and every run its   *)
(* type through any interleaving of the jobs, the ledger runs and crashes. *)
THEOREM TypeInvariant == Spec => []TypeOK
BY InitType, TypeStep, PTL DEF Spec

-----------------------------------------------------------------------------
(* The invariant LedgerInv.                                                *)

(* A bet paid by the rules of some results is paid by those of more.       *)
LEMMA PaidByMore ==
  ASSUME NEW R, NEW S, R \subseteq S, NEW s, NEW b, PaidByTheRules(R, s, b)
  PROVE  PaidByTheRules(S, s, b)
BY DEF PaidByTheRules

(* What settle_bets writes over a due bet keeps its terms and is paid on a *)
(* confirmed result.                                                       *)
LEMMA SettledBetFacts ==
  ASSUME LedgerInv, NEW s \in Due, NEW tie \in BOOLEAN
  PROVE  /\ s \in Selection /\ book[s] # None
         /\ Terms(SettledBet(s, tie)) = Terms(book[s])
         /\ SettledBet(s, tie).status # "pending"
         /\ PaidByTheRules(seen[s.match], s, SettledBet(s, tie))
<1>1. /\ s \in Selection /\ book[s] \in Bet /\ result[s.match] \in Result
      /\ book[s] # None /\ result[s.match] \in seen[s.match]
  BY SelectionFields
     DEF Due, Open, Placed, LedgerInv, SeenInv, TypeOK, FedTypeOK, OwnTypeOK
<1> DEFINE r == result[s.match]
           b == [target |-> s.target, outcome |-> s.outcome, line |-> book[s].line,
                 odds |-> book[s].odds, stake |-> book[s].stake]
           paid == SettleBet(b, r.home, r.away, tie)
           new == SettledBet(s, tie)
<1>2. paid \in SettledForm
  <2>1. /\ b.stake \in Nat /\ b.odds \in Nat /\ b.line \in Int \cup {NoLine}
        /\ r.home \in Nat /\ r.away \in Nat
    BY <1>1 DEF Bet, Result
  <2> HIDE DEF b, r
  <2> QED BY <2>1, SettleBetType
<1>3. new = [book[s] EXCEPT !.status = paid.status, !.payout = paid.payout,
                            !.settledAt = clock, !.source = r.source]
  BY DEF SettledBet
<1>4. /\ new.status = paid.status /\ new.payout = paid.payout /\ new.source = r.source
      /\ new.target = book[s].target /\ new.outcome = book[s].outcome
      /\ new.version = book[s].version /\ new.line = book[s].line
      /\ new.odds = book[s].odds /\ new.stake = book[s].stake
      /\ new.bank = book[s].bank /\ new.placedAt = book[s].placedAt
  <2> HIDE DEF paid, r, new
  <2> QED BY <1>1, <1>3 DEF Bet
<1>5. Terms(new) = Terms(book[s])
  <2> HIDE DEF new
  <2> QED BY <1>4 DEF Terms
<1>6. PaidByTheRules(seen[s.match], s, new)
  <2>1. b = [target |-> s.target, outcome |-> s.outcome, line |-> new.line,
             odds |-> new.odds, stake |-> new.stake]
    BY <1>4
  <2> HIDE DEF new, b
  <2> QED BY <1>1, <1>4, <2>1 DEF PaidByTheRules
<1>7. new.status # "pending"
  BY <1>2, <1>4 DEF SettledForm, FinalStatus
<1> QED BY <1>1, <1>5, <1>6, <1>7

-----------------------------------------------------------------------------
(* The invariant, step by step.                                            *)

\* Initially the invariant holds.
LEMMA InitInv == Init => LedgerInv
<1> SUFFICES ASSUME Init PROVE LedgerInv
  OBVIOUS
<1>1. TypeOK
  BY InitType
<1>2. Placed(book) = {} /\ Settled(book) = {}
  BY DEF Init, Placed, Settled
<1>3. \A p \in Proc : Placed(tx[p].settled) = {} /\ Placed(tx[p].placed) = {}
  BY DEF Init, NoRun, Unchanged, Placed
<1>4. SeenInv
  BY DEF Init, SeenInv
<1> QED BY <1>1, <1>2, <1>3, <1>4
        DEF LedgerInv, StakeWithinLimits, SettledByConfirmedResult, UpdateInv, InsertInv

(* The other jobs only ever add to the confirmed results of a match.       *)
LEMMA SeenGrows ==
  ASSUME LedgerInv, Feeds
  PROVE  SeenInv' /\ \A m \in Match : seen[m] \subseteq seen'[m]
<1>1. ASSUME NEW m \in Match, NEW r \in Rows, PublishResult(m, r)
      PROVE  SeenInv' /\ \A n \in Match : seen[n] \subseteq seen'[n]
  <2>1. /\ result' = [result EXCEPT ![m] = r]
        /\ seen' = [seen EXCEPT ![m] = IF r.confirmed THEN @ \cup {r} ELSE @]
    BY <1>1 DEF PublishResult
  <2>2. /\ result \in [Match -> Result \cup {None}] /\ seen \in [Match -> SUBSET Result]
        /\ SeenInv
    BY DEF LedgerInv, TypeOK, FedTypeOK
  <2>3. \A n \in Match : seen[n] \subseteq seen'[n]
    BY <2>1, <2>2
  <2>4. ASSUME NEW n \in Match, result'[n] # None, result'[n].confirmed
        PROVE  result'[n] \in seen'[n]
    <3>1. CASE n = m
      BY <2>1, <2>2, <2>4, <3>1
    <3>2. CASE n # m
      BY <2>1, <2>2, <2>4, <3>2 DEF SeenInv
    <3> QED BY <3>1, <3>2
  <2> QED BY <2>3, <2>4 DEF SeenInv
<1>2. ASSUME UNCHANGED <<result, seen>>
      PROVE  SeenInv' /\ \A n \in Match : seen[n] \subseteq seen'[n]
  BY <1>2 DEF LedgerInv, SeenInv
<1>3. ASSUME StartFetch \/ (\E shown \in [Targets -> [Match -> Book \cup {None}]] : StoreOdds(shown))
      PROVE  UNCHANGED <<result, seen>>
  BY <1>3 DEF StartFetch, StoreOdds
<1>4. ASSUME PredictUpcoming PROVE UNCHANGED <<result, seen>>
  BY <1>4 DEF PredictUpcoming
<1>5. ASSUME NEW t \in Targets, NEW v \in Version, Promote(t, v)
      PROVE  UNCHANGED <<result, seen>>
  BY <1>5 DEF Promote
<1>6. ASSUME NEW m \in Match, NEW k \in Kickoffs, Reschedule(m, k)
      PROVE  UNCHANGED <<result, seen>>
  BY <1>6 DEF Reschedule
<1>7. ASSUME NEW m \in Match, CallOff(m) PROVE UNCHANGED <<result, seen>>
  BY <1>7 DEF CallOff
<1>8. \/ StartFetch \/ (\E shown \in [Targets -> [Match -> Book \cup {None}]] : StoreOdds(shown))
      \/ PredictUpcoming
      \/ \E t \in Targets, v \in Version : Promote(t, v)
      \/ \E m \in Match, r \in Rows : PublishResult(m, r)
      \/ \E m \in Match, k \in Kickoffs : Reschedule(m, k)
      \/ \E m \in Match : CallOff(m)
  BY DEF Feeds
<1> QED BY ONLY <1>1, <1>2, <1>3, <1>4, <1>5, <1>6, <1>7, <1>8

\* The other jobs keep the invariant.
LEMMA FeedsInv ==
  ASSUME LedgerInv, Feeds
  PROVE  LedgerInv'
<1>1. TypeOK'
  BY TypeStep DEF LedgerInv, Next
<1>2. UNCHANGED <<book, tx>>
  BY FeedsType DEF LedgerInv, own
<1>3. SeenInv' /\ \A m \in Match : seen[m] \subseteq seen'[m]
  BY SeenGrows
<1>4. StakeWithinLimits'
  BY <1>2 DEF LedgerInv, StakeWithinLimits
<1>5. ASSUME NEW s \in Selection, NEW b, PaidByTheRules(seen[s.match], s, b)
      PROVE  PaidByTheRules(seen'[s.match], s, b)
  BY <1>3, <1>5, SelectionFields, PaidByMore
<1>6. SettledByConfirmedResult'
  BY <1>2, <1>5 DEF LedgerInv, SettledByConfirmedResult, Settled, Placed
<1>7. ASSUME NEW p \in Proc PROVE UpdateInv(p)' /\ InsertInv(p)'
  BY <1>2, <1>5 DEF LedgerInv, UpdateInv, InsertInv, Placed
<1> QED BY <1>1, <1>3, <1>4, <1>6, <1>7 DEF LedgerInv

(* A step of run p that commits nothing disturbs nothing but the two       *)
(* clauses about p.                                                        *)
LEMMA UncommittedStep ==
  ASSUME LedgerInv, TypeOK', UNCHANGED <<fed, book>>, NEW p \in Proc,
         \A q \in Proc \ {p} : tx'[q] = tx[q],
         UpdateInv(p)', InsertInv(p)'
  PROVE  LedgerInv'
<1>1. UNCHANGED <<result, seen>>
  BY DEF fed
<1>2. SeenInv' /\ StakeWithinLimits' /\ SettledByConfirmedResult'
  BY <1>1 DEF LedgerInv, SeenInv, StakeWithinLimits, SettledByConfirmedResult,
              Settled, Placed
<1>3. ASSUME NEW q \in Proc \ {p} PROVE UpdateInv(q)' /\ InsertInv(q)'
  BY <1>1, <1>3 DEF LedgerInv, UpdateInv, InsertInv, Placed
<1> QED BY <1>2, <1>3 DEF LedgerInv

(* An idle run has nothing to write.                                       *)
LEMMA NoRunInv ==
  ASSUME NEW p \in Proc, tx'[p] = NoRun
  PROVE  UpdateInv(p)' /\ InsertInv(p)'
BY DEF NoRun, Unchanged, UpdateInv, InsertInv, Placed

(* What a run reads back is what it would commit.                          *)
LEMMA ViewFacts ==
  ASSUME LedgerInv, NEW p \in Proc, NEW s \in Selection
  PROVE  /\ tx[p].placed[s] # None =>
              /\ View(p)[s] = tx[p].placed[s] /\ View(p)[s].status = "pending"
              /\ WithinLimits(View(p)[s])
         /\ tx[p].placed[s] = None /\ tx[p].settled[s] # None =>
              /\ View(p)[s] = tx[p].settled[s] /\ book[s] # None
              /\ Terms(View(p)[s]) = Terms(book[s])
              /\ PaidByTheRules(seen[s.match], s, View(p)[s])
         /\ tx[p].placed[s] = None /\ tx[p].settled[s] = None => View(p)[s] = book[s]
BY DEF LedgerInv, UpdateInv, InsertInv, Placed, View

\* A commit keeps the invariant.
LEMMA CommitInv ==
  ASSUME LedgerInv, NEW p \in Proc, Commit(p)
  PROVE  LedgerInv'
<1>1. TypeOK'
  BY TypeStep DEF LedgerInv, Next, LedgerUpdate
<1>2. /\ UNCHANGED <<result, seen>> /\ book' = View(p) /\ tx' = [tx EXCEPT ![p] = NoRun]
      /\ TypeOK
  BY DEF Commit, fed, LedgerInv
<1>3. SeenInv'
  BY <1>2 DEF LedgerInv, SeenInv
<1>4. ASSUME NEW s \in Selection, book[s] # None
      PROVE  book'[s] # None /\ Terms(book'[s]) = Terms(book[s])
  <2>1. tx[p].placed[s] = None
    BY <1>4 DEF Commit, Conflicts, Placed
  <2>2. CASE tx[p].settled[s] # None
    <3>1. View(p)[s] = tx[p].settled[s]
      BY <2>1, <2>2, ViewFacts
    <3> QED BY <2>1, <2>2, <3>1, <1>2, ViewFacts
  <2>3. CASE tx[p].settled[s] = None
    BY <2>1, <2>3, <1>2, <1>4, ViewFacts
  <2> QED BY <2>2, <2>3
<1>5. StakeWithinLimits'
  <2> SUFFICES ASSUME NEW s \in Selection, book'[s] # None
               PROVE  WithinLimits(book'[s])
    BY DEF StakeWithinLimits, Placed
  <2>1. CASE tx[p].placed[s] # None
    BY <2>1, <1>2, ViewFacts
  <2>2. CASE tx[p].placed[s] = None
    <3>1. book[s] # None
      BY <2>2, <1>2, ViewFacts
    <3>2. Terms(book'[s]) = Terms(book[s]) /\ WithinLimits(book[s])
      BY <3>1, <1>4 DEF LedgerInv, StakeWithinLimits, Placed
    <3> QED BY <3>2 DEF Terms, WithinLimits
  <2> QED BY <2>1, <2>2
<1>6. SettledByConfirmedResult'
  <2> SUFFICES ASSUME NEW s \in Selection, book'[s] # None, book'[s].status # "pending"
               PROVE  PaidByTheRules(seen[s.match], s, book'[s])
    BY <1>2 DEF SettledByConfirmedResult, Settled, Placed
  <2>1. tx[p].placed[s] = None
    BY <1>2, ViewFacts
  <2>2. CASE tx[p].settled[s] # None
    BY <2>1, <2>2, <1>2, ViewFacts
  <2>3. CASE tx[p].settled[s] = None
    BY <2>1, <2>3, <1>2, ViewFacts
       DEF LedgerInv, SettledByConfirmedResult, Settled, Placed
  <2> QED BY <2>2, <2>3
<1>7. ASSUME NEW q \in Proc PROVE UpdateInv(q)' /\ InsertInv(q)'
  <2>1. CASE q = p
    BY <2>1, <1>2, NoRunInv DEF TypeOK, OwnTypeOK
  <2>2. CASE q # p
    <3>1. tx'[q] = tx[q]
      BY <2>2, <1>2
    <3>2. InsertInv(q)'
      BY <3>1 DEF LedgerInv, InsertInv, Placed
    <3>3. UpdateInv(q)'
      BY <3>1, <1>2, <1>4 DEF LedgerInv, UpdateInv, Placed
    <3> QED BY <3>2, <3>3
  <2> QED BY <2>1, <2>2
<1> QED BY <1>1, <1>3, <1>5, <1>6, <1>7 DEF LedgerInv

\* Reading what is due keeps the invariant.
LEMMA SettleReadInv ==
  ASSUME LedgerInv, NEW p \in Proc, SettleRead(p)
  PROVE  LedgerInv'
<1>1. TypeOK' /\ TypeOK
  BY TypeStep DEF LedgerInv, Next, LedgerUpdate
<1>2. PICK tie \in BOOLEAN :
        tx' = [tx EXCEPT ![p] = [NoRun EXCEPT !.pc = "settle", !.started = clock,
                 !.settled = [s \in Selection |->
                                IF s \in Due THEN SettledBet(s, tie) ELSE None]]]
  BY DEF SettleRead
<1> DEFINE upd == [s \in Selection |-> IF s \in Due THEN SettledBet(s, tie) ELSE None]
<1>3. /\ tx'[p].pc = "settle" /\ tx'[p].settled = upd /\ tx'[p].placed = Unchanged
      /\ \A q \in Proc \ {p} : tx'[q] = tx[q]
  <2> DEFINE r == [NoRun EXCEPT !.pc = "settle", !.started = clock, !.settled = upd]
  <2>1. tx' = [tx EXCEPT ![p] = r] /\ tx \in [Proc -> Run]
    BY <1>1, <1>2 DEF TypeOK, OwnTypeOK
  <2> HIDE DEF upd
  <2>2. r.pc = "settle" /\ r.settled = upd /\ r.placed = Unchanged
    BY DEF NoRun
  <2> HIDE DEF r
  <2> QED BY <2>1, <2>2
<1>4. UNCHANGED <<fed, book>>
  BY DEF SettleRead
<1>5. InsertInv(p)'
  BY <1>3 DEF InsertInv, Unchanged, Placed
<1>6. UpdateInv(p)'
  <2> SUFFICES ASSUME NEW s \in Selection, upd[s] # None
               PROVE  /\ book[s] # None /\ Terms(upd[s]) = Terms(book[s])
                      /\ upd[s].status # "pending"
                      /\ PaidByTheRules(seen[s.match], s, upd[s])
    <3> HIDE DEF upd
    <3> QED BY <1>3, <1>4 DEF UpdateInv, Placed, fed
  <2>1. s \in Due /\ upd[s] = SettledBet(s, tie)
    OBVIOUS
  <2> HIDE DEF upd
  <2> QED BY <2>1, SettledBetFacts
<1> QED BY <1>1, <1>3, <1>4, <1>5, <1>6, UncommittedStep

\* Summing the bankroll keeps the invariant.
LEMMA SumsInv ==
  ASSUME LedgerInv, NEW p \in Proc, SumRealized(p) \/ SumOpen(p)
  PROVE  LedgerInv'
<1>1. TypeOK' /\ TypeOK
  BY TypeStep DEF LedgerInv, Next, LedgerUpdate
<1>2. /\ UNCHANGED <<fed, book>> /\ tx[p].pc \in {"settle", "realized"}
      /\ tx'[p].pc \in {"realized", "place"}
      /\ tx'[p].settled = tx[p].settled /\ tx'[p].placed = tx[p].placed
      /\ \A q \in Proc \ {p} : tx'[q] = tx[q]
  <2>1. CASE SumRealized(p)
    BY <2>1, <1>1, RunFields DEF SumRealized, TypeOK, OwnTypeOK, Run
  <2>2. CASE SumOpen(p)
    BY <2>2, <1>1, RunFields DEF SumOpen, TypeOK, OwnTypeOK, Run
  <2> QED BY <2>1, <2>2
<1>3. UpdateInv(p)' /\ InsertInv(p)'
  BY <1>2 DEF LedgerInv, UpdateInv, InsertInv, Placed, fed
<1> QED BY <1>1, <1>2, <1>3, UncommittedStep

\* Choosing the bets keeps the invariant.
LEMMA PlaceReadInv ==
  ASSUME LedgerInv, NEW p \in Proc, PlaceRead(p)
  PROVE  LedgerInv'
<1>1. TypeOK' /\ TypeOK
  BY TypeStep DEF LedgerInv, Next, LedgerUpdate
<1> DEFINE slips == Slips(View(p), tx[p].bank, tx[p].started)
<1>2. /\ UNCHANGED <<fed, book>> /\ tx[p].pc = "place" /\ tx'[p].pc = "insert"
      /\ tx'[p].settled = tx[p].settled /\ tx'[p].placed = slips
      /\ \A q \in Proc \ {p} : tx'[q] = tx[q]
  <2> HIDE DEF slips
  <2> QED BY <1>1, RunFields DEF PlaceRead, TypeOK, OwnTypeOK, Run, slips
<1>3. UpdateInv(p)'
  BY <1>2 DEF LedgerInv, UpdateInv, Placed, fed
<1>4. InsertInv(p)'
  <2>1. ASSUME NEW s \in Placed(slips)
        PROVE  View(p)[s] = None /\ SlipOf(s, slips[s], tx[p].bank, tx[p].started)
    BY <1>1, RunFields, SlipsType
  <2>2. ASSUME NEW s \in Placed(slips)
        PROVE  /\ tx[p].settled[s] = None
               /\ slips[s].status = "pending" /\ WithinLimits(slips[s])
    <3>1. tx[p].settled[s] = None
      BY <2>1, <1>2 DEF View, Placed, LedgerInv, InsertInv
    <3>2. slips[s].status = "pending" /\ WithinLimits(slips[s])
      BY <2>1 DEF SlipOf, WithinLimits
    <3> QED BY <3>1, <3>2
  <2> HIDE DEF slips
  <2> QED BY <1>2, <2>2 DEF InsertInv
<1> QED BY <1>1, <1>2, <1>3, <1>4, UncommittedStep

\* A rolled-back run keeps the invariant.
LEMMA RollbackInv ==
  ASSUME LedgerInv, NEW p \in Proc, IntegrityError(p) \/ Crash(p)
  PROVE  LedgerInv'
<1>1. TypeOK' /\ TypeOK
  BY TypeStep DEF LedgerInv, Next, LedgerUpdate
<1>2. UNCHANGED <<fed, book>> /\ tx' = [tx EXCEPT ![p] = NoRun]
  BY DEF IntegrityError, Crash
<1>3. tx'[p] = NoRun /\ \A q \in Proc \ {p} : tx'[q] = tx[q]
  BY <1>1, <1>2 DEF TypeOK, OwnTypeOK
<1> QED BY <1>1, <1>2, <1>3, NoRunInv, UncommittedStep

\* Time keeps the invariant.
LEMMA QuietStepInv ==
  ASSUME LedgerInv, Tick \/ UNCHANGED vars
  PROVE  LedgerInv'
<1>1. TypeOK'
  BY TypeStep DEF LedgerInv, Next
<1>2. UNCHANGED <<result, seen, book, tx>>
  BY DEF Tick, vars, fed, own
<1> QED BY <1>1, <1>2 DEF LedgerInv, SeenInv, StakeWithinLimits, SettledByConfirmedResult,
                          Settled, Placed, UpdateInv, InsertInv

\* Every step keeps the invariant.
LEMMA InvStep == LedgerInv /\ [Next]_vars => LedgerInv'
<1> SUFFICES ASSUME LedgerInv, [Next]_vars PROVE LedgerInv'
  OBVIOUS
<1>1. ASSUME NEW p \in Proc, LedgerUpdate(p) \/ Crash(p) PROVE LedgerInv'
  BY <1>1, SettleReadInv, SumsInv, PlaceReadInv, CommitInv, RollbackInv DEF LedgerUpdate
<1> QED BY <1>1, FeedsInv, QuietStepInv DEF Next

-----------------------------------------------------------------------------
(* LedgerInv holds whatever the other jobs, the other ledger processes and *)
(* crashes do: it is its own strengthening.                                *)
THEOREM LedgerInvariant == Spec => []LedgerInv
BY InitInv, InvStep, PTL DEF Spec

(* Every bet of settle_bets carries the status and payout the betting      *)
(* rules give on a confirmed result the match really had.                  *)
THEOREM PaidOnConfirmedResults == Spec => []SettledByConfirmedResult
BY LedgerInvariant, PTL DEF LedgerInv

(* Every stake _size_stake lets through lies between the minimum and the   *)
(* cap of the bankroll its batch was sized from.                           *)
THEOREM StakesWithinLimits == Spec => []StakeWithinLimits
BY LedgerInvariant, PTL DEF LedgerInv

-----------------------------------------------------------------------------
\* No step removes a bet or rewrites its terms.
LEMMA TermsKept ==
  ASSUME LedgerInv, [Next]_vars, NEW s \in Placed(book)
  PROVE  book'[s] # None /\ Terms(book'[s]) = Terms(book[s])
<1>1. s \in Selection /\ book[s] # None
  BY DEF Placed
<1>2. ASSUME NEW p \in Proc, Commit(p)
      PROVE  book'[s] # None /\ Terms(book'[s]) = Terms(book[s])
  <2>1. book' = View(p) /\ tx[p].placed[s] = None
    BY <1>1, <1>2 DEF Commit, Conflicts, Placed
  <2> QED BY <1>1, <2>1, ViewFacts
<1>3. ASSUME UNCHANGED book
      PROVE  book'[s] # None /\ Terms(book'[s]) = Terms(book[s])
  BY <1>1, <1>3
<1>4. ASSUME NEW p \in Proc, LedgerUpdate(p) \/ Crash(p)
      PROVE  Commit(p) \/ UNCHANGED book
  BY <1>4 DEF LedgerUpdate, SettleRead, SumRealized, SumOpen, PlaceRead,
              IntegrityError, Crash
<1>5. Tick \/ Feeds \/ UNCHANGED vars => UNCHANGED book
  BY FeedsType DEF Tick, own, vars, LedgerInv
<1> QED BY <1>2, <1>3, <1>4, <1>5 DEF Next

(* A selection is bet on once, and the terms of a bet are never rewritten, *)
(* whichever of the concurrent ledger processes commits.                   *)
THEOREM TermsNeverRewritten == Spec => OneBetForever
<1>1. LedgerInv /\ [Next]_vars =>
        [\A s \in Placed(book) : /\ book'[s] # None
                                 /\ Terms(book'[s]) = Terms(book[s])]_vars
  BY TermsKept
<1> QED BY <1>1, LedgerInvariant, PTL DEF Spec, OneBetForever

-----------------------------------------------------------------------------
(* With one ledger process nothing changes the table under a run.          *)

\* Every step of a single ledger process keeps SingleWriterInv.
LEMMA SingleWriterStep ==
  ASSUME NEW p, Proc = {p}, LedgerInv, SingleWriterInv, [Next]_vars
  PROVE  SingleWriterInv'
<1>1. TypeOK /\ TypeOK' /\ p \in Proc
  BY TypeStep DEF LedgerInv
<1>2. ASSUME UNCHANGED book, tx'[p].settled = tx[p].settled, tx'[p].placed = tx[p].placed
      PROVE  SingleWriterInv'
  BY <1>2 DEF SingleWriterInv, Conflicts, Placed, Open
<1>3. ASSUME tx' = [tx EXCEPT ![p] = NoRun]
      PROVE  SingleWriterInv'
  <2>1. tx'[p] = NoRun
    BY <1>1, <1>3 DEF TypeOK, OwnTypeOK
  <2> QED BY <2>1 DEF SingleWriterInv, Conflicts, Placed, NoRun, Unchanged
<1>4. CASE SettleRead(p)
  <2> PICK tie \in BOOLEAN :
        tx' = [tx EXCEPT ![p] = [NoRun EXCEPT !.pc = "settle", !.started = clock,
                 !.settled = [s \in Selection |->
                                IF s \in Due THEN SettledBet(s, tie) ELSE None]]]
    BY <1>4 DEF SettleRead
  <2> DEFINE upd == [s \in Selection |-> IF s \in Due THEN SettledBet(s, tie) ELSE None]
             r == [NoRun EXCEPT !.pc = "settle", !.started = clock, !.settled = upd]
  <2>1. tx' = [tx EXCEPT ![p] = r] /\ tx \in [Proc -> Run]
    BY <1>1 DEF TypeOK, OwnTypeOK
  <2>2. Placed(upd) \subseteq Open(book)
    BY DEF Placed, Due
  <2> HIDE DEF upd
  <2>3. r.settled = upd /\ r.placed = Unchanged
    BY DEF NoRun
  <2> HIDE DEF r
  <2>4. tx'[p].settled = upd /\ tx'[p].placed = Unchanged
    BY <1>1, <2>1, <2>3
  <2>5. Placed(Unchanged) = {} /\ UNCHANGED book
    BY <1>4 DEF Placed, Unchanged, SettleRead
  <2> QED BY <2>2, <2>4, <2>5 DEF SingleWriterInv, Conflicts, Open, Placed
<1>5. CASE SumRealized(p) \/ SumOpen(p)
  BY <1>1, <1>2, <1>5, RunFields DEF SumRealized, SumOpen, TypeOK, OwnTypeOK, Run
<1>6. CASE PlaceRead(p)
  <2> DEFINE slips == Slips(View(p), tx[p].bank, tx[p].started)
  <2>1. /\ UNCHANGED book /\ tx'[p].settled = tx[p].settled /\ tx'[p].placed = slips
    <3> HIDE DEF slips
    <3> QED BY <1>1, <1>6, RunFields DEF PlaceRead, TypeOK, OwnTypeOK, Run, slips
  <2>2. \A s \in Placed(slips) : View(p)[s] = None
    BY <1>1, RunFields, SlipsType
  <2>3. \A s \in Placed(slips) : book[s] = None
    BY <1>1, <2>2 DEF View, Placed, LedgerInv, UpdateInv, InsertInv
  <2> HIDE DEF slips
  <2> QED BY <2>1, <2>3 DEF SingleWriterInv, Conflicts, Open, Placed
<1>7. CASE Commit(p) \/ IntegrityError(p) \/ Crash(p)
  BY <1>3, <1>7 DEF Commit, IntegrityError, Crash
<1>8. CASE Tick \/ Feeds \/ UNCHANGED vars
  <2>1. UNCHANGED <<book, tx>>
    BY <1>1, <1>8, FeedsType DEF Tick, own, vars
  <2> QED BY <1>2, <2>1
<1> QED BY <1>4, <1>5, <1>6, <1>7, <1>8 DEF Next, LedgerUpdate

\* With a single ledger process nothing changes the table under a run.
LEMMA SingleWriter ==
  ASSUME NEW p, Proc = {p}
  PROVE  Spec => [](LedgerInv /\ SingleWriterInv)
<1>1. Init => LedgerInv /\ SingleWriterInv
  BY InitInv DEF Init, NoRun, Unchanged, SingleWriterInv, Conflicts, Placed
<1>2. (LedgerInv /\ SingleWriterInv) /\ [Next]_vars => (LedgerInv /\ SingleWriterInv)'
  BY InvStep, SingleWriterStep
<1> QED BY <1>1, <1>2, PTL DEF Spec

-----------------------------------------------------------------------------
(* The money of one ledger process: the bankroll it derives from its table *)
(* is the purse of a cash account, what a batch is placed on is real, the  *)
(* equity curve is final, bounded batches never run into debt, and a run   *)
(* over unchanged inputs does nothing.                                     *)

(* The bankroll of a table of bets, as sums over every selection.          *)

Stakes(bets)  == [s \in Selection |-> IF s \in Placed(bets) THEN 10 * bets[s].stake ELSE 0]
Payouts(bets) == [s \in Selection |-> IF s \in Settled(bets) THEN bets[s].payout ELSE 0]

\* A table of bets has finitely many rows.
LEMMA SelectionFinite == IsFiniteSet(Selection)
<1> DEFINE Triples == Match \X (Targets \X Outcomes1x2)
           Shapes == [match : Match, target : Targets, outcome : Outcomes1x2]
           f == [x \in Triples |-> [match |-> x[1], target |-> x[2][1], outcome |-> x[2][2]]]
<1>1. IsFiniteSet({"1x2", "handicap"}) /\ IsFiniteSet(Outcomes1x2)
  <2>1. IsFiniteSet({"H"}) /\ IsFiniteSet({"1x2"})
    BY FS_Singleton
  <2>2. IsFiniteSet({"H"} \cup {"D"}) /\ IsFiniteSet({"1x2"} \cup {"handicap"})
    BY <2>1, FS_AddElement
  <2>3. IsFiniteSet(({"H"} \cup {"D"}) \cup {"A"})
    BY <2>2, FS_AddElement
  <2>4. /\ Outcomes1x2 = ({"H"} \cup {"D"}) \cup {"A"}
        /\ {"1x2", "handicap"} = {"1x2"} \cup {"handicap"}
    BY DEF Outcomes1x2
  <2> QED BY <2>2, <2>3, <2>4
<1>2. IsFiniteSet(Match) /\ IsFiniteSet(Targets)
  BY <1>1, LedgerAssumption, FS_Subset
<1>3. IsFiniteSet(Targets \X Outcomes1x2)
  BY <1>1, <1>2, FS_Product
<1>4. IsFiniteSet(Triples)
  BY <1>2, <1>3, FS_Product
<1>5. f \in Surjection(Triples, Shapes)
  <2>1. f \in [Triples -> Shapes]
    OBVIOUS
  <2>2. ASSUME NEW y \in Shapes PROVE \E x \in Triples : f[x] = y
    <3>1. <<y.match, <<y.target, y.outcome>>>> \in Triples
      OBVIOUS
    <3>2. f[<<y.match, <<y.target, y.outcome>>>>] = y
      BY <3>1
    <3> QED BY <3>1, <3>2
  <2> HIDE DEF f, Triples, Shapes
  <2> QED BY <2>1, <2>2 DEF Surjection
<1>6. IsFiniteSet(Shapes)
  <2> HIDE DEF f, Triples, Shapes
  <2> QED BY <1>4, <1>5, FS_Surjection
<1> QED BY <1>6, FS_Subset DEF Selection

\* The derived bankroll is what the cash account of the table would hold.
LEMMA BankrollIsCash ==
  ASSUME NEW bets \in [Selection -> Bet \cup {None}]
  PROVE  /\ Stakes(bets) \in [Selection -> Int] /\ Payouts(bets) \in [Selection -> Int]
         /\ SumFunction(Stakes(bets)) \in Int /\ SumFunction(Payouts(bets)) \in Int
         /\ Bankroll(bets) = InitialBankroll - SumFunction(Stakes(bets))
                                             + SumFunction(Payouts(bets))
         /\ SumFunction([s \in Placed(bets) |-> 10 * bets[s].stake]) = SumFunction(Stakes(bets))
         /\ SumFunction([s \in Settled(bets) |-> bets[s].payout]) = SumFunction(Payouts(bets))
<1> DEFINE R == [s \in Selection |-> IF s \in Settled(bets)
                                     THEN bets[s].payout - 10 * bets[s].stake ELSE 0]
           O == [s \in Selection |-> IF s \in Open(bets) THEN 10 * bets[s].stake ELSE 0]
           T == [s \in Selection |-> IF s \in Settled(bets) THEN 10 * bets[s].stake ELSE 0]
           S == Stakes(bets)
           P == Payouts(bets)
<1>1. \A s \in Placed(bets) : bets[s].stake \in Nat /\ bets[s].payout \in Nat
  <2>1. \A s \in Placed(bets) : bets[s] \in Bet
    BY DEF Placed
  <2> QED BY <2>1 DEF Bet
<1>2. /\ Settled(bets) \subseteq Placed(bets) /\ Open(bets) \subseteq Placed(bets)
      /\ Placed(bets) \subseteq Selection /\ Settled(bets) \cap Open(bets) = {}
      /\ Placed(bets) = Settled(bets) \cup Open(bets)
  BY DEF Settled, Open, Placed
<1>3. /\ R \in [Selection -> Int] /\ O \in [Selection -> Int] /\ T \in [Selection -> Int]
      /\ S \in [Selection -> Int] /\ P \in [Selection -> Int]
  BY <1>1, <1>2 DEF Stakes, Payouts
<1>4. \A s \in Selection : P[s] = R[s] + T[s] /\ S[s] = T[s] + O[s]
  BY <1>1, <1>2 DEF Stakes, Payouts
<1>5. /\ Realized(bets) = SumFunction(R)
      /\ OpenStakes(bets) = SumFunction(O)
      /\ SumFunction([s \in Placed(bets) |-> 10 * bets[s].stake]) = SumFunction(S)
      /\ SumFunction([s \in Settled(bets) |-> bets[s].payout]) = SumFunction(P)
  <2> DEFINE r == [s \in Settled(bets) |-> bets[s].payout - 10 * bets[s].stake]
             o == [s \in Open(bets) |-> 10 * bets[s].stake]
             t == [s \in Placed(bets) |-> 10 * bets[s].stake]
             q == [s \in Settled(bets) |-> bets[s].payout]
  <2>1. /\ DOMAIN r = Settled(bets) /\ \A s \in Settled(bets) : r[s] = R[s]
        /\ DOMAIN o = Open(bets) /\ \A s \in Open(bets) : o[s] = O[s]
        /\ DOMAIN t = Placed(bets) /\ \A s \in Placed(bets) : t[s] = S[s]
        /\ DOMAIN q = Settled(bets) /\ \A s \in Settled(bets) : q[s] = P[s]
    BY <1>2 DEF Stakes, Payouts
  <2>2. /\ \A s \in Selection \ Settled(bets) : R[s] = 0 /\ P[s] = 0
        /\ \A s \in Selection \ Open(bets) : O[s] = 0
        /\ \A s \in Selection \ Placed(bets) : S[s] = 0
    BY DEF Stakes, Payouts
  <2>3. Realized(bets) = SumFunction(r) /\ OpenStakes(bets) = SumFunction(o)
    BY DEF Realized, OpenStakes
  <2> HIDE DEF r, o, t, q, R, O, S, P
  <2>4. SumFunction(r) = SumFunction(R)
    <3>1. /\ R \in [Selection -> Int] /\ Settled(bets) \in SUBSET Selection
          /\ DOMAIN r = Settled(bets) /\ \A s \in Settled(bets) : r[s] = R[s]
          /\ \A s \in Selection \ Settled(bets) : R[s] = 0
      BY <1>2, <1>3, <2>1, <2>2
    <3> QED BY <3>1, SelectionFinite, SumExtends
  <2>5. SumFunction(o) = SumFunction(O)
    <3>1. /\ O \in [Selection -> Int] /\ Open(bets) \in SUBSET Selection
          /\ DOMAIN o = Open(bets) /\ \A s \in Open(bets) : o[s] = O[s]
          /\ \A s \in Selection \ Open(bets) : O[s] = 0
      BY <1>2, <1>3, <2>1, <2>2
    <3> QED BY <3>1, SelectionFinite, SumExtends
  <2>6. SumFunction(t) = SumFunction(S)
    <3>1. /\ S \in [Selection -> Int] /\ Placed(bets) \in SUBSET Selection
          /\ DOMAIN t = Placed(bets) /\ \A s \in Placed(bets) : t[s] = S[s]
          /\ \A s \in Selection \ Placed(bets) : S[s] = 0
      BY <1>2, <1>3, <2>1, <2>2
    <3> QED BY <3>1, SelectionFinite, SumExtends
  <2>7. SumFunction(q) = SumFunction(P)
    <3>1. /\ P \in [Selection -> Int] /\ Settled(bets) \in SUBSET Selection
          /\ DOMAIN q = Settled(bets) /\ \A s \in Settled(bets) : q[s] = P[s]
          /\ \A s \in Selection \ Settled(bets) : P[s] = 0
      BY <1>2, <1>3, <2>1, <2>2
    <3> QED BY <3>1, SelectionFinite, SumExtends
  <2>8. /\ t = [s \in Placed(bets) |-> 10 * bets[s].stake]
        /\ q = [s \in Settled(bets) |-> bets[s].payout]
    BY DEF t, q
  <2> QED BY <2>3, <2>4, <2>5, <2>6, <2>7, <2>8
<1> HIDE DEF R, O, T, S, P
<1>6. /\ SumFunction(R) \in Int /\ SumFunction(T) \in Int
      /\ SumFunction(P) = SumFunction(R) + SumFunction(T)
  BY <1>3, <1>4, SelectionFinite, SumAdds
<1>7. /\ SumFunction(O) \in Int
      /\ SumFunction(S) = SumFunction(T) + SumFunction(O)
  BY <1>3, <1>4, SelectionFinite, SumAdds
<1>8. Bankroll(bets) = InitialBankroll + SumFunction(R) - SumFunction(O)
  BY <1>5 DEF Bankroll
<1>9. InitialBankroll \in Int
  BY LedgerAssumption
<1>10. Bankroll(bets) = InitialBankroll - SumFunction(S) + SumFunction(P)
  BY <1>6, <1>7, <1>8, <1>9
<1>11. SumFunction(S) \in Int /\ SumFunction(P) \in Int
  BY <1>6, <1>7
<1> QED BY <1>3, <1>5, <1>10, <1>11 DEF S, P

-----------------------------------------------------------------------------
(* What the steps of a run do to the one transaction there is.             *)

\* The table with the settlements of the run.
Merged(p) == [s \in Selection |->
                IF tx[p].settled[s] # None THEN tx[p].settled[s] ELSE book[s]]

\* The steps of the one ledger process, field by field.
LEMMA RunSteps ==
  ASSUME TypeOK, NEW p \in Proc
  PROVE  /\ SettleRead(p) => \E tie \in BOOLEAN :
              /\ tx'[p].pc = "settle" /\ tx'[p].started = clock
              /\ tx'[p].settled = [s \in Selection |->
                                     IF s \in Due THEN SettledBet(s, tie) ELSE None]
              /\ tx'[p].placed = Unchanged
         /\ SumRealized(p) =>
              /\ tx'[p].pc = "realized" /\ tx'[p].realized = Realized(View(p))
              /\ tx'[p].started = tx[p].started /\ tx'[p].settled = tx[p].settled
              /\ tx'[p].placed = tx[p].placed
         /\ SumOpen(p) =>
              /\ tx'[p].pc = "place"
              /\ tx'[p].bank = InitialBankroll + tx[p].realized - OpenStakes(View(p))
              /\ tx'[p].realized = tx[p].realized
              /\ tx'[p].started = tx[p].started /\ tx'[p].settled = tx[p].settled
              /\ tx'[p].placed = tx[p].placed
         /\ PlaceRead(p) =>
              /\ tx'[p].pc = "insert"
              /\ tx'[p].placed = Slips(View(p), tx[p].bank, tx[p].started)
              /\ tx'[p].realized = tx[p].realized /\ tx'[p].bank = tx[p].bank
              /\ tx'[p].started = tx[p].started /\ tx'[p].settled = tx[p].settled
         /\ Commit(p) \/ IntegrityError(p) \/ Crash(p) => tx'[p] = NoRun
         /\ SettleRead(p) \/ SumRealized(p) \/ SumOpen(p) \/ PlaceRead(p)
              \/ IntegrityError(p) \/ Crash(p) => UNCHANGED <<clock, fed, book>>
         /\ Commit(p) => UNCHANGED <<clock, fed>> /\ book' = View(p)
<1>1. tx \in [Proc -> Run]
  BY DEF TypeOK, OwnTypeOK
<1>2. ASSUME SettleRead(p)
      PROVE  \E tie \in BOOLEAN :
              /\ tx'[p].pc = "settle" /\ tx'[p].started = clock
              /\ tx'[p].settled = [s \in Selection |->
                                     IF s \in Due THEN SettledBet(s, tie) ELSE None]
              /\ tx'[p].placed = Unchanged
  <2> PICK tie \in BOOLEAN :
        tx' = [tx EXCEPT ![p] = [NoRun EXCEPT !.pc = "settle", !.started = clock,
                 !.settled = [s \in Selection |->
                                IF s \in Due THEN SettledBet(s, tie) ELSE None]]]
    BY <1>2 DEF SettleRead
  <2> DEFINE upd == [s \in Selection |-> IF s \in Due THEN SettledBet(s, tie) ELSE None]
             r == [NoRun EXCEPT !.pc = "settle", !.started = clock, !.settled = upd]
  <2>1. tx' = [tx EXCEPT ![p] = r]
    OBVIOUS
  <2> HIDE DEF upd
  <2>2. r.pc = "settle" /\ r.started = clock /\ r.settled = upd /\ r.placed = Unchanged
    BY DEF NoRun
  <2> HIDE DEF r
  <2>3. tx'[p].pc = "settle" /\ tx'[p].started = clock /\ tx'[p].settled = upd
        /\ tx'[p].placed = Unchanged
    BY <1>1, <2>1, <2>2
  <2> QED BY <2>3 DEF upd
<1>3. tx[p] \in Run
  BY <1>1
<1>4. ASSUME NEW a, NEW n, tx' = [tx EXCEPT ![p].pc = a, ![p].realized = n]
      PROVE  tx'[p].pc = a /\ tx'[p].realized = n /\ tx'[p].started = tx[p].started
             /\ tx'[p].settled = tx[p].settled /\ tx'[p].placed = tx[p].placed
  BY <1>1, <1>3, <1>4 DEF Run
<1>5. ASSUME NEW a, NEW n, tx' = [tx EXCEPT ![p].pc = a, ![p].bank = n]
      PROVE  tx'[p].pc = a /\ tx'[p].bank = n /\ tx'[p].started = tx[p].started
             /\ tx'[p].settled = tx[p].settled /\ tx'[p].placed = tx[p].placed
             /\ tx'[p].realized = tx[p].realized
  BY <1>1, <1>3, <1>5 DEF Run
<1>6. ASSUME NEW a, NEW u, tx' = [tx EXCEPT ![p].pc = a, ![p].placed = u]
      PROVE  tx'[p].pc = a /\ tx'[p].placed = u /\ tx'[p].started = tx[p].started
             /\ tx'[p].settled = tx[p].settled /\ tx'[p].bank = tx[p].bank
             /\ tx'[p].realized = tx[p].realized
  BY <1>1, <1>3, <1>6 DEF Run
<1>7. Commit(p) \/ IntegrityError(p) \/ Crash(p) => tx'[p] = NoRun
  BY <1>1 DEF Commit, IntegrityError, Crash
<1>8. SettleRead(p) \/ SumRealized(p) \/ SumOpen(p) \/ PlaceRead(p)
        \/ IntegrityError(p) \/ Crash(p) => UNCHANGED <<clock, fed, book>>
  BY DEF SettleRead, SumRealized, SumOpen, PlaceRead, IntegrityError, Crash
<1>9. Commit(p) => UNCHANGED <<clock, fed>> /\ book' = View(p)
  BY DEF Commit
<1>10. SumRealized(p) =>
         tx' = [tx EXCEPT ![p].pc = "realized", ![p].realized = Realized(View(p))]
  BY DEF SumRealized
<1>11. SumOpen(p) =>
         tx' = [tx EXCEPT ![p].pc = "place",
                  ![p].bank = InitialBankroll + tx[p].realized - OpenStakes(View(p))]
  BY DEF SumOpen
<1>12. PlaceRead(p) =>
         tx' = [tx EXCEPT ![p].pc = "insert",
                  ![p].placed = Slips(View(p), tx[p].bank, tx[p].started)]
  BY DEF PlaceRead
<1>13. SumRealized(p) =>
              /\ tx'[p].pc = "realized" /\ tx'[p].realized = Realized(View(p))
              /\ tx'[p].started = tx[p].started /\ tx'[p].settled = tx[p].settled
              /\ tx'[p].placed = tx[p].placed
  BY ONLY <1>4, <1>10
<1>14. SumOpen(p) =>
              /\ tx'[p].pc = "place"
              /\ tx'[p].bank = InitialBankroll + tx[p].realized - OpenStakes(View(p))
              /\ tx'[p].realized = tx[p].realized
              /\ tx'[p].started = tx[p].started /\ tx'[p].settled = tx[p].settled
              /\ tx'[p].placed = tx[p].placed
  BY ONLY <1>5, <1>11
<1>15. PlaceRead(p) =>
              /\ tx'[p].pc = "insert"
              /\ tx'[p].placed = Slips(View(p), tx[p].bank, tx[p].started)
              /\ tx'[p].realized = tx[p].realized /\ tx'[p].bank = tx[p].bank
              /\ tx'[p].started = tx[p].started /\ tx'[p].settled = tx[p].settled
  BY ONLY <1>6, <1>12
<1> QED BY ONLY <1>2, <1>7, <1>8, <1>9, <1>13, <1>14, <1>15

\* A settled bet that no run has read as pending is not written, and not read as such.
LEMMA SettledKept ==
  ASSUME LedgerInv, [Next]_vars, NEW s \in Settled(book), HeldByNone(s)
  PROVE  book'[s] = book[s] /\ HeldByNone(s)'
<1>1. s \in Selection /\ book[s] # None /\ s \notin Due /\ TypeOK
  BY DEF Settled, Placed, Open, Due, LedgerInv
<1>2. ASSUME NEW p \in Proc, Commit(p)
      PROVE  book'[s] = book[s]
  <2>1. book' = View(p) /\ tx[p].placed[s] = None /\ tx[p].settled[s] = None
    BY <1>1, <1>2 DEF Commit, Conflicts, Placed, HeldByNone
  <2> QED BY <1>1, <2>1, ViewFacts
<1>3. ASSUME NEW p \in Proc, LedgerUpdate(p) \/ Crash(p)
      PROVE  (Commit(p) \/ UNCHANGED book) /\ HeldByNone(s)'
  <2>1. Commit(p) \/ UNCHANGED book
    BY <1>3 DEF LedgerUpdate, SettleRead, SumRealized, SumOpen, PlaceRead, IntegrityError, Crash
  <2>2. tx'[p].settled[s] = None
    <3>1. CASE SettleRead(p)
      <4> PICK tie \in BOOLEAN :
            tx' = [tx EXCEPT ![p] = [NoRun EXCEPT !.pc = "settle", !.started = clock,
                     !.settled = [x \in Selection |->
                                    IF x \in Due THEN SettledBet(x, tie) ELSE None]]]
        BY <3>1 DEF SettleRead
      <4> DEFINE upd == [x \in Selection |-> IF x \in Due THEN SettledBet(x, tie) ELSE None]
                 r == [NoRun EXCEPT !.pc = "settle", !.started = clock, !.settled = upd]
      <4>1. tx' = [tx EXCEPT ![p] = r] /\ tx \in [Proc -> Run]
        BY <1>1 DEF TypeOK, OwnTypeOK
      <4>2. upd[s] = None
        BY <1>1
      <4> HIDE DEF upd
      <4>3. r.settled = upd
        BY DEF NoRun
      <4> HIDE DEF r
      <4> QED BY <4>1, <4>2, <4>3
    <3>2. CASE SumRealized(p) \/ SumOpen(p) \/ PlaceRead(p)
      <4>1. tx'[p].settled = tx[p].settled
        BY <1>1, <3>2, RunSteps
      <4> QED BY <4>1 DEF HeldByNone
    <3>3. CASE Commit(p) \/ IntegrityError(p) \/ Crash(p)
      <4>1. tx'[p] = NoRun
        BY <1>1, <3>3 DEF Commit, IntegrityError, Crash, TypeOK, OwnTypeOK
      <4> QED BY <1>1, <4>1 DEF NoRun, Unchanged
    <3> QED BY <1>3, <3>1, <3>2, <3>3 DEF LedgerUpdate
  <2>3. \A q \in Proc : q # p => tx'[q] = tx[q]
    BY <1>1, <1>3 DEF LedgerUpdate, SettleRead, SumRealized, SumOpen, PlaceRead, Commit,
                      IntegrityError, Crash, TypeOK, OwnTypeOK
  <2> QED BY <2>1, <2>2, <2>3 DEF HeldByNone
<1>4. Tick \/ Feeds \/ UNCHANGED vars => UNCHANGED <<book, tx>>
  BY <1>1, FeedsType DEF Tick, own, vars
<1>5. UNCHANGED <<book, tx>> => book'[s] = book[s] /\ HeldByNone(s)'
  BY DEF HeldByNone
<1> QED BY <1>2, <1>3, <1>4, <1>5 DEF Next

(* A settled bet is never written again, whatever corrections of its       *)
(* result arrive, of any number of ledger processes; only a run that read  *)
(* it before it was settled, beside another, still settles it.             *)
THEOREM SettledStaysSettled == Spec => SettledNeverTouched
<1>1. LedgerInv /\ [Next]_vars =>
        [\A s \in Settled(book) : HeldByNone(s) => book'[s] = book[s] /\ HeldByNone(s)']_vars
  BY SettledKept
<1> QED BY <1>1, LedgerInvariant, PTL DEF Spec, SettledNeverTouched

\* Tick, the other jobs and a step that does nothing leave the ledger alone.
LEMMA OthersSteps ==
  ASSUME LedgerInv, Tick \/ Feeds \/ UNCHANGED vars
  PROVE  UNCHANGED <<book, tx>>
BY FeedsType DEF Tick, own, vars, LedgerInv

-----------------------------------------------------------------------------
(* The inductive invariant about money.                                    *)

\* An open bet has paid nothing, and a settled one says when it was settled.
Clean(b) ==
  /\ b.status = "pending" => b.payout = 0 /\ b.settledAt = None
  /\ b.status # "pending" => b.settledAt # None

\* The figures a run carries are those of the table with its settlements,
\* and what it writes is stamped with its start.
MoneyInv(p) ==
  /\ \A s \in Placed(book) : Clean(book[s])
  /\ \A s \in Placed(tx[p].settled) :
       tx[p].settled[s].settledAt = tx[p].started /\ Clean(tx[p].settled[s])
  /\ \A s \in Placed(tx[p].placed) :
       /\ Clean(tx[p].placed[s])
       /\ tx[p].placed[s].placedAt = tx[p].started /\ tx[p].placed[s].bank = tx[p].bank
  /\ tx[p].pc \in {"realized", "place", "insert"} => tx[p].realized = Realized(Merged(p))
  /\ tx[p].pc \in {"place", "insert"} => tx[p].bank = Bankroll(Merged(p))

\* Until it places bets, a run reads the table with its settlements.
LEMMA ViewIsMerged ==
  ASSUME LedgerInv, NEW p \in Proc, tx[p].pc # "insert"
  PROVE  View(p) = Merged(p)
<1>1. \A s \in Selection : tx[p].placed[s] = None
  BY DEF LedgerInv, InsertInv, Placed
<1> QED BY <1>1 DEF View, Merged

\* What a settled bet keeps and gets.
LEMMA SettledBetStamp ==
  ASSUME LedgerInv, NEW s \in Due, NEW tie \in BOOLEAN
  PROVE  /\ SettledBet(s, tie).settledAt = clock
         /\ Clean(SettledBet(s, tie))
<1>1. book[s] \in Bet /\ clock \in Time
  BY DEF Due, Open, Placed, LedgerInv, TypeOK, OwnTypeOK, FedTypeOK
<1>2. PICK st, pay, src : SettledBet(s, tie) = [book[s] EXCEPT !.status = st, !.payout = pay,
                                           !.settledAt = clock, !.source = src]
  BY DEF SettledBet
<1>3. SettledBet(s, tie).settledAt = clock
  BY <1>1, <1>2 DEF Bet
<1>4. SettledBet(s, tie).status # "pending"
  BY SettledBetFacts
<1> QED BY <1>1, <1>3, <1>4, LedgerAssumption DEF Clean

\* What place_bets writes is open, and stamped.
LEMMA SlipStamp ==
  ASSUME NEW s, NEW bank, NEW now, Slip(s, bank, now) # None
  PROVE  LET b == Slip(s, bank, now)
         IN  Clean(b) /\ b.placedAt = now /\ b.bank = bank
BY DEF Slip, Clean

\* Initially there are no bets.
LEMMA MoneyInit ==
  ASSUME Init, NEW p \in Proc
  PROVE  MoneyInv(p)
BY DEF Init, NoRun, Unchanged, Placed, MoneyInv

\* Every step of a single ledger process keeps its figures.
LEMMA MoneyStep ==
  ASSUME NEW p, Proc = {p}, LedgerInv, SingleWriterInv, MoneyInv(p), [Next]_vars
  PROVE  MoneyInv(p)'
<1>1. TypeOK /\ TypeOK' /\ p \in Proc /\ LedgerInv'
  BY TypeStep, InvStep DEF LedgerInv
<1>2. CASE Tick \/ Feeds \/ UNCHANGED vars
  <2>1. UNCHANGED <<book, tx>>
    BY <1>2, OthersSteps
  <2>2. Merged(p)' = Merged(p)
    BY <2>1 DEF Merged
  <2> QED BY <2>1, <2>2 DEF MoneyInv, Placed
<1>3. CASE IntegrityError(p) \/ Crash(p)
  <2>1. tx'[p] = NoRun /\ UNCHANGED book
    BY <1>1, <1>3, RunSteps
  <2> QED BY <2>1 DEF MoneyInv, Placed, NoRun, Unchanged
<1>4. CASE SettleRead(p)
  <2>1. PICK tie \in BOOLEAN :
          /\ tx'[p].pc = "settle" /\ tx'[p].started = clock
          /\ tx'[p].settled = [s \in Selection |->
                                 IF s \in Due THEN SettledBet(s, tie) ELSE None]
          /\ tx'[p].placed = Unchanged
    BY <1>1, <1>4, RunSteps
  <2>2. UNCHANGED book
    BY <1>1, <1>4, RunSteps
  <2>3. ASSUME NEW s \in Placed(tx'[p].settled)
        PROVE  tx'[p].settled[s].settledAt = clock /\ Clean(tx'[p].settled[s])
    <3>1. s \in Due /\ tx'[p].settled[s] = SettledBet(s, tie)
      BY <2>1 DEF Placed
    <3> QED BY <3>1, SettledBetStamp
  <2>4. Placed(Unchanged) = {}
    BY DEF Placed, Unchanged
  <2>5. \A s \in Placed(book)' : Clean(book[s])'
    BY <2>2 DEF MoneyInv, Placed
  <2>6. \A s \in Placed(tx[p].settled)' :
          (tx[p].settled[s].settledAt = tx[p].started /\ Clean(tx[p].settled[s]))'
    BY <2>1, <2>3
  <2> QED BY <2>1, <2>4, <2>5, <2>6 DEF MoneyInv
<1>5. CASE SumRealized(p)
  <2>1. /\ tx'[p].pc = "realized" /\ tx'[p].realized = Realized(View(p))
        /\ tx'[p].started = tx[p].started /\ tx'[p].settled = tx[p].settled
        /\ tx'[p].placed = tx[p].placed /\ UNCHANGED book
    BY <1>1, <1>5, RunSteps
  <2>2. Merged(p)' = Merged(p)
    BY <2>1 DEF Merged
  <2>3. View(p) = Merged(p) /\ Placed(tx[p].placed) = {}
    BY <1>1, <1>5, ViewIsMerged DEF SumRealized, LedgerInv, InsertInv
  <2> QED BY <2>1, <2>2, <2>3 DEF MoneyInv, Placed
<1>6. CASE SumOpen(p)
  <2>1. /\ tx'[p].pc = "place"
        /\ tx'[p].bank = InitialBankroll + tx[p].realized - OpenStakes(View(p))
        /\ tx'[p].realized = tx[p].realized
        /\ tx'[p].started = tx[p].started /\ tx'[p].settled = tx[p].settled
        /\ tx'[p].placed = tx[p].placed /\ UNCHANGED book
    BY <1>1, <1>6, RunSteps
  <2>2. Merged(p)' = Merged(p)
    BY <2>1 DEF Merged
  <2>3. View(p) = Merged(p) /\ Placed(tx[p].placed) = {} /\ tx[p].pc = "realized"
    BY <1>1, <1>6, ViewIsMerged DEF SumOpen, LedgerInv, InsertInv
  <2>4. tx'[p].bank = Bankroll(Merged(p))
    BY <2>1, <2>3 DEF MoneyInv, Bankroll
  <2>5. Bankroll(Merged(p))' = Bankroll(Merged(p))
    BY <2>2
  <2> QED BY <2>1, <2>2, <2>3, <2>4 DEF MoneyInv, Placed
<1>7. CASE PlaceRead(p)
  <2>1. /\ tx'[p].pc = "insert"
        /\ tx'[p].placed = Slips(View(p), tx[p].bank, tx[p].started)
        /\ tx'[p].realized = tx[p].realized /\ tx'[p].bank = tx[p].bank
        /\ tx'[p].started = tx[p].started /\ tx'[p].settled = tx[p].settled
        /\ UNCHANGED book /\ tx[p].pc = "place"
    BY <1>1, <1>7, RunSteps DEF PlaceRead
  <2>2. Merged(p)' = Merged(p)
    BY <2>1 DEF Merged
  <2>3. ASSUME NEW s \in Placed(tx'[p].placed)
        PROVE  /\ Clean(tx'[p].placed[s])
               /\ tx'[p].placed[s].placedAt = tx[p].started
               /\ tx'[p].placed[s].bank = tx[p].bank
    <3>1. /\ tx'[p].placed[s] = Slip(s, tx[p].bank, tx[p].started)
          /\ Slip(s, tx[p].bank, tx[p].started) # None
      BY <2>1 DEF Placed, Slips
    <3> QED BY <3>1, SlipStamp
  <2>4. \A s \in Placed(tx[p].placed)' :
          (/\ Clean(tx[p].placed[s])
           /\ tx[p].placed[s].placedAt = tx[p].started /\ tx[p].placed[s].bank = tx[p].bank)'
    BY <2>1, <2>3
  <2> QED BY <2>1, <2>2, <2>4 DEF MoneyInv, Placed
<1>8. CASE Commit(p)
  <2>1. tx'[p] = NoRun /\ book' = View(p)
    BY <1>1, <1>8, RunSteps
  <2>2. ASSUME NEW s \in Selection, book'[s] # None
        PROVE  Clean(book'[s])
    BY <2>1, <2>2 DEF MoneyInv, View, Placed
  <2>3. \A s \in Placed(book)' : Clean(book[s])'
    BY <2>2 DEF Placed
  <2> QED BY <2>1, <2>3 DEF MoneyInv, Placed, NoRun, Unchanged
<1> QED BY <1>1, <1>2, <1>3, <1>4, <1>5, <1>6, <1>7, <1>8 DEF Next, LedgerUpdate

\* The figures a single ledger process carries are always those of the table.
LEMMA Money ==
  ASSUME NEW p, Proc = {p}
  PROVE  Spec => [](LedgerInv /\ SingleWriterInv /\ MoneyInv(p))
<1>1. Init => LedgerInv /\ SingleWriterInv /\ MoneyInv(p)
  <2>1. Init => MoneyInv(p)
    BY MoneyInit
  <2> QED BY <2>1, InitInv DEF Init, NoRun, Unchanged, SingleWriterInv, Conflicts, Placed
<1>2. /\ LedgerInv /\ SingleWriterInv /\ MoneyInv(p)
      /\ [Next]_vars
      => (LedgerInv /\ SingleWriterInv /\ MoneyInv(p))'
  BY InvStep, SingleWriterStep, MoneyStep
<1> QED BY <1>1, <1>2, PTL DEF Spec

-----------------------------------------------------------------------------
(* The commit of a run.                                                    *)

\* A commit leaves a bet alone, settles an open one at its terms, or adds one.
LEMMA CommitChanges ==
  ASSUME NEW p, Proc = {p}, LedgerInv, SingleWriterInv, MoneyInv(p), Commit(p),
         NEW s \in Selection
  PROVE  \/ book'[s] = book[s]
         \/ /\ book[s] # None /\ book[s].status = "pending"
            /\ book'[s] # None /\ book'[s].status # "pending"
            /\ Terms(book'[s]) = Terms(book[s])
            /\ book'[s].settledAt = tx[p].started
         \/ /\ book[s] = None
            /\ book'[s] # None /\ book'[s].status = "pending" /\ book'[s].payout = 0
            /\ book'[s].settledAt = None
            /\ book'[s].placedAt = tx[p].started /\ book'[s].bank = tx[p].bank
            /\ WithinLimits(book'[s]) /\ book'[s] = tx[p].placed[s]
<1>1. p \in Proc /\ book' = View(p)
  BY DEF Commit
<1>2. CASE tx[p].placed[s] # None
  <2>1. book'[s] = tx[p].placed[s] /\ book'[s].status = "pending" /\ WithinLimits(book'[s])
    BY <1>1, <1>2, ViewFacts
  <2>2. book[s] = None
    BY <1>2 DEF Commit, Conflicts, Placed
  <2>3. /\ Clean(book'[s]) /\ book'[s].placedAt = tx[p].started
        /\ book'[s].bank = tx[p].bank
    BY <1>2, <2>1 DEF MoneyInv, Placed
  <2> QED BY <1>2, <2>1, <2>2, <2>3 DEF Clean
<1>3. CASE tx[p].placed[s] = None /\ tx[p].settled[s] # None
  <2>1. /\ book'[s] = tx[p].settled[s] /\ book[s] # None
        /\ Terms(book'[s]) = Terms(book[s])
    BY <1>1, <1>3, ViewFacts
  <2>2. /\ s \in Open(book) /\ tx[p].settled[s].status # "pending"
        /\ tx[p].settled[s].settledAt = tx[p].started
    BY <1>1, <1>3 DEF SingleWriterInv, LedgerInv, UpdateInv, MoneyInv, Placed
  <2> QED BY <1>3, <2>1, <2>2 DEF Open
<1>4. CASE tx[p].placed[s] = None /\ tx[p].settled[s] = None
  BY <1>1, <1>4, ViewFacts
<1> QED BY <1>2, <1>3, <1>4

\* Only a commit changes the table.
LEMMA OnlyCommits ==
  ASSUME NEW p, Proc = {p}, LedgerInv, [Next]_vars
  PROVE  Commit(p) \/ UNCHANGED book
<1>1. TypeOK /\ p \in Proc
  BY DEF LedgerInv
<1>2. Tick \/ Feeds \/ UNCHANGED vars => UNCHANGED book
  BY OthersSteps
<1>3. LedgerUpdate(p) \/ Crash(p) => Commit(p) \/ UNCHANGED book
  BY <1>1, RunSteps DEF LedgerUpdate
<1> QED BY <1>2, <1>3 DEF Next

-----------------------------------------------------------------------------
(* The refinement of the betting book.                                     *)

\* An empty table is an empty betting book, with the initial bankroll.
LEMMA BookInit == Init => BB!Init
<1> SUFFICES ASSUME Init PROVE BB!Init
  OBVIOUS
<1>1. \A s \in Selection : book[s] = None
  BY DEF Init
<1>2. Placed(book) = {} /\ Settled(book) = {} /\ book \in [Selection -> Bet \cup {None}]
  BY <1>1 DEF Placed, Settled, Init
<1>3. SumFunction(Stakes(book)) = 0 /\ SumFunction(Payouts(book)) = 0
  <2> DEFINE z == [s \in Selection |-> 0]
  <2>1. Stakes(book) = z /\ Payouts(book) = z
    BY <1>2 DEF Stakes, Payouts
  <2>2. z \in [Selection -> Int] /\ \A s \in Selection : z[s] = z[s] + z[s]
    OBVIOUS
  <2> HIDE DEF z
  <2>3. SumFunction(z) \in Int /\ SumFunction(z) = SumFunction(z) + SumFunction(z)
    BY <2>2, SelectionFinite, SumAdds
  <2>4. SumFunction(z) = 0
    <3> DEFINE y == SumFunction(z)
    <3>1. y \in Int /\ y = y + y
      BY <2>3
    <3> HIDE DEF y
    <3>2. y = 0
      BY <3>1
    <3> QED BY <3>2 DEF y
  <2> QED BY <2>1, <2>4
<1>4. Bankroll(book) = InitialBankroll
  <2>1. Bankroll(book) = InitialBankroll - SumFunction(Stakes(book)) + SumFunction(Payouts(book))
    BY <1>2, BankrollIsCash
  <2>2. Bankroll(book) = InitialBankroll - 0 + 0 /\ InitialBankroll \in Int
    BY <1>3, <2>1, LedgerAssumption
  <2> QED BY <2>2
<1>5. [s \in Selection |-> AbstractSlip(s)] = [s \in Selection |-> BB!Blank]
  BY <1>1 DEF AbstractSlip, BB!Blank
<1> QED BY <1>4, <1>5 DEF BB!Init

\* The book adds up as the ledger does.
LEMMA SameSum == ASSUME NEW f PROVE BB!SumFunction(f) = SumFunction(f)
BY DEF SumFunction, SumFunctionOnSet, FoldFunctionOnSet,
       MapThenFoldSet, BB!SumFunction, BB!SumFunctionOnSet, BB!FoldFunctionOnSet,
       BB!MapThenFoldSet

\* A commit is one step of the book: the slips it opens and closes, and the purse.
LEMMA CommitRecords ==
  ASSUME NEW p, Proc = {p}, LedgerInv, SingleWriterInv, MoneyInv(p), [Next]_vars, Commit(p)
  PROVE  BB!Record
<1>1. TypeOK /\ TypeOK' /\ p \in Proc
  BY TypeStep DEF LedgerInv
<1>2. /\ book \in [Selection -> Bet \cup {None}] /\ book' \in [Selection -> Bet \cup {None}]
  BY <1>1 DEF TypeOK, OwnTypeOK
<1> DEFINE new(s) == AbstractSlip(s)'
           Old == {s \in Selection : AbstractSlip(s).state = "blank" /\ new(s).state # "blank"}
           Shut == {s \in Selection : AbstractSlip(s).state = "open" /\ new(s).state = "closed"}
<1>3. BB!Opened = Old /\ BB!Closed = Shut
  BY DEF BB!Opened, BB!Closed
<1>4. \A s \in Selection :
        /\ s \in Old <=> (book[s] = None /\ book'[s] # None)
        /\ s \in Shut <=> (s \in Open(book) /\ s \in Settled(book'))
  <2> TAKE s \in Selection
  <2>1. /\ AbstractSlip(s).state = IF book[s] = None THEN "blank"
              ELSE IF book[s].status = "pending" THEN "open" ELSE "closed"
        /\ new(s).state = IF book'[s] = None THEN "blank"
              ELSE IF book'[s].status = "pending" THEN "open" ELSE "closed"
    BY <1>1 DEF AbstractSlip
  <2> HIDE DEF new
  <2> QED BY <2>1 DEF Open, Settled, Placed
<1>5. ASSUME NEW s \in Selection
      PROVE  BB!MayBecome(AbstractSlip(s), new(s))
  <2>1. CASE book'[s] = book[s]
    BY <2>1 DEF AbstractSlip, BB!MayBecome
  <2>2. CASE /\ book[s] # None /\ book[s].status = "pending"
             /\ book'[s] # None /\ book'[s].status # "pending"
             /\ Terms(book'[s]) = Terms(book[s])
    BY <2>2 DEF AbstractSlip, BB!MayBecome, Terms
  <2>3. CASE /\ book[s] = None
             /\ book'[s] # None /\ book'[s].status = "pending" /\ book'[s].payout = 0
    BY <2>3 DEF AbstractSlip, BB!MayBecome
  <2> QED BY <2>1, <2>2, <2>3, CommitChanges
<1> DEFINE In  == [s \in Selection |-> IF s \in Shut THEN new(s).payout ELSE 0]
           Out == [s \in Selection |-> IF s \in Old THEN new(s).stake ELSE 0]
<1>6. /\ In \in [Selection -> Int] /\ Out \in [Selection -> Int]
      /\ \A s \in Selection : /\ Payouts(book')[s] = Payouts(book)[s] + In[s]
                              /\ Stakes(book')[s] = Stakes(book)[s] + Out[s]
  <2> SUFFICES ASSUME NEW s \in Selection
               PROVE  /\ In[s] \in Int /\ Out[s] \in Int
                      /\ Payouts(book')[s] = Payouts(book)[s] + In[s]
                      /\ Stakes(book')[s] = Stakes(book)[s] + Out[s]
    <3> HIDE DEF Shut, Old, new
    <3> QED OBVIOUS
  <2>0. /\ book[s] # None => book[s].stake \in Nat /\ book[s].payout \in Nat
        /\ book'[s] # None => book'[s].stake \in Nat /\ book'[s].payout \in Nat
        /\ book'[s] # None => new(s).stake = 10 * book'[s].stake /\ new(s).payout = book'[s].payout
    <3>1. /\ book[s] # None => book[s] \in Bet
          /\ book'[s] # None => book'[s] \in Bet
      BY <1>2
    <3> QED BY <3>1 DEF Bet, AbstractSlip
  <2>00. /\ s \in Old <=> (book[s] = None /\ book'[s] # None)
         /\ s \in Shut <=> (s \in Open(book) /\ s \in Settled(book'))
    BY <1>4
  <2> HIDE DEF Shut, Old, new
  <2>1. CASE book'[s] = book[s]
    <3>1. s \notin Old /\ s \notin Shut
      BY <2>00, <2>1 DEF Open, Settled, Placed
    <3> QED BY <2>0, <2>1, <3>1 DEF Stakes, Payouts, Placed, Settled
  <2>2. CASE /\ book[s] # None /\ book[s].status = "pending"
             /\ book'[s] # None /\ book'[s].status # "pending"
             /\ Terms(book'[s]) = Terms(book[s])
    <3>1. s \notin Old /\ s \in Shut /\ book'[s].stake = book[s].stake
      BY <2>00, <2>2 DEF Open, Settled, Placed, Terms
    <3> QED BY <2>0, <2>2, <3>1 DEF Stakes, Payouts, Placed, Settled
  <2>3. CASE /\ book[s] = None
             /\ book'[s] # None /\ book'[s].status = "pending" /\ book'[s].payout = 0
    <3>1. s \in Old /\ s \notin Shut
      BY <2>00, <2>3 DEF Open, Settled, Placed
    <3> QED BY <2>0, <2>3, <3>1 DEF Stakes, Payouts, Placed, Settled
  <2> QED BY <2>1, <2>2, <2>3, CommitChanges
<1> DEFINE paid == [s \in BB!Closed |-> new(s).payout]
           staked == [s \in BB!Opened |-> new(s).stake]
<1>7. SumFunction(paid) = SumFunction(In) /\ SumFunction(staked) = SumFunction(Out)
  <2>1. /\ Shut \in SUBSET Selection /\ DOMAIN paid = Shut
        /\ \A s \in Shut : paid[s] = In[s]
        /\ \A s \in Selection \ Shut : In[s] = 0
    <3> HIDE DEF new
    <3> QED BY <1>3
  <2>2. /\ Old \in SUBSET Selection /\ DOMAIN staked = Old
        /\ \A s \in Old : staked[s] = Out[s]
        /\ \A s \in Selection \ Old : Out[s] = 0
    <3> HIDE DEF new
    <3> QED BY <1>3
  <2> HIDE DEF paid, staked, In, Out, Shut, Old
  <2>3. SumFunction(paid) = SumFunction(In)
    BY <1>6, <2>1, SelectionFinite, SumExtends
  <2>4. SumFunction(staked) = SumFunction(Out)
    <3>1. Out \in [Selection -> Int]
      BY <1>6
    <3> QED BY ONLY <2>2, <3>1, SelectionFinite, SumExtends
  <2> QED BY <2>3, <2>4
<1>8. Bankroll(book') = Bankroll(book) + SumFunction(In) - SumFunction(Out)
  <2> HIDE DEF In, Out
  <2> DEFINE a == SumFunction(Stakes(book))
             b == SumFunction(Payouts(book))
             c == SumFunction(Stakes(book'))
             d == SumFunction(Payouts(book'))
  <2>1. /\ Stakes(book) \in [Selection -> Int] /\ Payouts(book) \in [Selection -> Int]
        /\ a \in Int /\ b \in Int /\ Bankroll(book) = InitialBankroll - a + b
    BY <1>2, BankrollIsCash
  <2>2. /\ Stakes(book') \in [Selection -> Int] /\ Payouts(book') \in [Selection -> Int]
        /\ c \in Int /\ d \in Int /\ Bankroll(book') = InitialBankroll - c + d
    BY <1>2, BankrollIsCash
  <2>3. SumFunction(Out) \in Int /\ c = a + SumFunction(Out)
    <3>1. /\ Out \in [Selection -> Int] /\ Stakes(book) \in [Selection -> Int]
          /\ Stakes(book') \in [Selection -> Int]
          /\ \A s \in Selection : Stakes(book')[s] = Stakes(book)[s] + Out[s]
      BY <1>6, <2>1, <2>2
    <3> QED BY <3>1, SelectionFinite, SumAdds
  <2>4. SumFunction(In) \in Int /\ d = b + SumFunction(In)
    <3>1. /\ In \in [Selection -> Int] /\ Payouts(book) \in [Selection -> Int]
          /\ Payouts(book') \in [Selection -> Int]
          /\ \A s \in Selection : Payouts(book')[s] = Payouts(book)[s] + In[s]
      BY <1>6, <2>1, <2>2
    <3> QED BY <3>1, SelectionFinite, SumAdds
  <2>5. InitialBankroll \in Int
    BY LedgerAssumption
  <2> HIDE DEF a, b, c, d
  <2> QED BY <2>1, <2>2, <2>3, <2>4, <2>5
<1>9. Bankroll(book)' = Bankroll(book) + SumFunction(paid) - SumFunction(staked)
  <2>1. Bankroll(book)' = Bankroll(book')
    BY DEF Bankroll, Realized, OpenStakes, Settled, Open, Placed
  <2> HIDE DEF In, Out, paid, staked
  <2> QED BY <1>7, <1>8, <2>1
<1> DEFINE slips == [s \in Selection |-> AbstractSlip(s)]
<1>10. /\ \A s \in Selection : slips[s] = AbstractSlip(s) /\ slips'[s] = new(s)
       /\ [s \in BB!Closed |-> slips'[s].payout] = paid
       /\ [s \in BB!Opened |-> slips'[s].stake] = staked
  <2>1. \A s \in Selection : slips[s] = AbstractSlip(s) /\ slips'[s] = new(s)
    OBVIOUS
  <2>2. BB!Closed \subseteq Selection /\ BB!Opened \subseteq Selection
    BY DEF BB!Closed, BB!Opened
  <2> HIDE DEF slips, new
  <2> QED BY <2>1, <2>2
<1>11. \A s \in Selection : BB!MayBecome(slips[s], slips'[s])
  <2> HIDE DEF slips, new
  <2> QED BY <1>5, <1>10
<1>12. Bankroll(book)' = Bankroll(book) + SumFunction([s \in BB!Closed |-> slips'[s].payout])
                                       - SumFunction([s \in BB!Opened |-> slips'[s].stake])
  <2> HIDE DEF slips, paid, staked
  <2> QED BY <1>9, <1>10
<1> QED BY <1>11, <1>12, SameSum DEF BB!Record

(* One slip per selection, opened once and closed once, and the bankroll   *)
(* _bankroll_now derives from the table is the purse every stake leaves    *)
(* and every payout enters: the ledger implements the betting book.        *)
THEOREM BankrollIsThePurse ==
  ASSUME NEW p, Proc = {p}
  PROVE  Spec => ImplementsBettingBook
<1>1. LedgerInv /\ SingleWriterInv /\ MoneyInv(p) /\ [Next]_vars
        => [BB!Record]_(BB!bookVars)
  <2> SUFFICES ASSUME LedgerInv, SingleWriterInv, MoneyInv(p), [Next]_vars
               PROVE  BB!Record \/ UNCHANGED BB!bookVars
    OBVIOUS
  <2>1. CASE UNCHANGED book
    BY <2>1 DEF BB!bookVars, AbstractSlip, Bankroll, Realized, OpenStakes, Settled, Open, Placed
  <2> QED BY <2>1, OnlyCommits, CommitRecords
<1>2. Spec => [](LedgerInv /\ SingleWriterInv /\ MoneyInv(p))
  BY Money
<1> QED BY <1>1, <1>2, BookInit, PTL DEF Spec, ImplementsBettingBook, BB!Spec

-----------------------------------------------------------------------------
(* The equity curve.                                                       *)

\* What the chart takes from the table for the time t.
Banked(bets, t) == [s \in Selection |->
                      IF s \in Settled(bets) /\ bets[s].settledAt <= t THEN bets[s] ELSE None]
AtStake(bets, t) == {s \in Placed(bets) :
                       /\ bets[s].placedAt <= t
                       /\ bets[s].settledAt = None \/ bets[s].settledAt > t}

\* A commit keeps every point of the equity curve before its run.
LEMMA CommitIsLater ==
  ASSUME NEW p, Proc = {p}, LedgerInv, SingleWriterInv, MoneyInv(p), Commit(p),
         NEW t \in Time, tx[p].started > t
  PROVE  EquityPoint(book', t) = EquityPoint(book, t)
<1>1. TypeOK /\ p \in Proc
  BY DEF LedgerInv
<1>2. tx[p].started \in Nat /\ t \in Nat /\ ~(tx[p].started <= t)
  BY <1>1, RunFields DEF Time
<1>3. ASSUME NEW s \in Selection
      PROVE  /\ Banked(book', t)[s] = Banked(book, t)[s]
             /\ s \in AtStake(book', t) <=> s \in AtStake(book, t)
             /\ s \in AtStake(book, t) => book'[s].stake = book[s].stake
  <2>1. CASE book'[s] = book[s]
    BY <2>1 DEF Banked, AtStake, Settled, Placed
  <2>2. CASE /\ book[s] # None /\ book[s].status = "pending"
             /\ book'[s] # None /\ book'[s].status # "pending"
             /\ Terms(book'[s]) = Terms(book[s])
             /\ book'[s].settledAt = tx[p].started
    <3>1. s \notin Settled(book) /\ s \in Settled(book') /\ ~(book'[s].settledAt <= t)
      BY <1>2, <2>2 DEF Settled, Placed
    <3>2. Banked(book', t)[s] = None /\ Banked(book, t)[s] = None
      BY <3>1 DEF Banked
    <3>3. book[s].settledAt = None
      BY <2>2 DEF MoneyInv, Placed, Clean
    <3>4. book'[s].placedAt = book[s].placedAt /\ book'[s].stake = book[s].stake
      BY <2>2 DEF Terms
    <3> QED BY <1>2, <2>2, <3>2, <3>3, <3>4 DEF AtStake, Placed
  <2>3. CASE /\ book[s] = None
             /\ book'[s] # None /\ book'[s].status = "pending"
             /\ book'[s].placedAt = tx[p].started
    <3>1. s \notin Settled(book) /\ s \notin Settled(book')
      BY <2>3 DEF Settled, Placed
    <3>2. Banked(book', t)[s] = None /\ Banked(book, t)[s] = None
      BY <3>1 DEF Banked
    <3> QED BY <1>2, <2>3, <3>2 DEF AtStake, Placed
  <2> QED BY <2>1, <2>2, <2>3, CommitChanges
<1>4. Banked(book', t) = Banked(book, t)
  BY <1>3 DEF Banked
<1>5. AtStake(book', t) = AtStake(book, t)
  BY <1>3 DEF AtStake, Placed
<1>6. [s \in AtStake(book', t) |-> 10 * book'[s].stake]
        = [s \in AtStake(book, t) |-> 10 * book[s].stake]
  <2>1. AtStake(book, t) \subseteq Selection
    BY DEF AtStake, Placed
  <2> QED BY <1>3, <1>5, <2>1
<1>7. \A bets : EquityPoint(bets, t) =
        InitialBankroll + Realized(Banked(bets, t))
          - SumFunction([s \in AtStake(bets, t) |-> 10 * bets[s].stake])
  BY DEF EquityPoint, Banked, AtStake
<1> QED BY <1>4, <1>6, <1>7

(* equity_curve: no run that starts after a settlement changes what the    *)
(* chart shows at the time of that settlement.                             *)
THEOREM CurveIsFinal ==
  ASSUME NEW p, Proc = {p}
  PROVE  Spec => EquityCurveIsFinal
<1>1. ASSUME LedgerInv, SingleWriterInv, MoneyInv(p), [Next]_vars, book' # book,
             NEW s \in Settled(book),
             \A q \in Proc : tx[q].pc # "idle" => tx[q].started > book[s].settledAt
      PROVE  EquityPoint(book', book[s].settledAt) = EquityPoint(book, book[s].settledAt)
  <2>1. Commit(p)
    BY <1>1, OnlyCommits
  <2>2. tx[p].started > book[s].settledAt
    BY <1>1, <2>1 DEF Commit
  <2>3. book[s].settledAt \in Time
    <3>1. book[s] \in Bet
      BY <1>1 DEF LedgerInv, TypeOK, OwnTypeOK, Settled, Placed
    <3>2. book[s].settledAt # None
      BY <1>1 DEF MoneyInv, Settled, Clean
    <3> QED BY <3>1, <3>2 DEF Bet
  <2> QED BY <1>1, <2>1, <2>2, <2>3, CommitIsLater
<1>2. LedgerInv /\ SingleWriterInv /\ MoneyInv(p) /\ [Next]_vars => [PastPointsKept]_vars
  BY <1>1 DEF PastPointsKept
<1>3. Spec => [](LedgerInv /\ SingleWriterInv /\ MoneyInv(p))
  BY Money
<1> QED BY <1>2, <1>3, PTL DEF Spec, EquityCurveIsFinal

-----------------------------------------------------------------------------
(* The terms of a batch.                                                   *)

\* The quote Before picks was captured before the cutoff.
LEMMA BeforeIsEarlier ==
  ASSUME NEW line, NEW cutoff, Before(line, cutoff) # None
  PROVE  \E i \in Time : i < cutoff /\ line[i] # None /\ Before(line, cutoff) = line[i]
<1> DEFINE times == {i \in Time : i < cutoff /\ line[i] # None}
           last == CHOOSE i \in times : \A j \in times : j <= i
<1>1. times # {} /\ Before(line, cutoff) = line[last]
  BY DEF Before
<1>2. \E i \in times : \A j \in times : j <= i
  BY <1>1, LatestExists
<1>3. last \in times
  <2> HIDE DEF times
  <2> QED BY <1>2
<1> QED BY <1>1, <1>3

\* It depends on nothing that is captured later.
LEMMA BeforeIsFrozen ==
  ASSUME NEW old, NEW new, NEW cutoff, \A i \in Time : i < cutoff => new[i] = old[i]
  PROVE  Before(new, cutoff) = Before(old, cutoff)
<1> DEFINE a == {i \in Time : i < cutoff /\ old[i] # None}
           b == {i \in Time : i < cutoff /\ new[i] # None}
<1>1. a = b
  OBVIOUS
<1>2. CASE a = {}
  BY <1>1, <1>2 DEF Before
<1>3. CASE a # {}
  <2> DEFINE last == CHOOSE i \in a : \A j \in a : j <= i
  <2>1. Before(old, cutoff) = old[last] /\ Before(new, cutoff) = new[last]
    BY <1>1, <1>3 DEF Before
  <2>2. \E i \in a : \A j \in a : j <= i
    BY <1>3, LatestExists
  <2>3. last \in a
    <3> HIDE DEF a
    <3> QED BY <2>2
  <2> QED BY <2>1, <2>3
<1> QED BY <1>2, <1>3

\* A quote of before the cutoff of the prior, which has passed, carries the line and the
\* odds of a bet.
Quoted(s, b) ==
  /\ kickoff[s.match] <= clock + Lead
  /\ \E i \in Time :
       /\ i < kickoff[s.match] - Lead
       /\ quotes["handicap"][s.match][i] # None
       /\ quotes["handicap"][s.match][i].line = b.line
       /\ quotes["handicap"][s.match][i].odds[s.outcome] = b.odds

\* A handicap selection whose prior nothing changed after its cutoff.
Steady(s) == s.target = "handicap" /\ s.match \notin shifted

\* A signal on a handicap carries the odds of a prior that nothing can change.
SignalsInv ==
  \A v \in Version : \A s \in Selection :
    (Steady(s) /\ signal[v][s] # None) =>
      /\ kickoff[s.match] <= clock + Lead
      /\ Prior(s.target, s.match) # None
      /\ signal[v][s].odds = Prior(s.target, s.match).odds[s.outcome]

QuotesInv(p) ==
  /\ SignalsInv
  /\ \A s \in Placed(book) : Steady(s) => Quoted(s, book[s])
  /\ \A s \in Placed(tx[p].placed) : Steady(s) => Quoted(s, tx[p].placed[s])

\* What a step leaves of a match whose prior it does not change after the cutoff.
PastKept ==
  /\ shifted \subseteq shifted' /\ clock' >= clock
  /\ \A m \in Match \ shifted' :
       /\ kickoff'[m] = kickoff[m]
       /\ \A t \in Targets : \A i \in Time :
            (kickoff[m] <= clock + Lead /\ i < kickoff[m] - Lead) =>
              quotes'[t][m][i] = quotes[t][m][i]

\* Such a step keeps what was quoted together, and the priors.
LEMMA QuotesStay ==
  ASSUME TypeOK, TypeOK', PastKept
  PROVE  /\ \A s \in Selection : Steady(s)' => Steady(s)
         /\ \A s \in Selection : \A b : Steady(s)' /\ Quoted(s, b) => Quoted(s, b)'
         /\ \A t \in Targets : \A m \in Match \ shifted' :
              kickoff[m] <= clock + Lead =>
                Prior(t, m)' = Prior(t, m) /\ kickoff'[m] <= clock' + Lead
<1>1. clock \in Nat /\ clock' \in Nat /\ Lead \in Nat /\ \A m \in Match : kickoff[m] \in Nat
  <2>1. clock \in Time /\ clock' \in Time /\ kickoff \in [Match -> Kickoffs]
    BY DEF TypeOK, FedTypeOK
  <2>2. Time \subseteq Nat /\ Kickoffs \subseteq Nat /\ Lead \in Nat
    BY LedgerAssumption DEF Time
  <2> QED BY <2>1, <2>2
<1>2. ASSUME NEW s \in Selection, NEW b, Steady(s)', Quoted(s, b)
      PROVE  Quoted(s, b)'
  <2>1. /\ s.match \in Match \ shifted' /\ s.target = "handicap" /\ s.target \in Targets
    BY <1>2, SelectionFields DEF Steady
  <2>2. kickoff'[s.match] = kickoff[s.match] /\ kickoff[s.match] <= clock + Lead
    BY <1>2, <2>1 DEF Quoted, PastKept
  <2>3. kickoff'[s.match] <= clock' + Lead
    BY <1>1, <2>1, <2>2 DEF PastKept
  <2>4. PICK i \in Time :
          /\ i < kickoff[s.match] - Lead
          /\ quotes["handicap"][s.match][i] # None
          /\ quotes["handicap"][s.match][i].line = b.line
          /\ quotes["handicap"][s.match][i].odds[s.outcome] = b.odds
    BY <1>2 DEF Quoted
  <2>5. quotes'["handicap"][s.match][i] = quotes["handicap"][s.match][i]
    BY <2>1, <2>2, <2>4 DEF PastKept
  <2> QED BY <2>2, <2>3, <2>4, <2>5 DEF Quoted
<1>3. ASSUME NEW t \in Targets, NEW m \in Match \ shifted', kickoff[m] <= clock + Lead
      PROVE  Prior(t, m)' = Prior(t, m) /\ kickoff'[m] <= clock' + Lead
  <2>1. kickoff'[m] = kickoff[m]
    BY <1>3 DEF PastKept
  <2>2. \A i \in Time : i < kickoff[m] - Lead => quotes'[t][m][i] = quotes[t][m][i]
    BY <1>3 DEF PastKept
  <2>3. Before(quotes'[t][m], kickoff[m] - Lead) = Before(quotes[t][m], kickoff[m] - Lead)
    BY <2>2, BeforeIsFrozen
  <2>4. kickoff'[m] <= clock' + Lead
    BY <1>1, <1>3, <2>1 DEF PastKept
  <2> QED BY <2>1, <2>3, <2>4 DEF Prior
<1>4. \A s \in Selection : Steady(s)' => Steady(s)
  BY DEF Steady, PastKept
<1> QED BY <1>2, <1>3, <1>4

\* A capture that does not straddle a cutoff which has passed leaves what was captured
\* before it.
LEMMA StoreKeepsPast ==
  ASSUME TypeOK, NEW shown \in [Targets -> [Match -> Book \cup {None}]], StoreOdds(shown)
  PROVE  PastKept
<1>1. /\ clock \in Nat /\ Lead \in Nat /\ Width \in Nat \ {0} /\ fetch \in Nat
      /\ \A m \in Match : kickoff[m] \in Nat
  <2>1. clock \in Time /\ kickoff \in [Match -> Kickoffs] /\ fetch \in Time
    BY DEF TypeOK, FedTypeOK, StoreOdds
  <2>2. Time \subseteq Nat /\ Kickoffs \subseteq Nat /\ Lead \in Nat /\ Width \in Nat \ {0}
    BY LedgerAssumption DEF Time
  <2> QED BY <2>1, <2>2
<1>2. \A i \in Nat : Bucket(i) \in Int /\ Bucket(i) <= i
  <2>1. \A i \in Nat : i % Width \in Nat
    BY <1>1
  <2> QED BY <2>1 DEF Bucket
<1>3. ASSUME NEW m \in Match \ shifted', NEW t \in Targets, NEW i \in Time,
             kickoff[m] <= clock + Lead, i < kickoff[m] - Lead
      PROVE  quotes'[t][m][i] = quotes[t][m][i]
  <2>1. quotes'[t][m] = Upsert(quotes[t][m], fetch, shown[t][m])
    BY DEF StoreOdds
  <2>2. CASE shown[t][m] = None
    BY <2>1, <2>2 DEF Upsert
  <2>3. CASE shown[t][m] # None
    <3>1. ~Straddles(m)
      BY <2>3 DEF StoreOdds
    <3>2. kickoff[m] - Lead <= clock
      BY <1>1, <1>3
    <3>3. ~(Bucket(fetch) < kickoff[m] - Lead)
      BY <3>1, <3>2 DEF Straddles
    <3>4. i \in Nat
      BY DEF Time
    <3>5. i # fetch /\ Bucket(i) # Bucket(fetch)
      BY <1>1, <1>2, <1>3, <3>3, <3>4
    <3> QED BY <2>1, <2>3, <3>5 DEF Upsert
  <2> QED BY <2>2, <2>3
<1> QED BY <1>1, <1>3 DEF PastKept, StoreOdds

\* Every step keeps the terms of the bets and of the signals quoted together.
LEMMA QuotesStep ==
  ASSUME NEW p, Proc = {p}, LedgerInv, SingleWriterInv, MoneyInv(p), QuotesInv(p),
         Lookahead <= Lead, [Next]_vars
  PROVE  QuotesInv(p)'
<1>1. TypeOK /\ TypeOK' /\ p \in Proc
  BY TypeStep DEF LedgerInv
<1>2. /\ clock \in Nat /\ Lead \in Nat /\ Lookahead \in Nat
      /\ \A m \in Match : kickoff[m] \in Nat
  <2>1. clock \in Time /\ kickoff \in [Match -> Kickoffs]
    BY <1>1 DEF TypeOK, FedTypeOK
  <2>2. Time \subseteq Nat /\ Kickoffs \subseteq Nat /\ Lead \in Nat /\ Lookahead \in Nat
    BY LedgerAssumption DEF Time
  <2> QED BY <2>1, <2>2
\* What every step that keeps the past does.
<1>3. ASSUME PastKept
      PROVE  /\ signal' = signal => SignalsInv'
             /\ \A s \in Selection : Steady(s)' => Steady(s)
             /\ \A s \in Selection : \A b : Steady(s)' /\ Quoted(s, b) => Quoted(s, b)'
             /\ UNCHANGED book =>
                  \A s \in Placed(book)' : Steady(s)' => Quoted(s, book[s])'
             /\ tx'[p].placed = tx[p].placed =>
                  \A s \in Placed(tx[p].placed)' : Steady(s)' => Quoted(s, tx[p].placed[s])'
  <2>2. /\ \A s \in Selection : Steady(s)' => Steady(s)
        /\ \A s \in Selection : \A b : Steady(s)' /\ Quoted(s, b) => Quoted(s, b)'
        /\ \A t \in Targets : \A m \in Match \ shifted' :
             kickoff[m] <= clock + Lead =>
               Prior(t, m)' = Prior(t, m) /\ kickoff'[m] <= clock' + Lead
    BY <1>1, <1>3, QuotesStay
  <2>3. signal' = signal => SignalsInv'
    <3> SUFFICES ASSUME signal' = signal, NEW v \in Version, NEW s \in Selection,
                        Steady(s)', signal[v][s] # None
                 PROVE  /\ kickoff'[s.match] <= clock' + Lead
                        /\ Prior(s.target, s.match)' # None
                        /\ signal[v][s].odds = Prior(s.target, s.match)'.odds[s.outcome]
      BY DEF SignalsInv
    <3>1. s.match \in Match \ shifted' /\ s.target \in Targets
      BY SelectionFields DEF Steady
    <3>2. /\ kickoff[s.match] <= clock + Lead /\ Prior(s.target, s.match) # None
          /\ signal[v][s].odds = Prior(s.target, s.match).odds[s.outcome]
      BY <2>2 DEF QuotesInv, SignalsInv
    <3>3. Prior(s.target, s.match)' = Prior(s.target, s.match) /\ kickoff'[s.match] <= clock' + Lead
      BY <2>2, <3>1, <3>2
    <3> QED BY <3>2, <3>3
  <2>4. UNCHANGED book => \A s \in Placed(book)' : Steady(s)' => Quoted(s, book[s])'
    <3> SUFFICES ASSUME UNCHANGED book, NEW s \in Placed(book), Steady(s)'
                 PROVE  Quoted(s, book[s])'
      BY DEF Placed
    <3>1. s \in Selection /\ Quoted(s, book[s])
      BY <2>2 DEF QuotesInv, Placed
    <3> QED BY <2>2, <3>1 DEF Quoted
  <2>5. tx'[p].placed = tx[p].placed =>
          \A s \in Placed(tx[p].placed)' : Steady(s)' => Quoted(s, tx[p].placed[s])'
    <3> SUFFICES ASSUME tx'[p].placed = tx[p].placed, NEW s \in Placed(tx[p].placed), Steady(s)'
                 PROVE  Quoted(s, tx[p].placed[s])'
      BY DEF Placed
    <3>1. s \in Selection /\ Quoted(s, tx[p].placed[s])
      BY <2>2 DEF QuotesInv, Placed
    <3> QED BY <2>2, <3>1 DEF Quoted
  <2> QED BY <2>2, <2>3, <2>4, <2>5
<1>4. ASSUME UNCHANGED <<clock, fed>>
      PROVE  /\ SignalsInv' /\ PastKept
             /\ \A s \in Selection : Steady(s)' = Steady(s)
             /\ \A s \in Selection : \A b : Steady(s)' /\ Quoted(s, b) => Quoted(s, b)'
             /\ UNCHANGED book =>
                  \A s \in Placed(book)' : Steady(s)' => Quoted(s, book[s])'
             /\ tx'[p].placed = tx[p].placed =>
                  \A s \in Placed(tx[p].placed)' : Steady(s)' => Quoted(s, tx[p].placed[s])'
  <2>1. UNCHANGED <<clock, kickoff, quotes, signal, shifted>>
    BY <1>4 DEF fed
  <2>2. PastKept
    BY <1>2, <2>1 DEF PastKept
  <2> QED BY <1>3, <2>1, <2>2 DEF Steady
<1>5. CASE SettleRead(p) \/ IntegrityError(p) \/ Crash(p)
  <2>0. Placed(Unchanged) = {} /\ NoRun.placed = Unchanged
    BY DEF NoRun, Unchanged, Placed
  <2>1. UNCHANGED <<clock, fed, book>> /\ tx'[p].placed = Unchanged
    BY <1>1, <1>5, <2>0, RunSteps
  <2>2. Placed(tx[p].placed)' = {}
    BY <2>0, <2>1 DEF Placed
  <2> QED BY <1>4, <2>1, <2>2 DEF QuotesInv
<1>6. CASE SumRealized(p) \/ SumOpen(p)
  <2>1. UNCHANGED <<clock, fed, book>> /\ tx'[p].placed = tx[p].placed
    BY <1>1, <1>6, RunSteps
  <2> QED BY <1>4, <2>1 DEF QuotesInv
<1>7. CASE PlaceRead(p)
  <2>1. /\ UNCHANGED <<clock, fed, book>>
        /\ tx'[p].placed = Slips(View(p), tx[p].bank, tx[p].started)
    BY <1>1, <1>7, RunSteps
  <2>2. UNCHANGED <<quotes, clock, kickoff, shifted>>
    BY <2>1 DEF fed
  <2>3. ASSUME NEW s \in Placed(tx'[p].placed), Steady(s)
        PROVE  Quoted(s, tx'[p].placed[s])
    <3> DEFINE b == Slip(s, tx[p].bank, tx[p].started)
               v == champion[s.target]
               prior == Prior(s.target, s.match)
    <3>1. s \in Candidates /\ s \in Selection /\ tx'[p].placed[s] = b /\ b # None
      BY <2>1, <2>3 DEF Placed, Slips
    <3>2. /\ v # None /\ signal[v][s] # None /\ s.target \in Targets /\ s.match \in Match
      BY <3>1, SelectionFields DEF Candidates
    <3>3. v \in Version /\ s.target = "handicap"
      BY <1>1, <2>3, <3>2 DEF TypeOK, FedTypeOK, Steady
    <3>4. /\ kickoff[s.match] <= clock + Lead /\ prior # None
          /\ signal[v][s].odds = prior.odds[s.outcome]
      BY <2>3, <3>1, <3>2, <3>3 DEF QuotesInv, SignalsInv
    <3>5. b.line = prior.line /\ b.odds = signal[v][s].odds
      BY <3>1, <3>3 DEF Slip, Offer
    <3>6. PICK i \in Time : /\ i < kickoff[s.match] - Lead
                            /\ quotes[s.target][s.match][i] # None
                            /\ prior = quotes[s.target][s.match][i]
      BY <3>4, BeforeIsEarlier DEF Prior
    <3> HIDE DEF b, prior, v
    <3> QED BY <3>1, <3>3, <3>4, <3>5, <3>6 DEF Quoted
  <2>4. \A s \in Placed(tx[p].placed)' : Steady(s)' => Quoted(s, tx[p].placed[s])'
    BY <2>2, <2>3 DEF Quoted, Steady
  <2> QED BY <1>4, <2>1, <2>4 DEF QuotesInv
<1>8. CASE Commit(p)
  <2>1. UNCHANGED <<clock, fed>> /\ Placed(tx[p].placed)' = {}
    BY <1>1, <1>8, RunSteps DEF NoRun, Unchanged, Placed
  <2>2. ASSUME NEW s \in Selection, book'[s] # None, Steady(s)
        PROVE  Quoted(s, book'[s])
    <3>1. CASE book'[s] = book[s]
      BY <2>2, <3>1 DEF QuotesInv, Placed
    <3>2. CASE book[s] # None /\ Terms(book'[s]) = Terms(book[s])
      <4>1. Quoted(s, book[s])
        BY <2>2, <3>2 DEF QuotesInv, Placed
      <4>2. book'[s].line = book[s].line /\ book'[s].odds = book[s].odds
        BY <3>2 DEF Terms
      <4> QED BY <4>1, <4>2 DEF Quoted
    <3>3. CASE book'[s] = tx[p].placed[s]
      BY <2>2, <3>3 DEF QuotesInv, Placed
    <3> QED BY <1>8, <3>1, <3>2, <3>3, CommitChanges
  <2>3. UNCHANGED <<quotes, clock, kickoff, shifted>>
    BY <2>1 DEF fed
  <2>4. \A s \in Placed(book)' : Steady(s)' => Quoted(s, book[s])'
    BY <2>2, <2>3 DEF Quoted, Placed, Steady
  <2> QED BY <1>4, <2>1, <2>4 DEF QuotesInv
<1>9. CASE UNCHANGED vars
  <2>1. UNCHANGED <<clock, fed, book, tx>>
    BY <1>9 DEF vars, own
  <2> QED BY <1>4, <2>1 DEF QuotesInv
<1>10. CASE Tick
  <2>1. /\ clock' = clock + 1 /\ UNCHANGED <<kickoff, quotes, shifted, signal, book, tx>>
    BY <1>10 DEF Tick, fed, own
  <2>2. PastKept
    BY <1>2, <2>1 DEF PastKept
  <2> QED BY <1>3, <2>1, <2>2 DEF QuotesInv
<1>11. CASE Feeds
  <2>0. UNCHANGED own
    BY <1>1, <1>11, FeedsType
  <2>00. UNCHANGED book /\ tx' = tx
    BY <2>0 DEF own
  <2>1. ASSUME NEW shown \in [Targets -> [Match -> Book \cup {None}]], StoreOdds(shown)
        PROVE  QuotesInv(p)'
    <3>1. PastKept /\ UNCHANGED signal
      BY <1>1, <2>1, StoreKeepsPast DEF StoreOdds
    <3> QED BY <1>3, <2>00, <3>1 DEF QuotesInv
  <2>2. CASE PredictUpcoming
    <3>1. PICK belief \in [Match -> Beliefs1x2 \X BeliefsHdc] : signal' = Predicted(belief)
      BY <2>2 DEF PredictUpcoming
    <3>2. UNCHANGED <<clock, kickoff, quotes, shifted>>
      BY <2>2 DEF PredictUpcoming
    <3>3. PastKept
      BY <1>2, <3>2 DEF PastKept
    <3>4. ASSUME NEW v \in Version, NEW s \in Selection, Steady(s), signal'[v][s] # None
          PROVE  /\ kickoff[s.match] <= clock + Lead
                 /\ Prior(s.target, s.match) # None
                 /\ signal'[v][s].odds = Prior(s.target, s.match).odds[s.outcome]
      <4>1. CASE v = champion[s.target] /\ Serves(s)
        <5> DEFINE prob == Prob(belief, s)
        <5>1. signal'[v][s] = NewSignal(s, prob)
          BY <3>1, <4>1 DEF Predicted
        <5> HIDE DEF prob
        <5>2. /\ Prior(s.target, s.match) # None
              /\ signal'[v][s].odds = Prior(s.target, s.match).odds[s.outcome]
          BY <3>4, <5>1 DEF NewSignal
        <5>3. kickoff[s.match] <= clock + Lookahead /\ s.match \in Match
          BY <4>1 DEF Serves, Upcoming
        <5>4. kickoff[s.match] <= clock + Lead
          BY <1>2, <5>3
        <5> QED BY <5>2, <5>4
      <4>2. CASE ~(v = champion[s.target] /\ Serves(s))
        <5>1. signal'[v][s] = signal[v][s]
          BY <3>1, <4>2 DEF Predicted
        <5> QED BY <3>4, <5>1 DEF QuotesInv, SignalsInv
      <4> QED BY <4>1, <4>2
    <3>5. SignalsInv'
      BY <3>2, <3>4 DEF SignalsInv, Prior, Steady
    <3> QED BY <1>3, <2>00, <3>3, <3>5 DEF QuotesInv
  <2>3. ASSUME \/ \E t \in Targets, v \in Version : Promote(t, v)
               \/ \E m \in Match, r \in Rows : PublishResult(m, r)
               \/ \E m \in Match : CallOff(m)
               \/ StartFetch
        PROVE  QuotesInv(p)'
    <3>1. UNCHANGED <<clock, kickoff, quotes, shifted, signal>>
      BY <2>3 DEF Promote, PublishResult, CallOff, StartFetch
    <3>2. PastKept
      BY <1>2, <3>1 DEF PastKept
    <3> QED BY <1>3, <2>00, <3>1, <3>2 DEF QuotesInv
  <2>4. ASSUME NEW m \in Match, NEW k \in Kickoffs, Reschedule(m, k)
        PROVE  QuotesInv(p)'
    <3>1. /\ kickoff' = [kickoff EXCEPT ![m] = k] /\ shifted' = shifted \cup {m}
          /\ UNCHANGED <<clock, quotes, signal>>
      BY <2>4 DEF Reschedule
    <3>2. kickoff \in [Match -> Kickoffs]
      BY <1>1 DEF TypeOK, FedTypeOK
    <3>3. PastKept
      BY <1>2, <3>1, <3>2 DEF PastKept
    <3> QED BY <1>3, <2>00, <3>1, <3>3 DEF QuotesInv
  <2> QED BY <1>11, <2>1, <2>2, <2>3, <2>4 DEF Feeds
<1> QED BY <1>1, <1>5, <1>6, <1>7, <1>8, <1>9, <1>10, <1>11 DEF Next, LedgerUpdate

(* What _size_stake is given is the bankroll of the table the batch is     *)
(* added to, settlements of the run included, and the line and the odds of *)
(* a handicap bet were quoted together: with one ledger process, with a    *)
(* prediction horizon of at most the lead of the prior (48 and 48 hours),  *)
(* and for a match whose kickoff was not moved and of which no capture was *)
(* stored after the prior's cutoff in a bucket that began before it.       *)
THEOREM BatchesAreReal ==
  ASSUME NEW p, Proc = {p}, Lookahead <= Lead
  PROVE  Spec => []BatchTermsAreReal
<1>1. Init => QuotesInv(p)
  BY DEF Init, NoRun, Unchanged, Placed, QuotesInv, SignalsInv
<1>2. LedgerInv /\ SingleWriterInv /\ MoneyInv(p) /\ QuotesInv(p) /\ [Next]_vars => QuotesInv(p)'
  BY QuotesStep
<1>3. LedgerInv /\ MoneyInv(p) /\ QuotesInv(p) => BatchTermsAreReal
  <2> SUFFICES ASSUME LedgerInv, MoneyInv(p), QuotesInv(p) PROVE BatchTermsAreReal
    OBVIOUS
  <2>1. BatchSizedFromTheTable
    BY DEF MoneyInv, Merged, BatchSizedFromTheTable
  <2>2. HandicapTermsFromOneQuote
    BY DEF QuotesInv, Quoted, Steady, HandicapTermsFromOneQuote
  <2> QED BY <2>1, <2>2 DEF BatchTermsAreReal
<1>4. Spec => [](LedgerInv /\ SingleWriterInv /\ MoneyInv(p))
  BY Money
<1> QED BY <1>1, <1>2, <1>3, <1>4, PTL DEF Spec

-----------------------------------------------------------------------------
(* Solvency.                                                               *)

\* Floor division.
LEMMA DivBound ==
  ASSUME NEW a \in Int, NEW d \in Nat \ {0}
  PROVE  (a \div d) \in Int /\ d * (a \div d) <= a /\ a < d * (a \div d) + d
OBVIOUS

\* A product of a natural number grows with the other factor.
LEMMA TimesMore ==
  ASSUME NEW c \in Nat, NEW x \in Int, NEW y \in Int, x <= y
  PROVE  c * x <= c * y
OBVIOUS

\* And a factor can be cancelled.
LEMMA TimesLess ==
  ASSUME NEW c \in Nat \ {0}, NEW x \in Int, NEW y \in Int, c * x <= c * y
  PROVE  x <= y
<1>1. SUFFICES ASSUME y + 1 <= x PROVE FALSE
  OBVIOUS
<1>2. c * (y + 1) <= c * x
  BY <1>1, TimesMore
<1>3. c * (y + 1) = c * y + c
  OBVIOUS
<1>4. c * x \in Int /\ c * y \in Int
  OBVIOUS
<1> QED BY <1>2, <1>3, <1>4

\* Floor division is monotonic.
LEMMA DivMono ==
  ASSUME NEW a \in Int, NEW b \in Int, a <= b, NEW d \in Nat \ {0}
  PROVE  (a \div d) <= (b \div d)
<1>1. SUFFICES ASSUME (b \div d) + 1 <= (a \div d) PROVE FALSE
  BY DivBound
<1>2. d * ((b \div d) + 1) <= d * (a \div d)
  BY <1>1, DivBound, TimesMore
<1>3. d * ((b \div d) + 1) = d * (b \div d) + d
  BY DivBound
<1> QED BY <1>2, <1>3, DivBound

\* As many stakes under the cap as the cap fraction allows for fit in the bankroll.
LEMMA CapFits ==
  ASSUME NEW c \in Nat, NEW n \in Nat, NEW d \in Nat \ {0}, c * n <= d, NEW bank \in Nat
  PROVE  c * (10 * ((n * bank) \div (10 * d))) <= bank
<1> DEFINE k == (n * bank) \div (10 * d)
<1>1. k \in Int /\ (10 * d) * k <= n * bank
  <2>1. n * bank \in Int /\ 10 * d \in Nat \ {0}
    OBVIOUS
  <2> QED BY <2>1, DivBound
<1> HIDE DEF k
<1>2. c * ((10 * d) * k) <= c * (n * bank)
  <2>1. (10 * d) * k \in Int /\ n * bank \in Int
    BY <1>1
  <2> QED BY <1>1, <2>1, TimesMore
<1>3. bank * (c * n) <= bank * d
  <2>1. c * n \in Int
    OBVIOUS
  <2> QED BY <2>1, TimesMore
<1>4. c * (n * bank) = bank * (c * n)
  OBVIOUS
<1>5. c * ((10 * d) * k) = d * (c * (10 * k)) /\ bank * d = d * bank
  BY <1>1
<1>6. d * (c * (10 * k)) <= d * bank
  <2> DEFINE x == c * ((10 * d) * k)
             y == c * (n * bank)
             z == bank * d
  <2>1. x \in Int /\ y \in Int /\ z \in Int
    BY <1>1
  <2>2. x <= y /\ y <= z
    BY <1>2, <1>3, <1>4
  <2>3. x <= z
    <3> HIDE DEF x, y, z
    <3> QED BY <2>1, <2>2
  <2> QED BY <2>3, <1>5
<1>7. c * (10 * k) \in Int
  BY <1>1
<1> QED BY <1>6, <1>7, TimesLess DEF k

\* Weights that are no debt add up to no debt.
LEMMA SumOfCredits ==
  ASSUME NEW U, IsFiniteSet(U), NEW f \in [U -> Int], \A x \in U : 0 <= f[x]
  PROVE  SumFunction(f) \in Int /\ 0 <= SumFunction(f)
<1> DEFINE A == Partial(f, U)
<1>1. Sums(A, f, U)
  BY PartialIsSum
<1> HIDE DEF A
<1>2. SumFunction(f) = A[U] /\ A[U] \in Int
  <2>1. SumFunction(f) = A[U]
    BY <1>1, SumOfPart
  <2> QED BY <1>1, <2>1 DEF Sums
<1> DEFINE P == {s \in SUBSET U : 0 <= A[s]}
<1>3. ASSUME NEW s \in SUBSET U, \A x \in s : s \ {x} \in P PROVE s \in P
  <2>1. CASE s = {}
    BY <1>1, <2>1 DEF Sums
  <2>2. CASE s # {}
    <3>1. PICK x \in s : TRUE
      BY <2>2
    <3>2. A[s] = f[x] + A[s \ {x}] /\ A[s \ {x}] \in Int
      BY <1>1 DEF Sums
    <3>3. 0 <= A[s \ {x}] /\ 0 <= f[x] /\ f[x] \in Int
      BY <1>3
    <3> QED BY <3>2, <3>3
  <2> QED BY <2>1, <2>2
<1>4. P \in SUBSET SUBSET U
  OBVIOUS
<1> HIDE DEF P
<1>5. P = SUBSET U
  BY <1>3, <1>4, Growing
<1> QED BY <1>2, <1>5 DEF P

\* No run places more bets than the cap fraction allows for.
SmallBatches ==
  \A p \in Proc : Cardinality(Placed(tx[p].placed)) * CapNum <= CapDen

\* What the batch of a run stakes.
Cost(p) == [s \in Selection |-> IF s \in Placed(tx[p].placed)
                                THEN 10 * tx[p].placed[s].stake ELSE 0]

\* The rows a commit writes over the table.
LEMMA CommitRows ==
  ASSUME NEW p, Proc = {p}, LedgerInv, SingleWriterInv, MoneyInv(p), Commit(p)
  PROVE  /\ book \in [Selection -> Bet \cup {None}] /\ Merged(p) \in [Selection -> Bet \cup {None}]
         /\ View(p) \in [Selection -> Bet \cup {None}]
         /\ tx[p].bank = Bankroll(Merged(p))
         /\ \A s \in Selection :
              /\ book[s] # None => book[s].stake \in Nat /\ book[s].payout \in Nat
              /\ tx[p].settled[s] # None =>
                   /\ tx[p].settled[s].payout \in Nat
                   /\ tx[p].settled[s].stake = book[s].stake
                   /\ tx[p].settled[s].status # "pending" /\ s \in Open(book)
              /\ tx[p].placed[s] # None =>
                   /\ tx[p].placed[s].stake \in Nat
                   /\ tx[p].placed[s].stake <= Cap(Bankroll(Merged(p)))
                   /\ tx[p].placed[s].status = "pending"
                   /\ Merged(p)[s] = None
<1>1. TypeOK /\ p \in Proc /\ book' = View(p) /\ tx[p].pc = "insert"
  BY DEF LedgerInv, Commit
<1> DEFINE bets  == Merged(p)
           bank  == Bankroll(bets)
<1>2. /\ book \in [Selection -> Bet \cup {None}] /\ bets \in [Selection -> Bet \cup {None}]
      /\ View(p) \in [Selection -> Bet \cup {None}]
      /\ tx[p].settled \in [Selection -> Bet \cup {None}]
      /\ tx[p].placed \in [Selection -> Bet \cup {None}]
  <2>1. book \in [Selection -> Bet \cup {None}] /\ View(p) \in [Selection -> Bet \cup {None}]
    BY <1>1, ViewType DEF TypeOK, OwnTypeOK
  <2> QED BY <1>1, <2>1, RunFields DEF Merged
<1>3. tx[p].bank = bank
  BY <1>1 DEF MoneyInv
<1>4. ASSUME NEW s \in Selection
      PROVE  /\ book[s] # None => book[s].stake \in Nat /\ book[s].payout \in Nat
             /\ tx[p].settled[s] # None =>
                  /\ tx[p].settled[s].payout \in Nat
                  /\ tx[p].settled[s].stake = book[s].stake
                  /\ tx[p].settled[s].status # "pending" /\ s \in Open(book)
             /\ tx[p].placed[s] # None =>
                  /\ tx[p].placed[s].stake \in Nat /\ tx[p].placed[s].stake <= Cap(bank)
                  /\ tx[p].placed[s].status = "pending"
                  /\ bets[s] = None
  <2>1. /\ book[s] # None => book[s] \in Bet
        /\ tx[p].settled[s] # None => tx[p].settled[s] \in Bet
        /\ tx[p].placed[s] # None => tx[p].placed[s] \in Bet
    BY <1>2
  <2>2. tx[p].settled[s] # None =>
          /\ Terms(tx[p].settled[s]) = Terms(book[s])
          /\ tx[p].settled[s].status # "pending" /\ s \in Open(book)
    BY <1>1 DEF LedgerInv, UpdateInv, SingleWriterInv, Placed
  <2>3. tx[p].placed[s] # None =>
          /\ tx[p].settled[s] = None /\ book[s] = None
          /\ tx[p].placed[s].status = "pending" /\ WithinLimits(tx[p].placed[s])
          /\ tx[p].placed[s].bank = tx[p].bank
    BY <1>1 DEF LedgerInv, InsertInv, MoneyInv, Commit, Conflicts, Placed
  <2>4. tx[p].settled[s] # None => tx[p].settled[s].stake = book[s].stake
    BY <2>2 DEF Terms
  <2>5. tx[p].placed[s] # None =>
          tx[p].placed[s].stake <= Cap(bank) /\ bets[s] = None
    BY <1>3, <2>3 DEF WithinLimits, Merged
  <2>6. /\ book[s] # None => book[s].stake \in Nat /\ book[s].payout \in Nat
        /\ tx[p].settled[s] # None => tx[p].settled[s].payout \in Nat
        /\ tx[p].placed[s] # None => tx[p].placed[s].stake \in Nat
    BY <2>1 DEF Bet
  <2> HIDE DEF bets, bank
  <2> QED BY <2>2, <2>3, <2>4, <2>5, <2>6
<1> HIDE DEF bets, bank
<1>5. \A s \in Selection :
        /\ book[s] # None => book[s].stake \in Nat /\ book[s].payout \in Nat
        /\ tx[p].settled[s] # None =>
             /\ tx[p].settled[s].payout \in Nat
             /\ tx[p].settled[s].stake = book[s].stake
             /\ tx[p].settled[s].status # "pending" /\ s \in Open(book)
        /\ tx[p].placed[s] # None =>
             /\ tx[p].placed[s].stake \in Nat /\ tx[p].placed[s].stake <= Cap(bank)
             /\ tx[p].placed[s].status = "pending"
             /\ bets[s] = None
  BY <1>4
<1> QED BY <1>2, <1>3, <1>5 DEF bets, bank

\* The settlements of the run only add to the bankroll.
LEMMA SettlingGains ==
  ASSUME NEW p, Proc = {p}, LedgerInv, SingleWriterInv, MoneyInv(p), Commit(p)
  PROVE  tx[p].bank \in Int /\ Bankroll(book) \in Int /\ tx[p].bank >= Bankroll(book)
<1> DEFINE bets == Merged(p)
           bank == Bankroll(bets)
<1>2. /\ book \in [Selection -> Bet \cup {None}] /\ bets \in [Selection -> Bet \cup {None}]
      /\ View(p) \in [Selection -> Bet \cup {None}]
  BY CommitRows
<1>4. \A s \in Selection :
        /\ book[s] # None => book[s].stake \in Nat /\ book[s].payout \in Nat
        /\ tx[p].settled[s] # None =>
             /\ tx[p].settled[s].payout \in Nat
             /\ tx[p].settled[s].stake = book[s].stake
             /\ tx[p].settled[s].status # "pending" /\ s \in Open(book)
        /\ tx[p].placed[s] # None =>
             /\ tx[p].placed[s].stake \in Nat /\ tx[p].placed[s].stake <= Cap(bank)
             /\ tx[p].placed[s].status = "pending"
             /\ bets[s] = None
  BY CommitRows
<1> DEFINE won == [s \in Selection |->
                     IF tx[p].settled[s] # None THEN tx[p].settled[s].payout ELSE 0]
<1>11. /\ won \in [Selection -> Int] /\ \A s \in Selection : 0 <= won[s]
      /\ \A s \in Selection : /\ Payouts(bets)[s] = Payouts(book)[s] + won[s]
                              /\ Stakes(bets)[s] = Stakes(book)[s]
  <2> SUFFICES ASSUME NEW s \in Selection
               PROVE  /\ won[s] \in Int /\ 0 <= won[s]
                      /\ Payouts(bets)[s] = Payouts(book)[s] + won[s]
                      /\ Stakes(bets)[s] = Stakes(book)[s]
    <3> HIDE DEF bets
    <3> QED OBVIOUS
  <2>1. bets[s] = IF tx[p].settled[s] # None THEN tx[p].settled[s] ELSE book[s]
    BY DEF Merged
  <2>2. won[s] = IF tx[p].settled[s] # None THEN tx[p].settled[s].payout ELSE 0
    OBVIOUS
  <2> HIDE DEF bets, won
  <2>3. CASE tx[p].settled[s] # None
    <3>1. /\ s \in Placed(bets) /\ s \in Settled(bets) /\ s \in Placed(book)
          /\ s \notin Settled(book)
      BY <1>4, <2>1, <2>3 DEF Placed, Settled, Open
    <3>2. tx[p].settled[s].payout \in Nat /\ tx[p].settled[s].stake = book[s].stake
      BY <1>4, <2>3
    <3> QED BY <2>1, <2>2, <2>3, <3>1, <3>2 DEF Payouts, Stakes
  <2>4. CASE tx[p].settled[s] = None
    <3>1. Payouts(book)[s] \in Int
      BY <1>4 DEF Payouts, Settled, Placed
    <3>2. /\ s \in Placed(bets) <=> s \in Placed(book)
          /\ s \in Settled(bets) <=> s \in Settled(book)
      BY <2>1, <2>4 DEF Settled, Placed
    <3> QED BY <2>1, <2>2, <2>4, <3>1, <3>2 DEF Payouts, Stakes
  <2> QED BY <2>3, <2>4
<1> HIDE DEF won, bets
<1>12. /\ Payouts(book) \in [Selection -> Int] /\ Payouts(bets) \in [Selection -> Int]
      /\ Stakes(book) \in [Selection -> Int] /\ Stakes(bets) \in [Selection -> Int]
      /\ SumFunction(Stakes(book)) \in Int /\ SumFunction(Payouts(book)) \in Int
      /\ SumFunction(Payouts(bets)) \in Int
      /\ Bankroll(book) = InitialBankroll - SumFunction(Stakes(book)) + SumFunction(Payouts(book))
      /\ Bankroll(bets) = InitialBankroll - SumFunction(Stakes(bets)) + SumFunction(Payouts(bets))
  BY <1>2, BankrollIsCash
<1>13. Stakes(bets) = Stakes(book)
  BY <1>11 DEF Stakes
<1>14. SumFunction(won) \in Int /\ 0 <= SumFunction(won)
  BY <1>11, SelectionFinite, SumOfCredits
<1>15. SumFunction(Payouts(bets)) = SumFunction(Payouts(book)) + SumFunction(won)
  <2>1. \A s \in Selection : Payouts(bets)[s] = Payouts(book)[s] + won[s]
    BY <1>11
  <2>2. /\ Payouts(book) \in [Selection -> Int] /\ Payouts(bets) \in [Selection -> Int]
        /\ won \in [Selection -> Int]
    BY <1>11, <1>12
  <2> QED BY <2>1, <2>2, SelectionFinite, SumAdds
<1>16. InitialBankroll \in Int
  BY LedgerAssumption
<1> DEFINE a == SumFunction(Stakes(book))
           b == SumFunction(Payouts(book))
           c == SumFunction(won)
<1>17. /\ a \in Int /\ b \in Int /\ c \in Int /\ 0 <= c
       /\ Bankroll(book) = InitialBankroll - a + b /\ bank = InitialBankroll - a + (b + c)
  BY <1>12, <1>13, <1>14, <1>15
<1>18. tx[p].bank = bank
  BY CommitRows DEF bets
<1> HIDE DEF a, b, c, bank
<1> QED BY <1>16, <1>17, <1>18

\* And its batch takes its stakes from it.
LEMMA CommitCosts ==
  ASSUME NEW p, Proc = {p}, LedgerInv, SingleWriterInv, MoneyInv(p), Commit(p)
  PROVE  /\ Cost(p) \in [Selection -> Int] /\ \A s \in Selection : 0 <= Cost(p)[s]
         /\ SumFunction(Cost(p)) \in Int /\ 0 <= SumFunction(Cost(p))
         /\ Bankroll(book') = tx[p].bank - SumFunction(Cost(p))
<1> DEFINE bets == Merged(p)
           bank == Bankroll(bets)
<1>2. /\ book \in [Selection -> Bet \cup {None}] /\ bets \in [Selection -> Bet \cup {None}]
      /\ View(p) \in [Selection -> Bet \cup {None}]
  BY CommitRows
<1>4. \A s \in Selection :
        /\ book[s] # None => book[s].stake \in Nat /\ book[s].payout \in Nat
        /\ tx[p].settled[s] # None =>
             /\ tx[p].settled[s].payout \in Nat
             /\ tx[p].settled[s].stake = book[s].stake
             /\ tx[p].settled[s].status # "pending" /\ s \in Open(book)
        /\ tx[p].placed[s] # None =>
             /\ tx[p].placed[s].stake \in Nat /\ tx[p].placed[s].stake <= Cap(bank)
             /\ tx[p].placed[s].status = "pending"
             /\ bets[s] = None
  BY CommitRows
<1> DEFINE cost == Cost(p)
<1>6. /\ cost \in [Selection -> Int] /\ \A s \in Selection : 0 <= cost[s]
      /\ \A s \in Selection : /\ Stakes(View(p))[s] = Stakes(bets)[s] + cost[s]
                              /\ Payouts(View(p))[s] = Payouts(bets)[s]
  <2> SUFFICES ASSUME NEW s \in Selection
               PROVE  /\ cost[s] \in Int /\ 0 <= cost[s]
                      /\ Stakes(View(p))[s] = Stakes(bets)[s] + cost[s]
                      /\ Payouts(View(p))[s] = Payouts(bets)[s]
    <3> HIDE DEF bets
    <3> QED BY DEF Cost
  <2>1. View(p)[s] = IF tx[p].placed[s] # None THEN tx[p].placed[s] ELSE bets[s]
    BY DEF View, Merged
  <2>2. cost[s] = IF tx[p].placed[s] # None THEN 10 * tx[p].placed[s].stake ELSE 0
    BY DEF Placed, Cost
  <2>3. Stakes(bets)[s] \in Int
    BY <1>2, BankrollIsCash
  <2> DEFINE view == View(p)
  <2>4. view[s] = IF tx[p].placed[s] # None THEN tx[p].placed[s] ELSE bets[s]
    BY <2>1
  <2> HIDE DEF bets, cost, bank, view
  <2>5. CASE tx[p].placed[s] # None
    <3>1. /\ s \in Placed(view) /\ s \notin Settled(view) /\ s \notin Placed(bets)
          /\ s \notin Settled(bets)
      BY <1>4, <2>4, <2>5 DEF Placed, Settled
    <3>2. 10 * tx[p].placed[s].stake \in Int /\ 0 <= 10 * tx[p].placed[s].stake
      BY <1>4, <2>5
    <3>3. /\ Stakes(view)[s] = cost[s] /\ Stakes(bets)[s] = 0 /\ cost[s] \in Int /\ 0 <= cost[s]
          /\ Payouts(view)[s] = Payouts(bets)[s]
      BY <2>2, <2>4, <2>5, <3>1, <3>2 DEF Stakes, Payouts
    <3> QED BY <3>3 DEF view
  <2>6. CASE tx[p].placed[s] = None
    <3>1. /\ s \in Placed(view) <=> s \in Placed(bets)
          /\ s \in Settled(view) <=> s \in Settled(bets)
      BY <2>4, <2>6 DEF Placed, Settled
    <3>2. /\ Stakes(view)[s] = Stakes(bets)[s] /\ cost[s] = 0
          /\ Payouts(view)[s] = Payouts(bets)[s]
      BY <2>2, <2>4, <2>6, <3>1 DEF Stakes, Payouts
    <3> QED BY <2>3, <3>2 DEF view
  <2> QED BY <2>5, <2>6
<1>7. SumFunction(cost) \in Int /\ 0 <= SumFunction(cost)
  <2> HIDE DEF cost
  <2> QED BY <1>6, SelectionFinite, SumOfCredits
<1>8. Bankroll(View(p)) = bank - SumFunction(cost)
  <2> DEFINE view == View(p)
  <2>1. /\ Payouts(view) \in [Selection -> Int] /\ Payouts(bets) \in [Selection -> Int]
        /\ Stakes(view) \in [Selection -> Int] /\ Stakes(bets) \in [Selection -> Int]
        /\ SumFunction(Stakes(bets)) \in Int /\ SumFunction(Payouts(bets)) \in Int
        /\ Bankroll(view) = InitialBankroll - SumFunction(Stakes(view)) + SumFunction(Payouts(view))
        /\ Bankroll(bets) = InitialBankroll - SumFunction(Stakes(bets)) + SumFunction(Payouts(bets))
    BY <1>2, BankrollIsCash
  <2>2. /\ cost \in [Selection -> Int]
        /\ \A s \in Selection : Stakes(view)[s] = Stakes(bets)[s] + cost[s]
        /\ \A s \in Selection : Payouts(view)[s] = Payouts(bets)[s]
    BY <1>6
  <2> HIDE DEF view, bets, cost
  <2>3. Payouts(view) = Payouts(bets)
    BY <2>1, <2>2
  <2>4. SumFunction(Stakes(view)) = SumFunction(Stakes(bets)) + SumFunction(cost)
    <3>1. /\ Stakes(view) \in [Selection -> Int] /\ Stakes(bets) \in [Selection -> Int]
          /\ cost \in [Selection -> Int]
          /\ \A s \in Selection : Stakes(view)[s] = Stakes(bets)[s] + cost[s]
      BY <2>1, <2>2
    <3> QED BY <3>1, SelectionFinite, SumAdds
  <2>5. InitialBankroll \in Int
    BY LedgerAssumption
  <2> DEFINE a == SumFunction(Stakes(bets))
             b == SumFunction(Payouts(bets))
             c == SumFunction(cost)
  <2>6. /\ a \in Int /\ b \in Int /\ c \in Int
        /\ bank = InitialBankroll - a + b /\ Bankroll(view) = InitialBankroll - (a + c) + b
    BY <1>7, <2>1, <2>3, <2>4
  <2>7. Bankroll(view) = bank - c
    <3> HIDE DEF a, b, c, bank
    <3> QED BY <2>5, <2>6
  <2> QED BY <2>7 DEF view
<1>9. book' = View(p) /\ tx[p].bank = bank
  BY CommitRows DEF Commit, bets
<1> HIDE DEF bank
<1> QED BY <1>6, <1>7, <1>8, <1>9

\* A batch of as many bets as the cap fraction allows for fits in the bankroll.
LEMMA BatchFits ==
  ASSUME NEW p, Proc = {p}, LedgerInv, SingleWriterInv, MoneyInv(p), Commit(p),
         SmallBatches, tx[p].bank \in Nat
  PROVE  SumFunction(Cost(p)) <= tx[p].bank
<1> DEFINE batch == Placed(tx[p].placed)
           bank  == tx[p].bank
           cost  == Cost(p)
           g == [s \in batch |-> 10 * tx[p].placed[s].stake]
<1>1. cost \in [Selection -> Int] /\ bank \in Nat
  BY CommitCosts
<1>2. /\ batch \in SUBSET Selection /\ DOMAIN g = batch /\ \A s \in batch : g[s] = cost[s]
      /\ \A s \in Selection \ batch : cost[s] = 0
  BY DEF Placed, Cost
<1>3. IsFiniteSet(batch) /\ Cardinality(batch) \in Nat
  BY <1>2, SelectionFinite, FS_Subset, FS_CardinalityType
<1>4. Cap(bank) \in Int
  BY StakingAssumption DEF Cap
<1>5. g \in [batch -> Int] /\ \A s \in batch : 0 <= g[s] /\ g[s] <= 10 * Cap(bank)
  <2> SUFFICES ASSUME NEW s \in batch
               PROVE  LET x == 10 * tx[p].placed[s].stake
                      IN  x \in Int /\ 0 <= x /\ x <= 10 * Cap(bank)
    <3> HIDE DEF bank
    <3> QED OBVIOUS
  <2>1. tx[p].placed[s].stake \in Nat /\ tx[p].placed[s].stake <= Cap(bank)
    BY <1>2, CommitRows DEF Placed
  <2> HIDE DEF bank
  <2> QED BY <1>4, <2>1
<1>6. SumFunction(g) = SumFunction(cost)
  <2>1. cost \in [Selection -> Int]
    BY <1>1
  <2> HIDE DEF g, cost, batch, bank
  <2> QED BY <1>2, <2>1, SelectionFinite, SumExtends
<1>7. SumFunction(g) <= Cardinality(batch) * (10 * Cap(bank))
  <2>1. 10 * Cap(bank) \in Int
    BY <1>4
  <2> HIDE DEF g, batch, bank
  <2> QED BY <1>3, <1>5, <2>1, SumBounded
<1>8. Cardinality(batch) * (10 * Cap(bank)) <= bank
  <2>1. Cardinality(batch) * CapNum <= CapDen
    BY DEF SmallBatches
  <2>2. Cap(bank) = (CapNum * bank) \div (10 * CapDen)
    BY DEF Cap
  <2> HIDE DEF bank, batch
  <2> QED BY <1>1, <1>3, <2>1, <2>2, CapFits, StakingAssumption
<1>9. SumFunction(cost) \in Int
  BY CommitCosts
<1>10. Cardinality(batch) * (10 * Cap(bank)) \in Int
  BY <1>3, <1>4
<1>11. SumFunction(cost) <= bank
  <2> HIDE DEF cost, g, batch, bank
  <2> QED BY <1>1, <1>6, <1>7, <1>8, <1>9, <1>10
<1> QED BY <1>11

\* A commit of a small batch leaves the bankroll of the table no debt.
LEMMA CommitIsSolvent ==
  ASSUME NEW p, Proc = {p}, LedgerInv, SingleWriterInv, MoneyInv(p), SmallBatches,
         Commit(p), Bankroll(book) >= 0
  PROVE  Bankroll(book') >= 0
<1>1. tx[p].bank \in Nat
  BY SettlingGains
<1>2. SumFunction(Cost(p)) <= tx[p].bank /\ SumFunction(Cost(p)) \in Int
  BY <1>1, BatchFits, CommitCosts
<1>3. Bankroll(book') = tx[p].bank - SumFunction(Cost(p))
  BY CommitCosts
<1> QED BY <1>1, <1>2, <1>3

(* The cap of _size_stake keeps the ledger out of debt: while no run places *)
(* more bets than ledger_max_stake_fraction allows for, it never stakes    *)
(* money it does not have, whatever is settled when.                       *)
THEOREM NeverInDebt ==
  ASSUME NEW p, Proc = {p}
  PROVE  Spec /\ []SmallBatches => []Solvent
<1> DEFINE Afloat == Bankroll(book) >= 0
<1>1. Init => Afloat
  <2> SUFFICES ASSUME Init PROVE Bankroll(book) >= 0
    OBVIOUS
  <2>1. Bankroll(book) = InitialBankroll
    BY BookInit DEF BB!Init
  <2> QED BY <2>1, LedgerAssumption
<1>2. /\ LedgerInv /\ SingleWriterInv /\ MoneyInv(p) /\ SmallBatches
      /\ Afloat /\ [Next]_vars
      => Afloat'
  <2> SUFFICES ASSUME LedgerInv, SingleWriterInv, MoneyInv(p), SmallBatches,
                      Bankroll(book) >= 0, [Next]_vars
               PROVE  Bankroll(book)' >= 0
    OBVIOUS
  <2>1. Bankroll(book)' = Bankroll(book')
    BY DEF Bankroll, Realized, OpenStakes, Settled, Open, Placed
  <2>2. CASE UNCHANGED book
    BY <2>1, <2>2
  <2> QED BY <2>1, <2>2, OnlyCommits, CommitIsSolvent
<1>3. LedgerInv /\ Afloat => Solvent
  <2> SUFFICES ASSUME LedgerInv, Bankroll(book) >= 0 PROVE Purse >= 0
    BY DEF Solvent
  <2>1. book \in [Selection -> Bet \cup {None}]
    BY DEF LedgerInv, TypeOK, OwnTypeOK
  <2>2. Purse = Bankroll(book)
    BY <2>1, BankrollIsCash DEF Purse
  <2> QED BY <2>2
<1>4. Spec => [](LedgerInv /\ SingleWriterInv /\ MoneyInv(p))
  BY Money
<1> QED BY <1>1, <1>2, <1>3, <1>4, PTL DEF Spec

-----------------------------------------------------------------------------
(* Idempotence.                                                            *)

\* What is worth placing from a bankroll is worth placing from a larger one.
LEMMA WorthMore ==
  ASSUME NEW a \in Int, NEW b \in Int, a <= b, NEW prob \in Nat, NEW price \in Nat,
         WorthPlacing(a, prob, price)
  PROVE  WorthPlacing(b, prob, price)
<1> DEFINE E == KellyEdge(prob, price)
           D == 10 * KellyScale(price) * KellyDen
<1>1. price > 100 /\ E > 0
  BY DEF WorthPlacing, KellyPositive
<1>2. E \in Nat /\ KellyScale(price) \in Nat \ {0} /\ D \in Nat \ {0}
  <2>1. E \in Int /\ KellyScale(price) \in Nat \ {0}
    BY <1>1 DEF KellyEdge, KellyScale
  <2> QED BY <1>1, <2>1, StakingAssumption
<1>3. RawStake(a, prob, price) <= RawStake(b, prob, price)
  <2> HIDE DEF E, D
  <2>1. E * a <= E * b /\ E * a \in Int /\ E * b \in Int
    BY <1>2, TimesMore
  <2>2. KellyNum * (E * a) <= KellyNum * (E * b)
    BY <2>1, TimesMore, StakingAssumption
  <2>3. /\ (a * E) * KellyNum = KellyNum * (E * a) /\ (b * E) * KellyNum = KellyNum * (E * b)
        /\ (a * E) * KellyNum \in Int /\ (b * E) * KellyNum \in Int
    BY <1>2, StakingAssumption
  <2>4. ((a * E) * KellyNum) \div D <= ((b * E) * KellyNum) \div D
    BY <1>2, <2>2, <2>3, DivMono
  <2> QED BY <2>4 DEF RawStake, E, D
<1>4. Cap(a) <= Cap(b)
  <2>1. CapNum * a <= CapNum * b /\ CapNum * a \in Int /\ CapNum * b \in Int
    BY TimesMore, StakingAssumption
  <2>2. 10 * CapDen \in Nat \ {0}
    BY StakingAssumption
  <2> QED BY <2>1, <2>2, DivMono DEF Cap
<1>5. /\ Cap(a) \in Int /\ Cap(b) \in Int
      /\ RawStake(a, prob, price) \in Int /\ RawStake(b, prob, price) \in Int
  <2>1. 10 * CapDen \in Nat \ {0} /\ CapNum * a \in Int /\ CapNum * b \in Int
    BY StakingAssumption
  <2>2. (a * E) * KellyNum \in Int /\ (b * E) * KellyNum \in Int
    <3> HIDE DEF E
    <3> QED BY <1>2, StakingAssumption
  <2>3. Cap(a) \in Int /\ Cap(b) \in Int
    BY <2>1, DivBound DEF Cap
  <2> HIDE DEF D
  <2>4. ((a * E) * KellyNum) \div D \in Int /\ ((b * E) * KellyNum) \div D \in Int
    BY <1>2, <2>2, DivBound
  <2> QED BY <2>3, <2>4 DEF RawStake, D
<1>6. SizeStake(a, prob, price) <= SizeStake(b, prob, price)
  BY <1>3, <1>4, <1>5 DEF SizeStake
<1>7. SizeStake(a, prob, price) \in Int /\ SizeStake(b, prob, price) \in Int /\ MinStake \in Int
  BY <1>5, StakingAssumption DEF SizeStake
<1>8. SizeStake(a, prob, price) >= MinStake /\ KellyPositive(prob, price)
  BY DEF WorthPlacing
<1>9. SizeStake(b, prob, price) >= MinStake
  BY <1>6, <1>7, <1>8
<1> QED BY <1>8, <1>9 DEF WorthPlacing

\* Declined from a bankroll, a candidate is declined from a smaller one.
LEMMA DeclinedLess ==
  ASSUME TypeOK, NEW s \in Candidates, NEW a \in Int, NEW b \in Int, a <= b,
         Declined(s, b)
  PROVE  Declined(s, a)
<1> DEFINE sig   == signal[champion[s.target]][s]
           offer == Offer(s, sig)
<1>1. sig.prob \in Nat /\ (offer # None => offer.odds \in Nat)
  BY OfferType
<1>2. offer = None \/ ~WorthPlacing(b, sig.prob, offer.odds)
  BY DEF Declined
<1>3. offer # None => ~WorthPlacing(a, sig.prob, offer.odds)
  <2> HIDE DEF sig, offer
  <2> QED BY <1>1, <1>2, WorthMore
<1> QED BY <1>3 DEF Declined

\* A match with a result has kicked off.
PlayedInv == \A m \in Match : result[m] # None => kickoff[m] < clock

\* While no input has changed since it began, a run has settled what is due,
\* and declines what it leaves; and a run that ended has done so.
QuietInv(p) ==
  /\ PlayedInv
  /\ stable => /\ tx[p].pc = "idle" =>
                    /\ Due = {}
                    /\ \A s \in Candidates : book[s] = None => Declined(s, Bankroll(book))
               /\ tx[p].pc # "idle" => Due = Placed(tx[p].settled)
               /\ tx[p].pc = "insert" =>
                    /\ \A s \in Placed(tx[p].placed) : result[s.match] = None
                    /\ \A s \in Candidates :
                         (Merged(p)[s] = None /\ tx[p].placed[s] = None) =>
                           Declined(s, tx[p].bank)

\* What a run reads of the tables of the other jobs.
Reads == <<kickoff, calledOff, quotes, signal, champion, result>>

\* Time only takes candidates away, and changes nothing else a run reads.
LEMMA QuietReads ==
  ASSUME LedgerInv, UNCHANGED fed \/ UNCHANGED Reads, clock' \in Nat, clock' >= clock
  PROVE  /\ \A s \in Candidates' : s \in Candidates
         /\ \A s \in Selection : \A b : Declined(s, b)' <=> Declined(s, b)
         /\ UNCHANGED book => Due' = Due
         /\ PlayedInv => PlayedInv'
<1>1. UNCHANGED <<kickoff, calledOff, quotes, signal, champion, result>>
  BY DEF fed, Reads
<1>2. clock \in Nat /\ \A m \in Match : kickoff[m] \in Nat
  <2>1. clock \in Time /\ kickoff \in [Match -> Kickoffs]
    BY DEF LedgerInv, TypeOK, FedTypeOK
  <2>2. Time \subseteq Nat /\ Kickoffs \subseteq Nat
    BY LedgerAssumption DEF Time
  <2> QED BY <2>1, <2>2
<1>3. \A s \in Candidates' : s \in Candidates
  <2> SUFFICES ASSUME NEW s \in Candidates' PROVE s \in Candidates
    OBVIOUS
  <2>1. /\ s \in Selection /\ kickoff[s.match] > clock'
        /\ champion[s.target] # None /\ signal[champion[s.target]][s] # None
    BY <1>1 DEF Candidates
  <2>2. kickoff[s.match] > clock
    BY <1>2, <2>1, SelectionFields
  <2> QED BY <2>1, <2>2 DEF Candidates
<1>4. \A s \in Selection : \A b : Declined(s, b)' <=> Declined(s, b)
  BY <1>1 DEF Declined, Offer, Prior, Close
<1>5. UNCHANGED book => Due' = Due
  BY <1>1 DEF Due, Open, Placed
<1>6. PlayedInv => PlayedInv'
  BY <1>1, <1>2 DEF PlayedInv
<1> QED BY <1>3, <1>4, <1>5, <1>6

\* The other jobs publish no result before kickoff, and move no kickoff after.
LEMMA FeedsPlay ==
  ASSUME TypeOK, PlayedInv, Feeds
  PROVE  PlayedInv' /\ (stable' = FALSE \/ StartFetch)
<1>1. stable' = FALSE \/ StartFetch
  BY FeedsType
<1>2. CASE \E m \in Match, r \in Rows : PublishResult(m, r)
  <2> PICK m \in Match, r \in Rows : PublishResult(m, r)
    BY <1>2
  <2>1. /\ result \in [Match -> Result \cup {None}] /\ kickoff[m] < clock
        /\ result' = [result EXCEPT ![m] = r] /\ UNCHANGED <<clock, kickoff>>
    BY DEF PublishResult, TypeOK, FedTypeOK
  <2> QED BY <1>1, <2>1 DEF PlayedInv
<1>3. CASE \E m \in Match, k \in Kickoffs : Reschedule(m, k)
  <2> PICK m \in Match, k \in Kickoffs : Reschedule(m, k)
    BY <1>3
  <2>1. /\ kickoff \in [Match -> Kickoffs] /\ kickoff' = [kickoff EXCEPT ![m] = k]
        /\ result[m] = None /\ UNCHANGED <<clock, result>>
    BY DEF Reschedule, TypeOK, FedTypeOK
  <2> QED BY <1>1, <2>1 DEF PlayedInv
<1>4. CASE \/ StartFetch
           \/ \E shown \in [Targets -> [Match -> Book \cup {None}]] : StoreOdds(shown)
           \/ PredictUpcoming
           \/ \E t \in Targets, v \in Version : Promote(t, v)
           \/ \E m \in Match : CallOff(m)
  <2>1. UNCHANGED <<clock, kickoff, result>>
    BY <1>4 DEF StartFetch, StoreOdds, PredictUpcoming, Promote, CallOff
  <2> QED BY <1>1, <2>1 DEF PlayedInv
<1> QED BY <1>2, <1>3, <1>4 DEF Feeds

\* Every step keeps what a run over unchanged inputs leaves undone.
LEMMA QuietStep ==
  ASSUME NEW p, Proc = {p}, LedgerInv, SingleWriterInv, MoneyInv(p), QuietInv(p), [Next]_vars
  PROVE  QuietInv(p)'
<1>1. TypeOK /\ TypeOK' /\ p \in Proc
  BY TypeStep DEF LedgerInv
<1>2. clock \in Nat /\ \A m \in Match : kickoff[m] \in Nat
  <2>1. clock \in Time /\ kickoff \in [Match -> Kickoffs]
    BY <1>1 DEF TypeOK, FedTypeOK
  <2>2. Time \subseteq Nat /\ Kickoffs \subseteq Nat
    BY LedgerAssumption DEF Time
  <2> QED BY <2>1, <2>2
<1>3. CASE Feeds /\ ~StartFetch
  <2>1. PlayedInv' /\ stable' = FALSE
    BY <1>1, <1>3, FeedsPlay DEF QuietInv
  <2> QED BY <2>1 DEF QuietInv
<1>4. ASSUME UNCHANGED fed \/ UNCHANGED Reads, clock' \in Nat, clock' >= clock
      PROVE  /\ PlayedInv' /\ \A s \in Candidates' : s \in Candidates
             /\ \A s \in Selection : \A b : Declined(s, b)' <=> Declined(s, b)
             /\ UNCHANGED book => Due' = Due
             /\ \A s \in Candidates : s \in Selection
  BY <1>4, QuietReads DEF QuietInv, Candidates
<1>5. CASE IntegrityError(p) \/ Crash(p)
  <2>1. stable' = FALSE /\ UNCHANGED <<clock, fed>>
    BY <1>5 DEF IntegrityError, Crash
  <2> QED BY <1>2, <1>4, <2>1 DEF QuietInv
\* Time passes, or a sync starts.
<1>6. CASE Tick \/ StartFetch \/ UNCHANGED vars
  <2>1. /\ UNCHANGED <<book, tx, stable>> /\ clock' \in Nat /\ clock' >= clock
        /\ UNCHANGED Reads
    BY <1>2, <1>6 DEF Tick, StartFetch, own, vars, fed, Reads
  <2>2. Merged(p)' = Merged(p) /\ Bankroll(book)' = Bankroll(book)
    BY <2>1 DEF Merged, Bankroll, Realized, OpenStakes, Settled, Open, Placed
  <2>3. UNCHANGED result
    BY <2>1 DEF Reads
  <2>4. ASSUME NEW b PROVE \A s \in Candidates' : Declined(s, b)' <=> Declined(s, b)
    BY <1>4, <2>1
  <2>5. stable' /\ tx'[p].pc = "idle" =>
          /\ Due' = {}
          /\ \A s \in Candidates' : (book[s] = None)' => Declined(s, Bankroll(book))'
    <3> SUFFICES ASSUME stable, tx[p].pc = "idle"
                 PROVE  /\ Due' = {}
                        /\ \A s \in Candidates' :
                             (book[s] = None)' => Declined(s, Bankroll(book))'
      BY <2>1
    <3>1. /\ Due = {}
          /\ \A s \in Candidates : book[s] = None => Declined(s, Bankroll(book))
      BY DEF QuietInv
    <3>2. ASSUME NEW s \in Candidates', book[s] = None
          PROVE  Declined(s, Bankroll(book))'
      <4>1. Declined(s, Bankroll(book))
        BY <1>4, <2>1, <3>1, <3>2
      <4> QED BY <2>2, <2>4, <4>1 DEF Declined, Offer, Prior, Close
    <3> QED BY <1>4, <2>1, <3>1, <3>2
  <2>6. stable' /\ tx'[p].pc # "idle" => Due' = Placed(tx[p].settled)'
    BY <1>4, <2>1 DEF QuietInv, Placed
  <2>7. stable' /\ tx'[p].pc = "insert" =>
          /\ \A s \in Placed(tx[p].placed)' : (result[s.match] = None)'
          /\ \A s \in Candidates' : (Merged(p)'[s] = None /\ tx'[p].placed[s] = None) =>
                                      Declined(s, tx[p].bank)'
    BY <1>4, <2>1, <2>2, <2>3 DEF QuietInv, Placed
  <2> QED BY <1>4, <2>1, <2>5, <2>6, <2>7 DEF QuietInv
<1>7. CASE SettleRead(p)
  <2>1. PICK tie \in BOOLEAN :
          /\ tx'[p].pc = "settle"
          /\ tx'[p].settled = [s \in Selection |->
                                 IF s \in Due THEN SettledBet(s, tie) ELSE None]
    BY <1>1, <1>7, RunSteps
  <2>2. UNCHANGED <<clock, fed, book>>
    BY <1>1, <1>7, RunSteps
  <2>3. Placed(tx'[p].settled) = Due
    <3>1. \A s \in Due : s \in Selection /\ SettledBet(s, tie) # None
      BY <1>1, SettledBetType, LedgerAssumption DEF Due, Open, Placed
    <3> QED BY <2>1, <3>1 DEF Placed
  <2>4. Due' = Due /\ PlayedInv'
    BY <1>2, <1>4, <2>2
  <2>5. Placed(tx[p].settled)' = Placed(tx'[p].settled)
    BY DEF Placed
  <2> QED BY <2>1, <2>3, <2>4, <2>5 DEF QuietInv
<1>8. CASE SumRealized(p) \/ SumOpen(p)
  <2>1. /\ tx'[p].pc \in {"realized", "place"} /\ tx'[p].settled = tx[p].settled
        /\ UNCHANGED <<clock, fed, book>>
    BY <1>1, <1>8, RunSteps
  <2>2. tx[p].pc # "idle" /\ stable' = stable
    BY <1>8 DEF SumRealized, SumOpen
  <2>3. Due' = Due /\ PlayedInv'
    BY <1>2, <1>4, <2>1
  <2>4. stable' => Due' = Placed(tx'[p].settled)
    BY <2>1, <2>2, <2>3 DEF QuietInv
  <2> QED BY <2>1, <2>3, <2>4 DEF QuietInv, Placed
<1>9. CASE PlaceRead(p)
  <2>1. /\ tx'[p].pc = "insert"
        /\ tx'[p].placed = Slips(View(p), tx[p].bank, tx[p].started)
        /\ tx'[p].bank = tx[p].bank /\ tx'[p].settled = tx[p].settled
        /\ UNCHANGED <<clock, fed, book>>
    BY <1>1, <1>9, RunSteps
  <2>2. tx[p].pc = "place" /\ stable' = stable
    BY <1>9 DEF PlaceRead
  <2>3. Due' = Due /\ PlayedInv'
    BY <1>2, <1>4, <2>1
  <2>4. Merged(p)' = Merged(p) /\ View(p) = Merged(p)
    BY <1>1, <2>1, <2>2, ViewIsMerged DEF Merged
  <2>5. ASSUME NEW s \in Placed(tx'[p].placed) PROVE result'[s.match] = None
    <3>1. s \in Candidates
      BY <2>1, <2>5 DEF Placed, Slips
    <3>2. s.match \in Match /\ kickoff[s.match] > clock
      BY <3>1, SelectionFields DEF Candidates
    <3>3. result[s.match] = None
      BY <1>2, <3>2 DEF QuietInv, PlayedInv
    <3> QED BY <2>1, <3>3 DEF fed
  <2>6. ASSUME NEW s \in Candidates, Merged(p)[s] = None, tx'[p].placed[s] = None
        PROVE  Declined(s, tx[p].bank)
    <3>1. s \in Selection /\ tx'[p].placed[s] = Slip(s, tx[p].bank, tx[p].started)
      BY <2>1, <2>4, <2>6 DEF Slips, Candidates
    <3>2. Slip(s, tx[p].bank, tx[p].started) = None => Declined(s, tx[p].bank)
      BY <1>1, RunFields, SlipType, LedgerAssumption DEF SlipOf
    <3> QED BY <2>6, <3>1, <3>2
  <2>7. \A s \in Candidates' : (Merged(p)'[s] = None /\ tx'[p].placed[s] = None) =>
                                Declined(s, tx[p].bank)'
    BY <1>2, <1>4, <2>1, <2>4, <2>6
  <2>8. \A s \in Placed(tx[p].placed)' : (result[s.match] = None)'
    BY <2>5 DEF Placed
  <2>9. stable' => Due' = Placed(tx[p].settled)'
    BY <2>1, <2>2, <2>3 DEF QuietInv, Placed
  <2> QED BY <2>1, <2>3, <2>7, <2>8, <2>9 DEF QuietInv
\* The run ends: what was due is settled, and its bets are not due.
<1>10. CASE Commit(p)
  <2>1. tx'[p].pc = "idle" /\ book' = View(p) /\ UNCHANGED <<clock, fed>>
    BY <1>1, <1>10, RunSteps DEF NoRun
  <2>2. tx[p].pc = "insert" /\ stable' = stable
    BY <1>10 DEF Commit
  <2>3. UNCHANGED <<kickoff, signal, champion, result>> /\ PlayedInv'
    BY <1>2, <1>4, <2>1 DEF fed
  <2>4. ASSUME stable PROVE Due' = {}
    <3>1. /\ Due = Placed(tx[p].settled)
          /\ \A s \in Placed(tx[p].placed) : result[s.match] = None
      BY <2>2, <2>4 DEF QuietInv
    <3>2. SUFFICES ASSUME NEW s \in Due' PROVE FALSE
      OBVIOUS
    <3>3. /\ s \in Selection /\ book'[s] # None /\ book'[s].status = "pending"
          /\ result[s.match] # None /\ result[s.match].confirmed
          /\ ~(s.target = "handicap" /\ book'[s].line = NoLine)
      BY <2>3 DEF Due, Open, Placed
    <3>4. tx[p].placed[s] = None
      BY <3>1, <3>3 DEF Placed
    <3>5. tx[p].settled[s] = None
      BY <1>10, <2>1, <3>3, <3>4, CommitRows DEF View
    <3>6. book'[s] = book[s]
      BY <2>1, <3>3, <3>4, <3>5 DEF View
    <3>7. s \in Due
      BY <3>3, <3>6 DEF Due, Open, Placed
    <3> QED BY <3>1, <3>5, <3>7 DEF Placed
  <2>5. ASSUME stable, NEW s \in Candidates, book'[s] = None
        PROVE  Declined(s, Bankroll(book'))
    <3>1. s \in Selection
      BY DEF Candidates
    <3>2. tx[p].placed[s] = None /\ Merged(p)[s] = None
      BY <2>1, <2>5, <3>1 DEF View, Merged
    <3>3. Declined(s, tx[p].bank)
      BY <2>2, <2>5, <3>2 DEF QuietInv
    <3>4. /\ tx[p].bank \in Int /\ SumFunction(Cost(p)) \in Int /\ 0 <= SumFunction(Cost(p))
          /\ Bankroll(book') = tx[p].bank - SumFunction(Cost(p))
      BY <1>10, SettlingGains, CommitCosts
    <3>5. Bankroll(book') \in Int /\ Bankroll(book') <= tx[p].bank
      BY <3>4
    <3> QED BY <1>1, <3>3, <3>4, <3>5, DeclinedLess
  <2>6. Bankroll(book)' = Bankroll(book')
    BY DEF Bankroll, Realized, OpenStakes, Settled, Open, Placed
  <2>7. ASSUME stable, NEW s \in Candidates', book'[s] = None
        PROVE  Declined(s, Bankroll(book))'
    <3>1. s \in Candidates /\ s \in Selection
      BY <1>2, <1>4, <2>1
    <3>2. Declined(s, Bankroll(book'))
      BY <2>5, <2>7, <3>1
    <3>3. \A b : Declined(s, b)' <=> Declined(s, b)
      BY <1>2, <1>4, <2>1, <3>1
    <3> QED BY <2>6, <3>2, <3>3 DEF Declined, Offer, Prior, Close
  <2>8. stable' => /\ Due' = {}
                   /\ \A s \in Candidates' : (book[s] = None)' => Declined(s, Bankroll(book))'
    BY <2>2, <2>4, <2>7
  <2> QED BY <2>1, <2>3, <2>8 DEF QuietInv
<1> QED
  <2>1. Tick \/ UNCHANGED vars \/ Feeds \/ LedgerUpdate(p) \/ Crash(p)
    BY DEF Next
  <2> QED BY <1>3, <1>5, <1>6, <1>7, <1>8, <1>9, <1>10, <2>1 DEF LedgerUpdate

\* "Both passes are idempotent" (ledger.py): with a single ledger process and no
\* input changed since it began, a run that ended leaves nothing to settle and
\* nothing worth placing, although its own bets changed the bankroll the next
\* run would size from.
THEOREM PassesAreIdempotent ==
  ASSUME NEW p, Proc = {p}
  PROVE  Spec => []IdempotentWhenQuiet
<1>1. Init => QuietInv(p)
  BY DEF Init, QuietInv, PlayedInv
<1>2. LedgerInv /\ SingleWriterInv /\ MoneyInv(p) /\ QuietInv(p) /\ [Next]_vars => QuietInv(p)'
  BY QuietStep
<1>3. QuietInv(p) => IdempotentWhenQuiet
  <2> SUFFICES ASSUME QuietInv(p), stable, tx[p].pc = "idle"
               PROVE  Due = {} /\ Placed(Slips(book, Bankroll(book), clock)) = {}
    BY DEF IdempotentWhenQuiet
  <2>1. /\ Due = {}
        /\ \A s \in Candidates : book[s] = None => Declined(s, Bankroll(book))
    BY DEF QuietInv
  <2>2. ASSUME NEW s \in Selection PROVE Slips(book, Bankroll(book), clock)[s] = None
    <3>1. CASE s \in Candidates /\ book[s] = None
      <4>1. Declined(s, Bankroll(book))
        BY <2>1, <3>1
      <4>2. Slip(s, Bankroll(book), clock) = None
        BY <4>1 DEF Declined, Slip
      <4> QED BY <3>1, <4>2 DEF Slips
    <3> QED BY <3>1 DEF Slips
  <2> QED BY <2>1, <2>2 DEF Placed
<1>4. Spec => [](LedgerInv /\ SingleWriterInv /\ MoneyInv(p))
  BY Money
<1> QED BY <1>1, <1>2, <1>3, <1>4, PTL DEF Spec
=============================================================================
