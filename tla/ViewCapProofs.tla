--------------------------- MODULE ViewCapProofs ---------------------------
(***************************************************************************)
(* The row ceiling takes no more than it must, for any number of strata,   *)
(* any trajectories and any range; and where no trajectory is too long for *)
(* the range, the cut lands inside it.                                     *)
(*                                                                         *)
(* The sums are recursive functions.  What they satisfy is proved by the   *)
(* least counterexample: a set of numbers that has 0, and n + 1 with n,    *)
(* has them all (Induction); a function computed step by step exists       *)
(* (Recursion), so the chosen one satisfies its equation (TotalsDef), and  *)
(* sums of sums, of multiples and of ones follow by induction.             *)
(*                                                                         *)
(* The shares are the whole quotients and one more for the strata of the   *)
(* largest remainders.  The remainders of the divisions add up to as many  *)
(* times the divisor as rows are left over; were one of the favoured       *)
(* remainders 0, all others would be, and the favoured alone cannot add up *)
(* to that.  So nobody's share exceeds what he has (ShareFacts), an uncut  *)
(* stratum uses its whole share, a cut one leaves less than its next       *)
(* trajectory takes (TrimmedStratum), and the strata add up (TrimmedFills).*)
(***************************************************************************)
EXTENDS ViewCap, SequenceTheorems, FiniteSetTheorems, WellFoundedInduction, TLAPS

-----------------------------------------------------------------------------
(* Induction, over a set: the sets below are those of the n up to which a   *)
(* fact about a sequence holds.                                             *)
LEMMA LeastNumber ==
  ASSUME NEW S \in SUBSET Nat, S # {}
  PROVE  \E i \in S : \A j \in S : i <= j
<1>1. PICK i \in S : \A j \in S : <<j, i>> \notin OpToRel(<, Nat)
  BY NatLessThanWellFounded, WFMin
<1>2. \A j \in S : ~ (j < i)
  BY <1>1 DEF OpToRel
<1>3. ASSUME NEW j \in S PROVE i <= j
  <2>1. i \in Nat /\ j \in Nat
    OBVIOUS
  <2> QED
    BY <1>2, <2>1
<1> QED
  BY <1>3

LEMMA Induction ==
  ASSUME NEW m \in Nat, NEW S, 0 \in S, \A n \in 0..(m - 1) : n \in S => n + 1 \in S
  PROVE  \A n \in 0..m : n \in S
<1> SUFFICES ASSUME {n \in 0..m : n \notin S} # {} PROVE FALSE
  OBVIOUS
<1> DEFINE Gap == {n \in 0..m : n \notin S}
<1>1. PICK i \in Gap : \A j \in Gap : i <= j
  <2>1. Gap \in SUBSET Nat /\ Gap # {}
    OBVIOUS
  <2> HIDE DEF Gap
  <2> QED
    BY <2>1, LeastNumber
<1>2. i - 1 \in 0..(m - 1) /\ i - 1 \notin Gap /\ i = (i - 1) + 1
  BY <1>1
<1> QED
  BY <1>1, <1>2

(* A nonempty set of numbers up to m has a greatest. *)
LEMMA GreatestNumber ==
  ASSUME NEW m \in Nat, NEW S \in SUBSET (0..m), S # {}
  PROVE  \E i \in S : \A j \in S : j <= i
<1> DEFINE Turned == {m - i : i \in S}
<1>1. Turned \in SUBSET Nat /\ Turned # {}
  <2>1. \A i \in S : i \in 0..m /\ m - i \in Nat
    OBVIOUS
  <2> QED
    BY <2>1
<1>2. PICK k \in Turned : \A j \in Turned : k <= j
  BY <1>1, LeastNumber
<1>3. PICK i \in S : k = m - i
  OBVIOUS
<1>4. ASSUME NEW j \in S PROVE j <= i
  <2>1. m - j \in Turned
    OBVIOUS
  <2>2. i \in 0..m /\ j \in 0..m
    OBVIOUS
  <2>3. m - i <= m - j
    BY <1>2, <1>3, <2>1
  <2> QED
    BY <2>2, <2>3
<1> QED
  BY <1>4

(* What is computed step by step exists: TLA+'s recursive functions on the  *)
(* numbers up to m are chosen among such.                                   *)
Computed(m, V, v0, step) ==
  {g \in [0..m -> V] : g[0] = v0 /\ \A n \in 1..m : g[n] = step[<<n, g[n - 1]>>]}

LEMMA Recursion ==
  ASSUME NEW m \in Nat, NEW V, NEW v0 \in V, NEW step \in [(1..m) \X V -> V]
  PROVE  Computed(m, V, v0, step) # {}
<1> DEFINE Upto(n) == {g \in [0..n -> V] : /\ g[0] = v0
                                            /\ \A k \in 1..n : g[k] = step[<<k, g[k - 1]>>]}
           S == {n \in 0..m : Upto(n) # {}}
<1>1. 0 \in S
  <2>1. [k \in 0..0 |-> v0] \in Upto(0)
    OBVIOUS
  <2> QED
    BY <2>1
<1>2. ASSUME NEW n \in 0..(m - 1), n \in S PROVE n + 1 \in S
  <2>1. PICK g \in Upto(n) : TRUE
    BY <1>2
  <2> DEFINE h == [k \in 0..(n + 1) |-> IF k = n + 1 THEN step[<<n + 1, g[n]>>] ELSE g[k]]
  <2>2. g[n] \in V /\ n + 1 \in 1..m
    BY <2>1
  <2>3. step[<<n + 1, g[n]>>] \in V
    BY <2>2
  <2>4. h \in [0..(n + 1) -> V]
    BY <2>1, <2>3
  <2>5. h[0] = v0
    BY <2>1
  <2>6. ASSUME NEW k \in 1..(n + 1) PROVE h[k] = step[<<k, h[k - 1]>>]
    <3>1. CASE k = n + 1
      <4>1. k - 1 = n /\ n \in 0..(n + 1) /\ n # n + 1
        BY <3>1
      <4>2. h[k] = step[<<n + 1, g[n]>>] /\ h[n] = g[n]
        BY <3>1, <4>1
      <4> QED
        BY <3>1, <4>1, <4>2
    <3>2. CASE k # n + 1
      <4>1. k \in 1..n /\ k - 1 \in 0..n
        BY <3>2
      <4>2. h[k] = g[k] /\ h[k - 1] = g[k - 1]
        BY <3>2, <4>1
      <4> QED
        BY <2>1, <4>1, <4>2
    <3> QED
      BY <3>1, <3>2
  <2>7. h \in Upto(n + 1)
    BY <2>4, <2>5, <2>6
  <2> HIDE DEF Upto, h
  <2>8. n + 1 \in 0..m /\ Upto(n + 1) # {}
    BY <2>7
  <2> QED
    BY <2>8
<1>3. m \in S
  <2> HIDE DEF S
  <2> QED
    BY <1>1, <1>2, Induction
<1> QED
  BY <1>3 DEF Computed

-----------------------------------------------------------------------------
(* Sums. *)
LEMMA TotalsDef ==
  ASSUME NEW seq \in Seq(Int)
  PROVE  /\ Totals(seq) \in [0..Len(seq) -> Int]
         /\ Totals(seq)[0] = 0
         /\ \A n \in 1..Len(seq) : Totals(seq)[n] = Totals(seq)[n - 1] + seq[n]
<1> DEFINE m == Len(seq)
           Body(g) == [n \in 0..Len(seq) |-> IF n = 0 THEN 0 ELSE g[n - 1] + seq[n]]
           up == CHOOSE g : g = Body(g)
           step == [p \in (1..m) \X Int |-> p[2] + seq[p[1]]]
<1>1. m \in Nat /\ \A n \in 1..m : seq[n] \in Int
  BY LenProperties, ElementOfSeq
<1>2. step \in [(1..m) \X Int -> Int]
  BY <1>1
<1>3. PICK g \in Computed(m, Int, 0, step) : TRUE
  <2>1. m \in Nat /\ 0 \in Int
    BY <1>1
  <2> HIDE DEF step, m
  <2> QED
    BY <1>2, <2>1, Recursion
<1>4. g \in [0..m -> Int] /\ g[0] = 0 /\ \A n \in 1..m : g[n] = step[<<n, g[n - 1]>>]
  <2> HIDE DEF step, m
  <2> QED
    BY <1>3 DEF Computed
<1>5. ASSUME NEW n \in 1..m PROVE g[n] = g[n - 1] + seq[n]
  <2>1. n - 1 \in 0..m
    BY <1>1
  <2>2. g[n - 1] \in Int
    BY <1>4, <2>1
  <2>3. <<n, g[n - 1]>> \in (1..m) \X Int
    BY <2>2
  <2>4. step[<<n, g[n - 1]>>] = g[n - 1] + seq[n]
    BY <2>3
  <2> QED
    BY <1>4, <2>4
<1>6. g = Body(g)
  BY <1>1, <1>4, <1>5
<1>7. up = Body(up)
  <2> HIDE DEF Body
  <2> QED
    BY <1>6
<1>8. Totals(seq) = up
  BY DEF Totals
<1> DEFINE S == {n \in 0..m : up[n] \in Int}
<1> HIDE DEF up
<1>9. up[0] = 0 /\ \A n \in 1..m : up[n] = up[n - 1] + seq[n]
  BY <1>1, <1>7
<1>10. 0 \in S
  BY <1>1, <1>9
<1>11. ASSUME NEW n \in 0..(m - 1), n \in S PROVE n + 1 \in S
  <2>1. n + 1 \in 1..m /\ (n + 1) - 1 = n
    BY <1>1
  <2>2. up[n + 1] = up[n] + seq[n + 1]
    BY <1>9, <2>1
  <2> QED
    BY <1>1, <1>11, <2>1, <2>2
<1>12. \A n \in 0..m : n \in S
  <2> HIDE DEF S, m
  <2> QED
    BY <1>1, <1>10, <1>11, Induction
<1>13. up \in [0..m -> Int]
  BY <1>7, <1>12
<1> QED
  BY <1>8, <1>9, <1>13

(* A sequence over the strata. *)
LEMMA StrataSeq ==
  ASSUME NEW f \in [Strata -> Int]
  PROVE  f \in Seq(Int) /\ Len(f) = NumStrata
<1>1. NumStrata \in Nat
  BY ViewCapAssumption
<1>2. f \in [1..NumStrata -> Int]
  BY DEF Strata
<1> QED
  BY <1>1, <1>2, SeqDef

LEMMA SumType ==
  ASSUME NEW seq \in Seq(Int)
  PROVE  Sum(seq) \in Int
  BY TotalsDef, LenProperties DEF Sum

(* Two sequences that agree up to n have the same total up to n, and if one *)
(* is nowhere above the other, nor is its total.                            *)
LEMMA TotalsAtMost ==
  ASSUME NEW a \in Seq(Int), NEW b \in Seq(Int), NEW m \in Nat,
         m <= Len(a), m <= Len(b), \A k \in 1..m : a[k] <= b[k]
  PROVE  \A n \in 0..m : Totals(a)[n] <= Totals(b)[n]
<1> DEFINE S == {n \in 0..m : Totals(a)[n] <= Totals(b)[n]}
<1>1. 0 \in S
  BY TotalsDef
<1>2. ASSUME NEW n \in 0..(m - 1), n \in S PROVE n + 1 \in S
  <2>1. /\ n + 1 \in 1..m /\ (n + 1) - 1 = n
        /\ n + 1 \in 1..Len(a) /\ n + 1 \in 1..Len(b)
        /\ n \in 0..Len(a) /\ n \in 0..Len(b)
    BY LenProperties
  <2>2. Totals(a)[n + 1] = Totals(a)[n] + a[n + 1] /\ Totals(b)[n + 1] = Totals(b)[n] + b[n + 1]
    BY <2>1, TotalsDef
  <2>3. Totals(a)[n] \in Int /\ Totals(b)[n] \in Int
    BY <2>1, TotalsDef
  <2>4. a[n + 1] \in Int /\ b[n + 1] \in Int /\ a[n + 1] <= b[n + 1]
    BY <2>1, ElementOfSeq
  <2> QED
    BY <1>2, <2>1, <2>2, <2>3, <2>4
<1> HIDE DEF S
<1>3. \A n \in 0..m : n \in S
  BY <1>1, <1>2, Induction
<1> QED
  BY <1>3 DEF S

LEMMA SumAtMost ==
  ASSUME NEW f \in [Strata -> Int], NEW g \in [Strata -> Int], \A s \in Strata : f[s] <= g[s]
  PROVE  Sum(f) <= Sum(g)
<1>1. NumStrata \in Nat
  BY ViewCapAssumption
<1>2. /\ f \in Seq(Int) /\ g \in Seq(Int)
      /\ Len(f) = NumStrata /\ Len(g) = NumStrata
  BY StrataSeq
<1>3. \A k \in 1..NumStrata : f[k] <= g[k]
  BY DEF Strata
<1>4. \A n \in 0..NumStrata : Totals(f)[n] <= Totals(g)[n]
  BY <1>1, <1>2, <1>3, TotalsAtMost
<1> QED
  BY <1>1, <1>2, <1>4 DEF Sum

(* The sum of a sum, and of a multiple. *)
LEMMA SumOfSum ==
  ASSUME NEW f \in [Strata -> Int], NEW g \in [Strata -> Int], NEW h \in [Strata -> Int],
         \A s \in Strata : h[s] = f[s] + g[s]
  PROVE  Sum(h) = Sum(f) + Sum(g)
<1>1. NumStrata \in Nat
  BY ViewCapAssumption
<1>2. /\ f \in Seq(Int) /\ g \in Seq(Int) /\ h \in Seq(Int)
      /\ Len(f) = NumStrata /\ Len(g) = NumStrata /\ Len(h) = NumStrata
  BY StrataSeq
<1> DEFINE S == {n \in 0..NumStrata : Totals(h)[n] = Totals(f)[n] + Totals(g)[n]}
<1>3. 0 \in S
  BY <1>1, <1>2, TotalsDef
<1>4. ASSUME NEW n \in 0..(NumStrata - 1), n \in S PROVE n + 1 \in S
  <2>1. n + 1 \in 1..NumStrata /\ (n + 1) - 1 = n /\ n \in 0..NumStrata
    BY <1>1
  <2>2. /\ Totals(f)[n + 1] = Totals(f)[n] + f[n + 1]
        /\ Totals(g)[n + 1] = Totals(g)[n] + g[n + 1]
        /\ Totals(h)[n + 1] = Totals(h)[n] + h[n + 1]
    BY <1>2, <2>1, TotalsDef
  <2>3. Totals(f)[n] \in Int /\ Totals(g)[n] \in Int
    BY <1>2, <2>1, TotalsDef
  <2>4. f[n + 1] \in Int /\ g[n + 1] \in Int /\ h[n + 1] = f[n + 1] + g[n + 1]
    BY <2>1 DEF Strata
  <2> QED
    BY <1>1, <1>4, <2>1, <2>2, <2>3, <2>4
<1> HIDE DEF S
<1>5. \A n \in 0..NumStrata : n \in S
  BY <1>1, <1>3, <1>4, Induction
<1>6. NumStrata \in S
  BY <1>1, <1>5
<1> QED
  BY <1>2, <1>6 DEF S, Sum

LEMMA SumOfMultiple ==
  ASSUME NEW f \in [Strata -> Int], NEW g \in [Strata -> Int], NEW c \in Int,
         \A s \in Strata : g[s] = c * f[s]
  PROVE  Sum(g) = c * Sum(f)
<1>1. NumStrata \in Nat
  BY ViewCapAssumption
<1>2. /\ f \in Seq(Int) /\ g \in Seq(Int)
      /\ Len(f) = NumStrata /\ Len(g) = NumStrata
  BY StrataSeq
<1> DEFINE S == {n \in 0..NumStrata : Totals(g)[n] = c * Totals(f)[n]}
<1>3. 0 \in S
  BY <1>1, <1>2, TotalsDef
<1>4. ASSUME NEW n \in 0..(NumStrata - 1), n \in S PROVE n + 1 \in S
  <2>1. n + 1 \in 1..NumStrata /\ (n + 1) - 1 = n /\ n \in 0..NumStrata
    BY <1>1
  <2>2. /\ Totals(f)[n + 1] = Totals(f)[n] + f[n + 1]
        /\ Totals(g)[n + 1] = Totals(g)[n] + g[n + 1]
    BY <1>2, <2>1, TotalsDef
  <2>3. Totals(f)[n] \in Int
    BY <1>2, <2>1, TotalsDef
  <2>4. f[n + 1] \in Int /\ g[n + 1] = c * f[n + 1]
    BY <2>1 DEF Strata
  <2>5. c * (Totals(f)[n] + f[n + 1]) = c * Totals(f)[n] + c * f[n + 1]
    BY <2>3, <2>4
  <2> QED
    BY <1>1, <1>4, <2>1, <2>2, <2>3, <2>4, <2>5
<1> HIDE DEF S
<1>5. \A n \in 0..NumStrata : n \in S
  BY <1>1, <1>3, <1>4, Induction
<1>6. NumStrata \in S
  BY <1>1, <1>5
<1> QED
  BY <1>2, <1>6 DEF S, Sum

(* Counting by adding ones. *)
LEMMA SumOfOnes ==
  ASSUME NEW more \in SUBSET Strata,
         NEW f \in [Strata -> Int], \A s \in Strata : f[s] = IF s \in more THEN 1 ELSE 0
  PROVE  Sum(f) = Cardinality(more)
<1>1. NumStrata \in Nat
  BY ViewCapAssumption
<1>2. f \in Seq(Int) /\ Len(f) = NumStrata
  BY StrataSeq
<1> DEFINE Part(n) == more \cap (1..n)
           S == {n \in 0..NumStrata : IsFiniteSet(Part(n)) /\ Totals(f)[n] = Cardinality(Part(n))}
<1>3. 0 \in S
  <2>1. Part(0) = {}
    OBVIOUS
  <2> QED
    BY <1>1, <1>2, <2>1, TotalsDef, FS_EmptySet
<1>4. ASSUME NEW n \in 0..(NumStrata - 1), n \in S PROVE n + 1 \in S
  <2>1. n + 1 \in 1..NumStrata /\ (n + 1) - 1 = n /\ n \in Nat
    BY <1>1
  <2>2. Totals(f)[n + 1] = Totals(f)[n] + f[n + 1]
    BY <1>2, <2>1, TotalsDef
  <2>3. n + 1 \notin Part(n) /\ n + 1 \in Strata
    BY <2>1 DEF Strata
  <2>4. CASE n + 1 \in more
    <3>1. Part(n + 1) = Part(n) \cup {n + 1}
      BY <2>1, <2>4
    <3> HIDE DEF Part
    <3>2. IsFiniteSet(Part(n + 1)) /\ Cardinality(Part(n + 1)) = Cardinality(Part(n)) + 1
      BY <1>4, <2>3, <3>1, FS_AddElement
    <3>3. f[n + 1] = 1
      BY <2>3, <2>4
    <3> QED
      BY <1>4, <2>1, <2>2, <3>2, <3>3
  <2>5. CASE n + 1 \notin more
    <3>1. Part(n + 1) = Part(n)
      BY <2>1, <2>5
    <3> HIDE DEF Part
    <3>2. f[n + 1] = 0 /\ Cardinality(Part(n)) \in Nat
      BY <1>4, <2>3, <2>5, FS_CardinalityType
    <3> QED
      BY <1>4, <2>1, <2>2, <3>1, <3>2
  <2> QED
    BY <2>4, <2>5
<1>5. \A n \in 0..NumStrata : n \in S
  <2> HIDE DEF S
  <2> QED
    BY <1>1, <1>3, <1>4, Induction
<1>6. NumStrata \in S
  BY <1>1, <1>5
<1>7. Part(NumStrata) = more
  BY DEF Strata
<1> QED
  BY <1>2, <1>6, <1>7 DEF Sum

(* A sequence of rows, its first taken off, and cut short. *)
LEMMA TotalsNat ==
  ASSUME NEW seq \in Seq(Nat)
  PROVE  \A n \in 0..Len(seq) : Totals(seq)[n] \in Nat
<1>1. seq \in Seq(Int) /\ Len(seq) \in Nat
  BY LenProperties, SeqMonotonic
<1> DEFINE S == {n \in 0..Len(seq) : Totals(seq)[n] \in Nat}
<1>2. 0 \in S
  BY <1>1, TotalsDef
<1>3. ASSUME NEW n \in 0..(Len(seq) - 1), n \in S PROVE n + 1 \in S
  <2>1. n + 1 \in 1..Len(seq) /\ (n + 1) - 1 = n
    BY <1>1
  <2>2. Totals(seq)[n + 1] = Totals(seq)[n] + seq[n + 1]
    BY <1>1, <2>1, TotalsDef
  <2>3. seq[n + 1] \in Nat
    BY <2>1, ElementOfSeq
  <2> QED
    BY <1>3, <2>1, <2>2, <2>3
<1> HIDE DEF S
<1>4. \A n \in 0..Len(seq) : n \in S
  BY <1>1, <1>2, <1>3, Induction
<1> QED
  BY <1>4 DEF S

LEMMA TotalsFromSecond ==
  ASSUME NEW seq \in Seq(Int), seq # <<>>
  PROVE  \A n \in 0..Len(Tail(seq)) : Totals(seq)[n + 1] = Head(seq) + Totals(Tail(seq))[n]
<1> DEFINE rest == Tail(seq)
           m == Len(rest)
           S == {n \in 0..m : Totals(seq)[n + 1] = Head(seq) + Totals(rest)[n]}
<1>1. /\ Head(seq) \in Int /\ rest \in Seq(Int) /\ m = Len(seq) - 1
      /\ \A i \in 1..m : rest[i] = seq[i + 1]
  BY HeadTailProperties
<1>2. m \in Nat /\ Len(seq) \in Nat /\ Head(seq) = seq[1]
  BY <1>1, LenProperties
<1> HIDE DEF rest
<1>3. 0 \in S
  <2>1. Totals(seq)[0] = 0 /\ Totals(rest)[0] = 0
    BY <1>1, TotalsDef
  <2>2. 1 \in 1..Len(seq) /\ 1 - 1 = 0
    BY <1>1, <1>2
  <2>3. Totals(seq)[1] = Totals(seq)[1 - 1] + seq[1]
    BY <2>2, TotalsDef
  <2>4. Totals(seq)[1] = Head(seq)
    BY <1>1, <1>2, <2>1, <2>2, <2>3
  <2> QED
    BY <1>1, <1>2, <2>1, <2>4
<1>4. ASSUME NEW n \in 0..(m - 1), n \in S PROVE n + 1 \in S
  <2>1. /\ n + 1 \in 1..m /\ (n + 1) - 1 = n /\ n \in 0..m
        /\ n + 2 \in 1..Len(seq) /\ (n + 2) - 1 = n + 1 /\ (n + 1) + 1 = n + 2
    BY <1>1, <1>2
  <2>2. Totals(rest)[n + 1] = Totals(rest)[n] + rest[n + 1]
    BY <1>1, <2>1, TotalsDef
  <2>3. Totals(seq)[n + 2] = Totals(seq)[n + 1] + seq[n + 2]
    BY <2>1, TotalsDef
  <2>4. rest[n + 1] = seq[n + 2] /\ seq[n + 2] \in Int /\ Totals(rest)[n] \in Int
    BY <1>1, <2>1, ElementOfSeq, TotalsDef
  <2>5. Totals(seq)[n + 1] = Head(seq) + Totals(rest)[n]
    BY <1>4
  <2>6. Totals(seq)[n + 2] = Head(seq) + Totals(rest)[n + 1]
    BY <1>1, <2>2, <2>3, <2>4, <2>5
  <2> QED
    BY <2>1, <2>6
<1>5. \A n \in 0..m : n \in S
  <2> HIDE DEF S, m
  <2> QED
    BY <1>2, <1>3, <1>4, Induction
<1> QED
  BY <1>5 DEF rest

LEMMA SumOfPrefix ==
  ASSUME NEW seq \in Seq(Int), NEW m \in 0..Len(seq)
  PROVE  Sum(SubSeq(seq, 1, m)) = Totals(seq)[m]
<1> DEFINE part == SubSeq(seq, 1, m)
<1>1. Len(seq) \in Nat /\ m \in Nat /\ m <= Len(seq) /\ \A i \in 1..m : seq[i] \in Int
  BY LenProperties, ElementOfSeq
<1>2. part \in Seq(Int) /\ Len(part) = m /\ \A i \in 1..m : part[i] = seq[i]
  <2>1. /\ part \in Seq(Int)
        /\ Len(part) = IF 1 <= m THEN m - 1 + 1 ELSE 0
        /\ \A i \in 1..(m - 1 + 1) : part[i] = seq[1 + i - 1]
    BY <1>1, SubSeqProperties
  <2> QED
    BY <1>1, <2>1
<1> HIDE DEF part
<1>3. \A n \in 0..m : Totals(part)[n] <= Totals(seq)[n] /\ Totals(seq)[n] <= Totals(part)[n]
  <2>1. \A i \in 1..m : part[i] <= seq[i] /\ seq[i] <= part[i]
    BY <1>1, <1>2
  <2>2. m <= Len(part)
    BY <1>1, <1>2
  <2>3. \A n \in 0..m : Totals(part)[n] <= Totals(seq)[n]
    BY <1>1, <1>2, <2>1, <2>2, TotalsAtMost
  <2>4. \A n \in 0..m : Totals(seq)[n] <= Totals(part)[n]
    BY <1>1, <1>2, <2>1, <2>2, TotalsAtMost
  <2> QED
    BY <2>3, <2>4
<1>4. m \in 0..m /\ Totals(part)[m] \in Int /\ Totals(seq)[m] \in Int
  <2>1. m \in 0..m
    BY <1>1
  <2>2. Totals(part) \in [0..m -> Int]
    BY <1>2, TotalsDef
  <2>3. Totals(seq) \in [0..Len(seq) -> Int]
    BY TotalsDef
  <2> QED
    BY <2>1, <2>2, <2>3
<1> QED
  BY <1>2, <1>3, <1>4 DEF Sum, part

(* The trajectories with views are trajectories. *)
LEMMA WithViewsType ==
  ASSUME NEW V \in SUBSET Nat, NEW seq \in Seq(V)
  PROVE  WithViews(seq) \in Seq(V)
<1> DEFINE m == Len(seq)
           W == Seq(V)
           Body(g) == [n \in 0..Len(seq) |->
                         IF n = 0 THEN <<>>
                         ELSE IF seq[n] > 0 THEN Append(g[n - 1], seq[n]) ELSE g[n - 1]]
           up == CHOOSE g : g = Body(g)
           step == [p \in (1..m) \X W |->
                      IF seq[p[1]] > 0 THEN Append(p[2], seq[p[1]]) ELSE p[2]]
<1>1. m \in Nat /\ \A n \in 1..m : seq[n] \in V
  BY LenProperties, ElementOfSeq
<1>2. step \in [(1..m) \X W -> W]
  <2>1. \A w \in W, n \in 1..m : Append(w, seq[n]) \in W
    BY <1>1, AppendProperties
  <2> QED
    BY <2>1
<1>3. <<>> \in W
  OBVIOUS
<1>4. PICK g \in Computed(m, W, <<>>, step) : TRUE
  <2> HIDE DEF step, m, W
  <2> QED
    BY <1>1, <1>2, <1>3, Recursion
<1>5. g \in [0..m -> W] /\ g[0] = <<>> /\ \A n \in 1..m : g[n] = step[<<n, g[n - 1]>>]
  <2> HIDE DEF step, m, W
  <2> QED
    BY <1>4 DEF Computed
<1>6. ASSUME NEW n \in 1..m
      PROVE  g[n] = IF seq[n] > 0 THEN Append(g[n - 1], seq[n]) ELSE g[n - 1]
  <2>1. n - 1 \in 0..m
    BY <1>1
  <2>2. g[n - 1] \in W
    BY <1>5, <2>1
  <2>3. <<n, g[n - 1]>> \in (1..m) \X W
    BY <2>2
  <2> HIDE DEF W
  <2>4. step[<<n, g[n - 1]>>] = IF seq[n] > 0 THEN Append(g[n - 1], seq[n]) ELSE g[n - 1]
    BY <2>3
  <2> QED
    BY <1>5, <2>4
<1>7. g = Body(g)
  <2>1. Body(g) = [n \in 0..m |-> g[n]]
    <3>1. ASSUME NEW n \in 0..m
          PROVE  g[n] = IF n = 0 THEN <<>>
                        ELSE IF seq[n] > 0 THEN Append(g[n - 1], seq[n]) ELSE g[n - 1]
      <4>1. n = 0 \/ n \in 1..m
        BY <1>1
      <4> HIDE DEF W, step, m
      <4> QED
        BY <1>5, <1>6, <4>1
    <3> QED
      BY <3>1
  <2> HIDE DEF W, step, Body
  <2> QED
    BY <1>5, <2>1
<1>8. up = Body(up)
  <2> HIDE DEF Body
  <2> QED
    BY <1>7
<1>9. WithViews(seq) = up[m]
  BY DEF WithViews
<1> DEFINE S == {n \in 0..m : up[n] \in W}
<1> HIDE DEF up
<1>10. 0 \in S
  BY <1>1, <1>3, <1>8
<1>11. ASSUME NEW n \in 0..(m - 1), n \in S PROVE n + 1 \in S
  <2>1. n + 1 \in 0..m /\ n + 1 # 0 /\ (n + 1) - 1 = n /\ n + 1 \in 1..m
    BY <1>1
  <2>2. up[n + 1] = IF seq[n + 1] > 0 THEN Append(up[n], seq[n + 1]) ELSE up[n]
    BY <1>8, <2>1
  <2>3. up[n] \in W /\ seq[n + 1] \in V
    BY <1>1, <1>11, <2>1
  <2>4. up[n + 1] \in W
    BY <2>2, <2>3, AppendProperties
  <2> QED
    BY <2>1, <2>4
<1>12. \A n \in 0..m : n \in S
  <2> HIDE DEF S, m
  <2> QED
    BY <1>1, <1>10, <1>11, Induction
<1> QED
  BY <1>1, <1>9, <1>12

-----------------------------------------------------------------------------
(* The build above the ceiling. *)
LEMMA Division ==
  ASSUME NEW a \in Nat, NEW b \in Nat, b > 0
  PROVE  /\ a \div b \in Nat /\ a % b \in 0..(b - 1)
         /\ a = b * (a \div b) + (a % b)
  OBVIOUS

BuiltType == built \in [Strata -> Seq(Nat)]

LEMMA StratumRows ==
  ASSUME BuiltType, NEW s \in Strata
  PROVE  /\ Others(s) \in Seq(Nat) /\ First[s] \in Nat /\ Rest[s] \in Nat
         /\ Sum(built[s]) = First[s] + Rest[s]
         /\ s \in Present => Len(Others(s)) = Len(built[s]) - 1
         /\ s \notin Present => Rest[s] = 0
<1>1. built[s] \in Seq(Nat) /\ built[s] \in Seq(Int) /\ Len(built[s]) \in Nat
  BY LenProperties, SeqMonotonic DEF BuiltType
<1>2. Rest[s] = Sum(Others(s)) /\ First[s] = IF s \in Present THEN Head(built[s]) ELSE 0
  BY DEF Rest, First
<1>3. CASE s \in Present
  <2>1. built[s] # <<>> /\ Others(s) = Tail(built[s]) /\ First[s] = Head(built[s])
    BY <1>2, <1>3 DEF Present, Others
  <2>2. /\ Head(built[s]) \in Nat /\ Tail(built[s]) \in Seq(Nat)
        /\ Len(Tail(built[s])) = Len(built[s]) - 1
    BY <1>1, <2>1, HeadTailProperties
  <2>3. Len(Tail(built[s])) \in Nat
    BY <2>2, LenProperties
  <2>4. Totals(Tail(built[s]))[Len(Tail(built[s]))] \in Nat
    <3>1. Len(Tail(built[s])) \in 0..Len(Tail(built[s]))
      BY <2>3
    <3> QED
      BY <2>2, <3>1, TotalsNat
  <2>5. Totals(built[s])[Len(Tail(built[s])) + 1]
          = Head(built[s]) + Totals(Tail(built[s]))[Len(Tail(built[s]))]
    BY <1>1, <2>1, <2>3, TotalsFromSecond
  <2>6. Len(Tail(built[s])) + 1 = Len(built[s])
    BY <1>1, <2>2
  <2> QED
    BY <1>2, <1>3, <2>1, <2>2, <2>4, <2>5, <2>6 DEF Sum
<1>4. CASE s \notin Present
  <2>1. built[s] = <<>> /\ Others(s) = <<>> /\ First[s] = 0
    BY <1>2, <1>4 DEF Present, Others
  <2>2. <<>> \in Seq(Int) /\ <<>> \in Seq(Nat) /\ Len(<<>>) = 0
    OBVIOUS
  <2>3. Sum(<<>>) = 0
    BY <2>2, TotalsDef DEF Sum
  <2> QED
    BY <1>2, <1>4, <2>1, <2>2, <2>3
<1> QED
  BY <1>3, <1>4

LEMMA RowsOfBuild ==
  ASSUME BuiltType
  PROVE  /\ First \in [Strata -> Int] /\ Rest \in [Strata -> Int]
         /\ Reserved \in Int /\ AllRest \in Int /\ AllRest >= 0
         /\ Rows(built) = Reserved + AllRest
<1>1. First \in [Strata -> Int] /\ Rest \in [Strata -> Int]
  <2>1. First = [s \in Strata |-> First[s]] /\ Rest = [s \in Strata |-> Rest[s]]
    BY DEF First, Rest
  <2>2. \A s \in Strata : First[s] \in Int /\ Rest[s] \in Int
    BY StratumRows
  <2> QED
    BY <2>1, <2>2
<1> DEFINE all == [s \in Strata |-> Sum(built[s])]
           none == [s \in Strata |-> 0]
<1>2. \A s \in Strata : all[s] = First[s] + Rest[s] /\ all[s] \in Int
  BY StratumRows
<1>3. all \in [Strata -> Int] /\ none \in [Strata -> Int]
  BY <1>2
<1>4. Sum(all) = Sum(First) + Sum(Rest)
  <2> HIDE DEF all
  <2> QED
    BY <1>1, <1>2, <1>3, SumOfSum
<1>5. Sum(First) \in Int /\ Sum(Rest) \in Int /\ Sum(none) \in Int
  BY <1>1, <1>3, StrataSeq, SumType
<1>6. Sum(none) <= Sum(Rest)
  <2>1. \A s \in Strata : none[s] <= Rest[s]
    BY StratumRows
  <2> HIDE DEF none
  <2> QED
    BY <1>1, <1>3, <2>1, SumAtMost
<1>7. Sum(none) = 0 * Sum(none)
  <2>1. \A s \in Strata : none[s] = 0 * none[s]
    OBVIOUS
  <2>2. 0 \in Int
    OBVIOUS
  <2> HIDE DEF none
  <2> QED
    BY <1>3, <2>1, <2>2, SumOfMultiple
<1> QED
  BY <1>1, <1>4, <1>5, <1>6, <1>7 DEF Rows, Reserved, AllRest

(* A part l of a, shared out in proportion, gives nobody more than he has. *)
LEMMA InProportion ==
  ASSUME NEW l \in Nat, NEW a \in Nat, NEW r \in Nat, NEW q \in Nat, NEW d \in Nat,
         l < a, l * r = a * q + d
  PROVE  q <= r /\ (d > 0 => q < r)
<1>1. l * r <= a * r
  BY Z3
<1>2. ASSUME q > r PROVE FALSE
  <2>1. a * q >= a * (r + 1)
    BY <1>2, Z3
  <2>2. a * (r + 1) = a * r + a
    BY Z3
  <2>3. a * q \in Nat /\ a * r \in Nat /\ l * r \in Nat
    OBVIOUS
  <2> QED
    BY <1>1, <2>1, <2>2, <2>3
<1>3. ASSUME d > 0, q >= r PROVE FALSE
  <2>1. a * q >= a * r
    BY <1>3, Z3
  <2>2. a * q \in Nat /\ a * r \in Nat /\ l * r \in Nat
    OBVIOUS
  <2> QED
    BY <1>1, <1>3, <2>1, <2>2
<1> QED
  BY <1>2, <1>3

AboveCeiling == BuiltType /\ Applied /\ Reserved <= Hi

LEMMA LeftIsLess ==
  ASSUME AboveCeiling
  PROVE  Left \in Nat /\ AllRest \in Nat /\ Left < AllRest /\ Hi = Reserved + Left
<1>1. Hi \in Nat /\ Rows(built) > Hi /\ Reserved <= Hi
  BY ViewCapAssumption DEF AboveCeiling, Applied
<1>2. /\ Reserved \in Int /\ AllRest \in Int /\ AllRest >= 0
      /\ Rows(built) = Reserved + AllRest
  BY RowsOfBuild DEF AboveCeiling
<1>3. Left = Hi - Reserved
  BY DEF Left
<1> QED
  BY <1>1, <1>2, <1>3

LEMMA DivisionOf ==
  ASSUME AboveCeiling, NEW s \in Strata
  PROVE  /\ Quotient[s] \in Nat /\ Remainder[s] \in 0..(AllRest - 1)
         /\ Left * Rest[s] = AllRest * Quotient[s] + Remainder[s]
         /\ s \notin Present => Remainder[s] = 0
<1>1. Left \in Nat /\ AllRest \in Nat /\ AllRest > 0
  BY LeftIsLess
<1>2. Rest[s] \in Nat /\ (s \notin Present => Rest[s] = 0)
  BY StratumRows DEF AboveCeiling
<1>3. Left * Rest[s] \in Nat
  BY <1>1, <1>2
<1>4. /\ Quotient[s] = (Left * Rest[s]) \div AllRest
      /\ Remainder[s] = (Left * Rest[s]) % AllRest
  BY <1>1 DEF Quotient, Remainder
<1>5. /\ Quotient[s] \in Nat /\ Remainder[s] \in 0..(AllRest - 1)
      /\ Left * Rest[s] = AllRest * Quotient[s] + Remainder[s]
  BY <1>1, <1>3, <1>4, Division
<1>6. s \notin Present => Remainder[s] = 0
  <2>1. SUFFICES ASSUME s \notin Present PROVE Remainder[s] = 0
    OBVIOUS
  <2>2. Left * Rest[s] = 0
    BY <1>1, <1>2, <2>1
  <2>3. AllRest * Quotient[s] \in Nat
    BY <1>1, <1>5
  <2> QED
    BY <1>1, <1>5, <2>2, <2>3
<1> QED
  BY <1>5, <1>6

(* What the remainders of the divisions add up to. *)
LEMMA SumOfRemainders ==
  ASSUME AboveCeiling
  PROVE  /\ Quotient \in [Strata -> Int] /\ Remainder \in [Strata -> Int]
         /\ Sum(Quotient) \in Int /\ Leftover = Left - Sum(Quotient)
         /\ Sum(Remainder) = AllRest * Leftover
<1> DEFINE lots  == [s \in Strata |-> Left * Rest[s]]
           whole == [s \in Strata |-> AllRest * Quotient[s]]
<1>1. Left \in Int /\ AllRest \in Int /\ AllRest > 0
  BY LeftIsLess
<1>2. \A s \in Strata : /\ Quotient[s] \in Int /\ Remainder[s] \in Int /\ Rest[s] \in Int
                        /\ Left * Rest[s] = AllRest * Quotient[s] + Remainder[s]
  BY <1>1, DivisionOf, StratumRows DEF AboveCeiling
<1>3. Quotient \in [Strata -> Int] /\ Remainder \in [Strata -> Int]
  <2>1. /\ Quotient = [s \in Strata |-> Quotient[s]]
        /\ Remainder = [s \in Strata |-> Remainder[s]]
    BY DEF Quotient, Remainder
  <2> QED
    BY <1>2, <2>1
<1>4. Rest \in [Strata -> Int]
  BY RowsOfBuild DEF AboveCeiling
<1>5. lots \in [Strata -> Int] /\ whole \in [Strata -> Int]
  BY <1>1, <1>2
<1>6. \A s \in Strata : /\ lots[s] = Left * Rest[s] /\ whole[s] = AllRest * Quotient[s]
                        /\ lots[s] = whole[s] + Remainder[s]
  BY <1>2
<1> HIDE DEF lots, whole
<1>7. Sum(lots) = Left * AllRest
  BY <1>1, <1>4, <1>5, <1>6, SumOfMultiple DEF AllRest
<1>8. Sum(whole) = AllRest * Sum(Quotient)
  BY <1>1, <1>3, <1>5, <1>6, SumOfMultiple
<1>9. Sum(lots) = Sum(whole) + Sum(Remainder)
  BY <1>3, <1>5, <1>6, SumOfSum
<1>10. Sum(Quotient) \in Int /\ Sum(Remainder) \in Int
  BY <1>3, StrataSeq, SumType
<1>11. Leftover = Left - Sum(Quotient)
  BY <1>1 DEF Leftover
<1>12. AllRest * (Left - Sum(Quotient)) = Left * AllRest - AllRest * Sum(Quotient)
  BY <1>1, <1>10
<1>13. AllRest * Sum(Quotient) \in Int /\ Left * AllRest \in Int
  BY <1>1, <1>10
<1> QED
  BY <1>3, <1>7, <1>8, <1>9, <1>10, <1>11, <1>12, <1>13

(* The shares are what is left of the ceiling, and no stratum's is more than *)
(* it has: one with a row over has a remainder, hence less than its rows.    *)
LEMMA ShareFacts ==
  ASSUME AboveCeiling, NEW share \in Shares
  PROVE  /\ share \in [Strata -> Int] /\ Sum(share) = Left
         /\ \A s \in Strata : 0 <= share[s] /\ share[s] <= Rest[s]
<1>1. PICK more \in SUBSET Present :
        /\ Cardinality(more) = Leftover
        /\ \A s \in more, t \in Present \ more : Remainder[s] >= Remainder[t]
        /\ share = [s \in Strata |-> Quotient[s] + IF s \in more THEN 1 ELSE 0]
  BY DEF Shares
<1> DEFINE ones == [s \in Strata |-> IF s \in more THEN 1 ELSE 0]
<1>2. more \in SUBSET Strata
  BY DEF Present
<1>3. Left \in Nat /\ AllRest \in Nat /\ Left < AllRest
  BY LeftIsLess
<1>4. \A s \in Strata : /\ Quotient[s] \in Nat /\ Remainder[s] \in 0..(AllRest - 1)
                        /\ Left * Rest[s] = AllRest * Quotient[s] + Remainder[s]
                        /\ (s \notin Present => Remainder[s] = 0)
                        /\ Rest[s] \in Nat
  BY DivisionOf, StratumRows DEF AboveCeiling
<1>5. /\ Quotient \in [Strata -> Int] /\ Remainder \in [Strata -> Int]
      /\ Sum(Quotient) \in Int /\ Leftover = Left - Sum(Quotient)
      /\ Sum(Remainder) = AllRest * Leftover
  BY SumOfRemainders
<1>6. ones \in [Strata -> Int] /\ \A s \in Strata : ones[s] = IF s \in more THEN 1 ELSE 0
  OBVIOUS
<1>7. /\ share \in [Strata -> Int]
      /\ \A s \in Strata : share[s] = Quotient[s] + IF s \in more THEN 1 ELSE 0
  BY <1>1, <1>4
<1>8. \A s \in Strata : share[s] = Quotient[s] + ones[s]
  BY <1>6, <1>7
<1> HIDE DEF ones
<1>9. Sum(ones) = Leftover
  BY <1>1, <1>2, <1>6, SumOfOnes
<1>10. Sum(share) = Left
  <2>1. Sum(share) = Sum(Quotient) + Sum(ones)
    BY <1>5, <1>6, <1>7, <1>8, SumOfSum
  <2> QED
    BY <1>3, <1>5, <1>9, <2>1
<1>11. Leftover \in Nat
  <2>1. Cardinality(more) \in Nat
    <3>1. IsFiniteSet(Strata)
      BY ViewCapAssumption, FS_Interval DEF Strata
    <3> QED
      BY <1>2, <3>1, FS_Subset, FS_CardinalityType
  <2> QED
    BY <1>1, <2>1
<1>12. ASSUME NEW s \in more PROVE Remainder[s] > 0
  <2> SUFFICES ASSUME Remainder[s] = 0 PROVE FALSE
    BY <1>2, <1>3, <1>4
  <2> DEFINE most == [t \in Strata |-> (AllRest - 1) * ones[t]]
  <2>1. most \in [Strata -> Int] /\ \A t \in Strata : most[t] = (AllRest - 1) * ones[t]
    BY <1>3, <1>6
  <2>2. \A t \in Strata : Remainder[t] <= most[t]
    <3>1. ASSUME NEW t \in Strata PROVE Remainder[t] <= (AllRest - 1) * ones[t]
      <4>1. CASE t \in more
        <5>1. ones[t] = 1 /\ Remainder[t] \in 0..(AllRest - 1)
          BY <1>4, <1>6, <4>1
        <5> QED
          BY <1>3, <5>1
      <4>2. CASE t \notin more
        <5>1. ones[t] = 0 /\ Remainder[t] <= 0
          BY <1>1, <1>4, <1>6, <4>2
        <5> QED
          BY <1>3, <5>1
      <4> QED
        BY <4>1, <4>2
    <3> QED
      BY <2>1, <3>1
  <2> HIDE DEF most
  <2>3. Sum(Remainder) <= Sum(most)
    BY <1>5, <2>1, <2>2, SumAtMost
  <2>4. AllRest - 1 \in Int
    BY <1>3
  <2>5. Sum(most) = (AllRest - 1) * Sum(ones)
    BY <1>6, <2>1, <2>4, SumOfMultiple
  <2>6. AllRest * Leftover <= (AllRest - 1) * Leftover
    BY <1>5, <1>9, <2>3, <2>5
  <2>7. (AllRest - 1) * Leftover = AllRest * Leftover - Leftover /\ AllRest * Leftover \in Int
    BY <1>3, <1>11
  <2>8. Leftover = 0
    BY <1>3, <1>11, <2>6, <2>7
  <2>9. IsFiniteSet(more)
    <3>1. IsFiniteSet(Strata)
      BY ViewCapAssumption, FS_Interval DEF Strata
    <3> QED
      BY <1>2, <3>1, FS_Subset
  <2>10. more = {}
    BY <1>1, <2>8, <2>9, FS_EmptySet
  <2> QED
    BY <2>10
<1>13. ASSUME NEW s \in Strata PROVE 0 <= share[s] /\ share[s] <= Rest[s]
  <2>1. Quotient[s] <= Rest[s] /\ (Remainder[s] > 0 => Quotient[s] < Rest[s])
    <3>1. Remainder[s] \in Nat
      BY <1>3, <1>4
    <3> QED
      BY <1>3, <1>4, <3>1, InProportion
  <2>2. CASE s \in more
    BY <1>4, <1>7, <1>12, <2>1, <2>2
  <2>3. CASE s \notin more
    BY <1>4, <1>7, <2>1, <2>3
  <2> QED
    BY <2>2, <2>3
<1> QED
  BY <1>7, <1>10, <1>13

(* The longest prefix that fits a share. *)
LEMMA FittingFacts ==
  ASSUME BuiltType, NEW s \in Strata, NEW share \in Nat
  PROVE  /\ Fitting(s, share) \in 0..Len(Others(s))
         /\ Totals(Others(s))[Fitting(s, share)] <= share
         /\ Fitting(s, share) < Len(Others(s)) =>
              share < Totals(Others(s))[Fitting(s, share) + 1]
<1>1. Others(s) \in Seq(Nat) /\ Others(s) \in Seq(Int) /\ Len(Others(s)) \in Nat
  BY StratumRows, LenProperties, SeqMonotonic
<1>2. 0 \in Fits(s, share)
  BY <1>1, TotalsDef DEF Fits
<1>3. Fits(s, share) \in SUBSET (0..Len(Others(s)))
  BY DEF Fits
<1>4. \E n \in Fits(s, share) : \A m \in Fits(s, share) : m <= n
  BY <1>1, <1>2, <1>3, GreatestNumber
<1>5. /\ Fitting(s, share) \in Fits(s, share)
      /\ \A m \in Fits(s, share) : m <= Fitting(s, share)
  BY <1>4 DEF Fitting
<1> DEFINE n == Fitting(s, share)
<1> HIDE DEF n
<1>6. n \in 0..Len(Others(s)) /\ Totals(Others(s))[n] <= share
  BY <1>5 DEF Fits, n
<1>7. ASSUME n < Len(Others(s)) PROVE share < Totals(Others(s))[n + 1]
  <2>1. n + 1 \in 0..Len(Others(s))
    BY <1>1, <1>6, <1>7
  <2>2. n + 1 \notin Fits(s, share)
    BY <1>5, <1>6 DEF n
  <2>3. ~ (Totals(Others(s))[n + 1] <= share)
    BY <2>1, <2>2 DEF Fits
  <2>4. Totals(Others(s))[n + 1] \in Int
    BY <1>1, <2>1, TotalsDef
  <2> QED
    BY <2>3, <2>4
<1> QED
  BY <1>6, <1>7 DEF n

(* A stratum has a longest trajectory. *)
LEMMA LongestFacts ==
  ASSUME BuiltType, NEW s \in Present
  PROVE  /\ Longest(s) \in Nat
         /\ \A k \in 1..Len(built[s]) : built[s][k] <= Longest(s)
         /\ \E k \in 1..Len(built[s]) : built[s][k] = Longest(s)
<1> DEFINE seq == built[s]
           m == Len(seq)
           S == {n \in 0..m : n = 0 \/ \E j \in 1..n : \A k \in 1..n : seq[k] <= seq[j]}
<1>1. seq \in Seq(Nat) /\ seq # <<>>
  BY DEF BuiltType, Present
<1> HIDE DEF seq
<1>2. m \in Nat /\ m > 0 /\ DOMAIN seq = 1..m /\ \A k \in 1..m : seq[k] \in Nat
  BY <1>1, EmptySeq, LenProperties, ElementOfSeq
<1>3. 0 \in S
  BY <1>2
<1>4. ASSUME NEW n \in 0..(m - 1), n \in S PROVE n + 1 \in S
  <2>1. n + 1 \in 0..m /\ n + 1 \in 1..m /\ n + 1 \in 1..(n + 1)
    BY <1>2
  <2>2. CASE n = 0
    <3>1. \A k \in 1..(n + 1) : seq[k] <= seq[n + 1]
      BY <1>2, <2>1, <2>2
    <3> QED
      BY <2>1, <3>1
  <2>3. CASE n # 0
    <3>1. PICK j \in 1..n : \A k \in 1..n : seq[k] <= seq[j]
      BY <1>4, <2>3
    <3>2. j \in 1..m /\ j \in 1..(n + 1) /\ seq[j] \in Nat /\ seq[n + 1] \in Nat
      BY <1>2, <2>1
    <3>3. \A k \in 1..(n + 1) : k \in 1..n \/ k = n + 1
      OBVIOUS
    <3>4. \A k \in 1..n : seq[k] \in Nat
      BY <1>2, <2>1
    <3>5. CASE seq[n + 1] <= seq[j]
      <4>1. \A k \in 1..(n + 1) : seq[k] <= seq[j]
        BY <3>1, <3>3, <3>5
      <4> QED
        BY <2>1, <3>2, <4>1
    <3>6. CASE seq[j] <= seq[n + 1]
      <4>1. \A k \in 1..(n + 1) : seq[k] <= seq[n + 1]
        BY <3>1, <3>2, <3>3, <3>4, <3>6
      <4> QED
        BY <2>1, <4>1
    <3>7. seq[n + 1] <= seq[j] \/ seq[j] <= seq[n + 1]
      BY <3>2
    <3> HIDE DEF S
    <3> QED
      BY <3>5, <3>6, <3>7
  <2> QED
    BY <2>2, <2>3
<1>5. m \in S
  <2>1. \A n \in 0..m : n \in S
    <3> HIDE DEF S, m
    <3> QED
      BY <1>2, <1>3, <1>4, Induction
  <2>2. m \in 0..m
    BY <1>2
  <2> HIDE DEF S, m
  <2> QED
    BY <2>1, <2>2
<1>6. PICK j \in 1..m : \A k \in 1..m : seq[k] <= seq[j]
  BY <1>2, <1>5
<1>7. Range(seq) = {seq[k] : k \in 1..m}
  BY <1>2 DEF Range
<1>8. seq[j] \in Range(seq) /\ \A r \in Range(seq) : r <= seq[j]
  BY <1>6, <1>7
<1>9. Longest(s) \in Range(seq) /\ \A r \in Range(seq) : r <= Longest(s)
  BY <1>8 DEF Longest, seq
<1>10. \A k \in 1..m : seq[k] <= Longest(s)
  BY <1>7, <1>9
<1>11. \E k \in 1..m : seq[k] = Longest(s)
  BY <1>7, <1>9
<1>12. Longest(s) \in Nat
  BY <1>2, <1>11
<1> QED
  BY <1>10, <1>11, <1>12 DEF seq

(* What the cap keeps of a stratum: the first trajectory and as many of the *)
(* others as fit; what its share has left is less than the next would take. *)
Used(s, share) == Totals(Others(s))[Fitting(s, share[s])]

LEMMA TrimmedStratum ==
  ASSUME AboveCeiling, NEW share \in Shares, NEW s \in Strata
  PROVE  /\ Used(s, share) \in Int /\ Used(s, share) <= share[s]
         /\ Sum(Trimmed(share)[s]) = First[s] + Used(s, share)
         /\ s \in Present => /\ Trimmed(share)[s] # <<>>
                             /\ IsPrefix(Trimmed(share)[s], built[s])
         /\ share[s] - Used(s, share)
              <= IF s \in Present /\ Trimmed(share)[s] # built[s] THEN Longest(s) - 1 ELSE 0
<1> DEFINE n == Fitting(s, share[s])
           rest == Others(s)
           seq == built[s]
           kept_s == Trimmed(share)[s]
<1>1. share[s] \in Nat /\ share[s] <= Rest[s]
  BY ShareFacts
<1>2. BuiltType
  BY DEF AboveCeiling
<1>3. /\ n \in 0..Len(rest) /\ Totals(rest)[n] <= share[s]
      /\ n < Len(rest) => share[s] < Totals(rest)[n + 1]
  BY <1>1, <1>2, FittingFacts
<1>4. rest \in Seq(Nat) /\ rest \in Seq(Int) /\ Len(rest) \in Nat
  BY <1>2, StratumRows, LenProperties, SeqMonotonic
<1>5. seq \in Seq(Nat) /\ seq \in Seq(Int) /\ Len(seq) \in Nat
  BY <1>2, LenProperties, SeqMonotonic DEF BuiltType
<1>6. Used(s, share) = Totals(rest)[n] /\ Totals(rest)[n] \in Int
  BY <1>3, <1>4, TotalsDef DEF Used
<1>7. Rest[s] = Totals(rest)[Len(rest)]
  BY DEF Rest, Sum
<1>8. kept_s = IF s \in Present THEN SubSeq(seq, 1, 1 + n) ELSE <<>>
  BY DEF Trimmed
<1> HIDE DEF n, kept_s
<1>9. CASE s \in Present
  <2>1. seq # <<>> /\ rest = Tail(seq) /\ First[s] = Head(seq) /\ Len(rest) = Len(seq) - 1
    BY <1>2, <1>9, StratumRows DEF Present, Others, First
  <2>2. 1 + n \in 0..Len(seq) /\ 1 + n \in 1..Len(seq) /\ n + 1 = 1 + n
    BY <1>3, <1>4, <1>5, <2>1
  <2>3. Sum(kept_s) = Totals(seq)[1 + n]
    BY <1>5, <1>8, <1>9, <2>2, SumOfPrefix
  <2>4. Totals(seq)[n + 1] = Head(seq) + Totals(rest)[n]
    BY <1>3, <1>5, <2>1, TotalsFromSecond
  <2>5. Sum(kept_s) = First[s] + Used(s, share)
    BY <1>6, <2>1, <2>2, <2>3, <2>4
  <2>6. kept_s \in Seq(Nat) /\ Len(kept_s) = 1 + n
    <3>1. \A i \in 1..(1 + n) : seq[i] \in Nat
      BY <1>5, <2>2, ElementOfSeq
    <3>2. 1 \in Int /\ 1 + n \in Int
      BY <2>2
    <3>3. /\ SubSeq(seq, 1, 1 + n) \in Seq(Nat)
          /\ Len(SubSeq(seq, 1, 1 + n)) = IF 1 <= 1 + n THEN (1 + n) - 1 + 1 ELSE 0
      BY <3>1, <3>2, SubSeqProperties
    <3> QED
      BY <1>8, <1>9, <2>2, <3>3
  <2>7. kept_s # <<>>
    BY <2>2, <2>6, EmptySeq
  <2>8. IsPrefix(kept_s, seq)
    <3>1. SubSeq(kept_s, 1, Len(kept_s)) = kept_s
      BY <2>6, SubSeqFull
    <3>2. Len(kept_s) <= Len(seq) /\ SubSeq(seq, 1, Len(kept_s)) = kept_s
      BY <1>5, <1>8, <1>9, <2>2, <2>6
    <3> QED
      BY <3>1, <3>2 DEF IsPrefix
  <2>9. share[s] - Used(s, share) <= IF kept_s # seq THEN Longest(s) - 1 ELSE 0
    <3>1. CASE n = Len(rest)
      <4>1. 1 + n = Len(seq)
        BY <1>5, <2>1, <3>1
      <4>2. kept_s = seq
        BY <1>5, <1>8, <1>9, <4>1, SubSeqFull
      <4> QED
        BY <1>1, <1>6, <1>7, <3>1, <4>2
    <3>2. CASE n # Len(rest)
      <4>1. n < Len(rest) /\ n + 1 \in 1..Len(rest) /\ (n + 1) - 1 = n
        BY <1>3, <1>4, <3>2
      <4>2. share[s] < Totals(rest)[n + 1]
        BY <1>3, <4>1
      <4>3. Totals(rest)[n + 1] = Totals(rest)[n] + rest[n + 1]
        BY <1>4, <4>1, TotalsDef
      <4>4. rest[n + 1] = seq[n + 2] /\ n + 2 \in 1..Len(seq)
        <5>1. \A i \in 1..Len(Tail(seq)) : Tail(seq)[i] = seq[i + 1]
          BY <1>5, <2>1, HeadTailProperties
        <5>2. (n + 1) + 1 = n + 2 /\ n + 2 \in 1..Len(seq)
          <6>1. Len(seq) \in Nat /\ Len(rest) = Len(seq) - 1
            BY <1>5, <2>1
          <6> HIDE DEF rest, seq
          <6> QED
            BY <4>1, <6>1
        <5>3. rest[n + 1] = seq[(n + 1) + 1]
          BY <2>1, <4>1, <5>1
        <5> QED
          BY <5>2, <5>3
      <4>5. seq[n + 2] <= Longest(s) /\ Longest(s) \in Nat /\ seq[n + 2] \in Nat
        BY <1>2, <1>5, <1>9, <4>4, LongestFacts, ElementOfSeq
      <4>6. kept_s # seq
        BY <1>4, <1>5, <2>1, <2>6, <4>1
      <4>7. share[s] - Totals(rest)[n] < rest[n + 1]
        BY <1>1, <1>6, <4>2, <4>3, <4>4, <4>5
      <4> QED
        BY <1>1, <1>6, <4>4, <4>5, <4>6, <4>7
    <3> QED
      BY <3>1, <3>2
  <2> QED
    BY <1>3, <1>6, <1>9, <2>5, <2>7, <2>8, <2>9 DEF kept_s
<1>10. CASE s \notin Present
  <2>1. rest = <<>> /\ First[s] = 0 /\ Rest[s] = 0 /\ kept_s = <<>>
    BY <1>2, <1>8, <1>10, StratumRows DEF Others, First
  <2>2. Len(rest) = 0
    BY <2>1, EmptySeq
  <2>3. n = 0 /\ Totals(rest)[0] = 0
    <3>1. n \in 0..0
      BY <1>3, <2>2
    <3>2. Totals(rest)[0] = 0
      BY <1>4, TotalsDef
    <3> QED
      BY <3>1, <3>2
  <2>4. Sum(<<>>) = 0
    BY <1>4, <2>1, <2>2, <2>3 DEF Sum
  <2> QED
    BY <1>1, <1>6, <1>10, <2>1, <2>3, <2>4 DEF kept_s
<1> QED
  BY <1>9, <1>10

(* The rows each cut stratum may leave unused. *)
Unused(corpus) ==
  [s \in Strata |-> IF s \in Present /\ corpus[s] # built[s] THEN Longest(s) - 1 ELSE 0]

LEMMA UnusedType ==
  ASSUME BuiltType, NEW corpus
  PROVE  Unused(corpus) \in [Strata -> Int]
<1>1. \A s \in Present : Longest(s) \in Nat
  BY LongestFacts
<1> QED
  BY <1>1 DEF Unused

LEMMA TrimmedFills ==
  ASSUME AboveCeiling, NEW share \in Shares
  PROVE  /\ Rows(Trimmed(share)) \in Int /\ Rows(Trimmed(share)) <= Hi
         /\ \A s \in Present : /\ Trimmed(share)[s] # <<>>
                               /\ IsPrefix(Trimmed(share)[s], built[s])
         /\ Hi - Rows(Trimmed(share)) <= Sum(Unused(Trimmed(share)))
<1> DEFINE part == Trimmed(share)
           used == [s \in Strata |-> Used(s, share)]
           rows == [s \in Strata |-> Sum(part[s])]
           gap  == Unused(part)
           both == [s \in Strata |-> used[s] + gap[s]]
<1>1. BuiltType
  BY DEF AboveCeiling
<1>2. /\ share \in [Strata -> Int] /\ Sum(share) = Left
      /\ Left \in Nat /\ Hi = Reserved + Left
  BY ShareFacts, LeftIsLess
<1>3. First \in [Strata -> Int] /\ Reserved = Sum(First) /\ Reserved \in Int
  BY <1>1, RowsOfBuild DEF Reserved
<1>4. gap \in [Strata -> Int]
  BY <1>1, UnusedType
<1>5. \A s \in Strata : /\ Used(s, share) \in Int /\ Used(s, share) <= share[s]
                        /\ Sum(part[s]) = First[s] + Used(s, share)
                        /\ share[s] - Used(s, share) <= gap[s]
  BY TrimmedStratum DEF Unused
<1> HIDE DEF part, gap
<1>6. used \in [Strata -> Int] /\ \A s \in Strata : used[s] = Used(s, share)
  BY <1>5
<1>7. rows \in [Strata -> Int] /\ \A s \in Strata : rows[s] = First[s] + used[s]
  BY <1>3, <1>5, <1>6
<1>8. both \in [Strata -> Int] /\ \A s \in Strata : both[s] = used[s] + gap[s]
  BY <1>4, <1>6
<1>9. (\A s \in Strata : used[s] <= share[s]) /\ (\A s \in Strata : share[s] <= both[s])
  BY <1>2, <1>4, <1>5, <1>6, <1>8
<1>10. Rows(part) = Sum(rows)
  BY DEF Rows
<1> HIDE DEF used, rows, both
<1>11. Sum(rows) = Sum(First) + Sum(used)
  BY <1>3, <1>6, <1>7, SumOfSum
<1>12. Sum(both) = Sum(used) + Sum(gap)
  BY <1>4, <1>6, <1>8, SumOfSum
<1>13. Sum(used) <= Sum(share) /\ Sum(share) <= Sum(both)
  BY <1>2, <1>6, <1>8, <1>9, SumAtMost
<1>14. Sum(used) \in Int /\ Sum(gap) \in Int
  BY <1>4, <1>6, StrataSeq, SumType
<1>15. Rows(part) \in Int /\ Rows(part) <= Hi /\ Hi - Rows(part) <= Sum(gap)
  BY <1>2, <1>3, <1>10, <1>11, <1>12, <1>13, <1>14
<1> QED
  BY <1>15, TrimmedStratum DEF part, gap, Present

-----------------------------------------------------------------------------
(* The invariant. *)
CapTypeOK ==
  /\ accepted \in [Strata -> Seq(RowCounts)]
  /\ built \in [Strata -> Seq(RowCounts)]
  /\ kept \in [Strata -> Seq(RowCounts)]
  /\ phase \in {"accepted", "built", "capped", "trainable", "refused"}

CapInv ==
  /\ CapTypeOK
  /\ phase \in {"accepted", "built"} => kept = NoTrajectories
  /\ CapFills

LEMMA CapInvInit == CapInit => CapInv
<1> SUFFICES ASSUME CapInit PROVE CapInv
  OBVIOUS
<1>1. NoTrajectories \in [Strata -> Seq(RowCounts)]
  <2>1. <<>> \in Seq(RowCounts)
    OBVIOUS
  <2> QED
    BY <2>1 DEF NoTrajectories
<1>2. BoundedSeq(RowCounts, MaxTrajectories) \subseteq Seq(RowCounts)
  BY ViewCapAssumption, SeqDef DEF BoundedSeq, SeqOf
<1> QED
  BY <1>1, <1>2 DEF CapInit, CapInv, CapTypeOK, CapFills

LEMMA RowCountsAreNat ==
  ASSUME CapTypeOK
  PROVE  BuiltType
<1>1. \A s \in Strata : built[s] \in Seq(Nat)
  BY ViewCapAssumption, SeqMonotonic DEF CapTypeOK
<1> QED
  BY <1>1 DEF CapTypeOK, BuiltType

LEMMA TrimmedType ==
  ASSUME CapTypeOK, AboveCeiling, NEW share \in Shares
  PROVE  Trimmed(share) \in [Strata -> Seq(RowCounts)]
<1>1. ASSUME NEW s \in Present
      PROVE  SubSeq(built[s], 1, 1 + Fitting(s, share[s])) \in Seq(RowCounts)
  <2> DEFINE n == Fitting(s, share[s])
  <2>1. s \in Strata /\ built[s] # <<>> /\ built[s] \in Seq(RowCounts)
    BY DEF Present, CapTypeOK
  <2>2. share[s] \in Nat
    BY <2>1, ShareFacts
  <2>3. BuiltType /\ Len(Others(s)) = Len(built[s]) - 1 /\ n \in 0..Len(Others(s))
    BY <2>1, <2>2, StratumRows, FittingFacts DEF AboveCeiling
  <2> HIDE DEF n
  <2>4. 1 \in Int /\ 1 + n \in Int /\ 1..(1 + n) \subseteq 1..Len(built[s])
    BY <2>1, <2>3, LenProperties
  <2>5. \A i \in 1..(1 + n) : built[s][i] \in RowCounts
    BY <2>1, <2>4, ElementOfSeq
  <2>6. SubSeq(built[s], 1, 1 + n) \in Seq(RowCounts)
    BY <2>4, <2>5, SubSeqProperties
  <2> QED
    BY <2>6 DEF n
<1>2. <<>> \in Seq(RowCounts)
  OBVIOUS
<1> QED
  BY <1>1, <1>2 DEF Trimmed

LEMMA CapInvNext == CapInv /\ [CapNext]_capVars => CapInv'
<1> SUFFICES ASSUME CapInv, [CapNext]_capVars PROVE CapInv'
  OBVIOUS
<1>1. CASE Build
  <2>1. \A s \in Strata : WithViews(accepted[s]) \in Seq(RowCounts)
    BY ViewCapAssumption, WithViewsType DEF CapInv, CapTypeOK
  <2>2. CapTypeOK'
    BY <1>1, <2>1 DEF Build, CapInv, CapTypeOK
  <2>3. kept' = NoTrajectories /\ phase' = "built"
    BY <1>1 DEF Build, CapInv
  <2>4. NoTrajectories' = NoTrajectories
    BY DEF NoTrajectories
  <2> QED
    BY <2>2, <2>3, <2>4 DEF CapInv, CapFills
<1>2. CASE Cap
  <2>1. BuiltType
    BY RowCountsAreNat DEF CapInv
  <2>2. CASE ~ Applied
    <3>1. kept' = built /\ phase' = "capped" /\ built' = built /\ accepted' = accepted
      BY <1>2, <2>2 DEF Cap
    <3>2. ~ Applied'
      BY <2>2, <3>1 DEF Applied
    <3>3. Filled'
      BY <3>1, <3>2 DEF Filled
    <3> QED
      BY <3>1, <3>3 DEF CapInv, CapTypeOK, CapFills
  <2>3. CASE Applied /\ Reserved > Hi
    <3>1. kept' = kept /\ phase' = "refused" /\ built' = built /\ accepted' = accepted
      BY <1>2, <2>3 DEF Cap
    <3>2. kept = NoTrajectories
      BY <1>2 DEF Cap, CapInv
    <3>3. kept' = NoTrajectories'
      BY <3>1, <3>2 DEF NoTrajectories
    <3> QED
      BY <3>1, <3>3 DEF CapInv, CapTypeOK, CapFills
  <2>4. CASE Applied /\ ~ (Reserved > Hi)
    <3>1. PICK share \in Shares :
            /\ kept' = Trimmed(share)
            /\ phase' = IF Rows(kept') \in Lo..Hi THEN "capped" ELSE "refused"
      BY <1>2, <2>4 DEF Cap
    <3>2. built' = built /\ accepted' = accepted
      BY <1>2 DEF Cap
    <3>3. AboveCeiling
      <4>1. Reserved \in Int /\ Hi \in Nat
        BY <2>1, RowsOfBuild, ViewCapAssumption
      <4> QED
        BY <2>1, <2>4, <4>1 DEF AboveCeiling
    <3>4. /\ Rows(kept') <= Hi
          /\ \A s \in Present : kept'[s] # <<>> /\ IsPrefix(kept'[s], built[s])
          /\ Hi - Rows(kept') <= Sum(Unused(kept'))
      BY <3>1, <3>3, TrimmedFills
    <3>5. Present' = Present /\ Applied'
      BY <2>4, <3>2 DEF Present, Applied
    <3>6. \A s : Longest(s)' = Longest(s)
      BY <3>2 DEF Longest
    <3>7. [s \in Strata |-> IF s \in Cut THEN Longest(s) - 1 ELSE 0]' = Unused(kept')
      BY <3>2, <3>5, <3>6 DEF Cut, Unused, Present
    <3>8. Filled'
      BY <3>2, <3>4, <3>5, <3>7 DEF Filled
    <3>9. kept' \in [Strata -> Seq(RowCounts)]
      BY <3>1, <3>3, TrimmedType DEF CapInv
    <3>10. phase' \in {"capped", "refused"}
      BY <3>1
    <3> QED
      BY <3>2, <3>8, <3>9, <3>10 DEF CapInv, CapTypeOK, CapFills
  <2> QED
    BY <2>2, <2>3, <2>4
<1>3. CASE Require
  <2>1. /\ built' = built /\ kept' = kept /\ accepted' = accepted
        /\ phase = "capped" /\ phase' \in {"trainable", "refused"}
    BY <1>3 DEF Require
  <2>2. Filled
    BY <2>1 DEF CapInv, CapFills
  <2>3. Filled'
    BY <2>1, <2>2 DEF Filled, Applied, Present, Cut, Longest
  <2> QED
    BY <2>1, <2>3 DEF CapInv, CapTypeOK, CapFills
<1>4. CASE UNCHANGED capVars
  <2>1. built' = built /\ kept' = kept /\ accepted' = accepted /\ phase' = phase
    BY <1>4 DEF capVars
  <2>2. Filled => Filled'
    BY <2>1 DEF Filled, Applied, Present, Cut, Longest
  <2> QED
    BY <2>1, <2>2 DEF CapInv, CapTypeOK, CapFills, NoTrajectories
<1> QED
  BY <1>1, <1>2, <1>3, <1>4 DEF CapNext

(* Whatever trajectories a corpus holds, the cap is inert below the ceiling *)
(* and above it takes no more than it must: plan_view_cap keeps the first   *)
(* trajectory of every stratum, cuts only from the end, fits the ceiling,   *)
(* and leaves fewer rows unused, per stratum cut, than one trajectory has.  *)
THEOREM CapAlwaysFills == CapSpec => []CapFills
<1>1. CapInv => CapFills
  BY DEF CapInv
<1> QED
  BY CapInvInit, CapInvNext, <1>1, PTL DEF CapSpec

(* When no trajectory has more rows than the range can miss in every        *)
(* stratum (as registered: twelve strata, six rows, a range of a thousand), *)
(* the only refusal of plan_view_cap is of the reservation: once the first  *)
(* trajectories fit, its cut lands inside views.expected_rows.              *)
THEOREM CutLandsInRange ==
  ASSUME NEW wide \in Nat \ {0}, \A n \in RowCounts : n <= wide,
         NumStrata * (wide - 1) <= Hi - Lo
  PROVE  CapSpec => [][Cap /\ Applied /\ Reserved <= Hi => phase' = "capped"]_capVars
<1>1. ASSUME CapInv, Cap, Applied, Reserved <= Hi PROVE phase' = "capped"
  <2>1. AboveCeiling
    BY <1>1, RowCountsAreNat DEF AboveCeiling, CapInv
  <2>2. Reserved \in Int /\ Hi \in Nat /\ Lo \in Nat /\ NumStrata \in Nat
    BY <2>1, RowsOfBuild, ViewCapAssumption DEF AboveCeiling
  <2>3. PICK share \in Shares :
          /\ kept' = Trimmed(share)
          /\ phase' = IF Rows(kept') \in Lo..Hi THEN "capped" ELSE "refused"
    BY <1>1, <2>2 DEF Cap
  <2> DEFINE part == Trimmed(share)
             most == [s \in Strata |-> wide - 1]
             ones == [s \in Strata |-> 1]
  <2>4. /\ Rows(part) \in Int /\ Rows(part) <= Hi
        /\ Hi - Rows(part) <= Sum(Unused(part))
    BY <2>1, TrimmedFills
  <2>5. ASSUME NEW s \in Strata PROVE Unused(part)[s] <= wide - 1
    <3>1. CASE s \in Present
      <4>1. \E k \in 1..Len(built[s]) : built[s][k] = Longest(s)
        BY <2>1, <3>1, LongestFacts DEF AboveCeiling
      <4>2. built[s] \in Seq(RowCounts)
        BY <1>1 DEF CapInv, CapTypeOK
      <4>3. Longest(s) \in RowCounts
        BY <4>1, <4>2, ElementOfSeq
      <4>4. Longest(s) \in Nat /\ Longest(s) <= wide
        BY <4>3, ViewCapAssumption
      <4>5. Unused(part)[s] \in {Longest(s) - 1, 0}
        BY DEF Unused
      <4> QED
        BY <4>4, <4>5
    <3>2. CASE s \notin Present
      BY <3>2 DEF Unused
    <3> QED
      BY <3>1, <3>2
  <2>6. Unused(part) \in [Strata -> Int]
    BY <2>1, UnusedType DEF AboveCeiling
  <2> HIDE DEF part
  <2>7. /\ most \in [Strata -> Int] /\ ones \in [Strata -> Int]
        /\ \A s \in Strata : most[s] = wide - 1 /\ ones[s] = 1
        /\ \A s \in Strata : most[s] = (wide - 1) * ones[s]
    OBVIOUS
  <2> HIDE DEF most, ones
  <2>8. Sum(Unused(part)) <= Sum(most)
    BY <2>5, <2>6, <2>7, SumAtMost
  <2>9. Sum(ones) = NumStrata
    <3>1. Strata \in SUBSET Strata /\ \A s \in Strata : ones[s] = IF s \in Strata THEN 1 ELSE 0
      BY <2>7
    <3>2. Sum(ones) = Cardinality(Strata)
      BY <2>7, <3>1, SumOfOnes
    <3>3. Cardinality(Strata) = NumStrata
      BY <2>2, FS_Interval DEF Strata
    <3> QED
      BY <3>2, <3>3
  <2>10. wide - 1 \in Int
    OBVIOUS
  <2>11. Sum(most) = (wide - 1) * NumStrata
    BY <2>7, <2>9, <2>10, SumOfMultiple
  <2>12. (wide - 1) * NumStrata = NumStrata * (wide - 1) /\ NumStrata * (wide - 1) \in Int
    BY <2>2, <2>10
  <2>13. Sum(Unused(part)) \in Int
    BY <2>6, StrataSeq, SumType
  <2>14. Rows(part) \in Lo..Hi
    BY <2>2, <2>4, <2>8, <2>11, <2>12, <2>13
  <2> QED
    BY <2>3, <2>14 DEF part
<1>2. CapInv /\ [CapNext]_capVars
        => [Cap /\ Applied /\ Reserved <= Hi => phase' = "capped"]_capVars
  BY <1>1
<1> QED
  BY CapInvInit, CapInvNext, <1>2, PTL DEF CapSpec
=============================================================================
