----------------------------- MODULE FoldLemmas -----------------------------
(***************************************************************************)
(* What SequencesExt's FoldLeft computes, for any operator: FoldLeft is    *)
(* defined by a recursive function on the sets of indexes, and proofs want *)
(* an equation for one element more.  The operator is a constant of this   *)
(* module; a module that folds takes an instance for its own operator,     *)
(* since the provers do not instantiate a theorem's operator parameters.   *)
(***************************************************************************)
EXTENDS Integers, Sequences, SequenceTheorems, WellFoundedInduction, TLAPS

CONSTANT op(_, _)

\* FoldLeft(op, base, s), with its definition written out.
Latest(S) == CHOOSE i \in S : \A j \in S : i >= j

IsFoldOver(indexes, iter, base, s) ==
  iter = [S \in SUBSET indexes |->
            IF S = {} THEN base ELSE op(iter[S \ {Latest(S)}], s[Latest(S)])]

IsFold(iter, base, s) == IsFoldOver(DOMAIN s, iter, base, s)

LeftFold(base, s) == (CHOOSE iter : IsFold(iter, base, s))[DOMAIN s]

\* A set of numbers with 0 and the successors of its members has them all.
\* (NatInduction cannot be used: its parameter is an operator.)
LEMMA EveryNat ==
  ASSUME NEW S, 0 \in S, \A n \in Nat : n \in S => n + 1 \in S
  PROVE  Nat \subseteq S
<1> DEFINE T == Nat \ S
<1> SUFFICES ASSUME T # {} PROVE FALSE
  OBVIOUS
<1>1. \E n \in T : \A k \in T : <<k, n>> \notin OpToRel(<, Nat)
  <2> HIDE DEF T
  <2>1. T \subseteq Nat
    BY DEF T
  <2> QED BY <2>1, NatLessThanWellFounded, WFMin
<1>2. PICK n \in T : \A k \in T : <<k, n>> \notin OpToRel(<, Nat)
  BY <1>1
<1>3. n \in Nat \ {0} /\ n - 1 \in Nat
  OBVIOUS
<1>4. n - 1 \in T
  <2>1. n - 1 + 1 = n
    BY <1>3
  <2> QED BY <1>3, <2>1
<1>5. <<n - 1, n>> \in OpToRel(<, Nat)
  <2>1. <<n - 1, n>> \in Nat \X Nat /\ <<n - 1, n>>[1] < <<n - 1, n>>[2]
    BY <1>3
  <2> QED BY <2>1 DEF OpToRel
<1> QED BY <1>2, <1>4, <1>5

\* The last of the first indexes.
LEMMA LatestIs ==
  ASSUME NEW n \in Nat, NEW S \in SUBSET (1..n), n \in S
  PROVE  Latest(S) = n
<1>1. \A j \in S : n >= j
  OBVIOUS
<1>2. \A i \in S : (\A j \in S : i >= j) => i = n
  <2> TAKE i \in S
  <2> HAVE \A j \in S : i >= j
  <2> QED OBVIOUS
<1> QED BY <1>1, <1>2 DEF Latest

\* The recursion over the sets of the first m indexes has a solution.
LEMMA FoldUpTo ==
  ASSUME NEW base, NEW s
  PROVE  \A m \in Nat : \E iter : IsFoldOver(1..m, iter, base, s)
<1> DEFINE Solves(iter, m) == IsFoldOver(1..m, iter, base, s)
           Solved == {m \in Nat : \E iter : Solves(iter, m)}
<1>1. 0 \in Solved
  <2> DEFINE iter == [S \in SUBSET (1..0) |-> base]
  <2>1. \A S \in SUBSET (1..0) : S = {}
    OBVIOUS
  <2>2. Solves(iter, 0)
    BY <2>1 DEF IsFoldOver
  <2> QED BY <2>2
<1>2. ASSUME NEW m \in Nat, m \in Solved
      PROVE  m + 1 \in Solved
  <2>1. PICK old : Solves(old, m)
    BY <1>2
  <2> DEFINE Step(S) == IF m + 1 \in S THEN op(old[S \ {m + 1}], s[m + 1])
                                       ELSE old[S]
             new == [S \in SUBSET (1..(m + 1)) |-> Step(S)]
  <2>2. \A S \in SUBSET (1..(m + 1)) : m + 1 \notin S => S \in SUBSET (1..m)
    OBVIOUS
  <2>3. ASSUME NEW S \in SUBSET (1..(m + 1))
        PROVE  new[S] = IF S = {} THEN base
                        ELSE op(new[S \ {Latest(S)}], s[Latest(S)])
    <3>1. CASE m + 1 \in S
      <4>1. Latest(S) = m + 1
        BY <3>1, LatestIs
      <4>2. S \ {m + 1} \in SUBSET (1..(m + 1)) /\ m + 1 \notin S \ {m + 1}
        OBVIOUS
      <4>3. new[S \ {m + 1}] = old[S \ {m + 1}]
        BY <4>2
      <4> QED BY <3>1, <4>1, <4>3
    <3>2. CASE m + 1 \notin S
      <4>1. S \in SUBSET (1..m) /\ new[S] = old[S]
        BY <3>2, <2>2
      <4>2. old[S] = IF S = {} THEN base
                     ELSE op(old[S \ {Latest(S)}], s[Latest(S)])
        BY <2>1, <4>1 DEF IsFoldOver
      <4>3. /\ S \ {Latest(S)} \in SUBSET (1..(m + 1))
            /\ m + 1 \notin S \ {Latest(S)}
        BY <3>2
      <4>4. new[S \ {Latest(S)}] = old[S \ {Latest(S)}]
        BY <4>3
      <4> QED BY <4>1, <4>2, <4>4
    <3> QED BY <3>1, <3>2
  <2>4. Solves(new, m + 1)
    <3>1. new = [S \in SUBSET (1..(m + 1)) |-> new[S]]
      OBVIOUS
    <3> HIDE DEF new
    <3> QED BY <2>3, <3>1 DEF IsFoldOver
  <2> HIDE DEF new, Solves
  <2> QED BY <2>4
<1> HIDE DEF Solves
<1>3. Nat \subseteq Solved
  <2> HIDE DEF Solved
  <2> QED BY <1>1, <1>2, EveryNat
<1> QED BY <1>3 DEF Solves

\* So the fold of a sequence is a solution of it.
LEMMA FoldSolves ==
  ASSUME NEW base, NEW s, NEW n \in Nat, DOMAIN s = 1..n
  PROVE  \E iter : IsFold(iter, base, s) /\ LeftFold(base, s) = iter[1..n]
<1>1. PICK iter : IsFoldOver(1..n, iter, base, s)
  BY FoldUpTo
<1>2. IsFold(iter, base, s)
  BY <1>1 DEF IsFold
<1> QED BY <1>2 DEF LeftFold

\* Two solutions agree as far as their sequences do.
LEMMA FoldsAgree ==
  ASSUME NEW base, NEW s, NEW t, NEW f, NEW g, NEW k \in Nat, NEW l \in Nat,
         DOMAIN s = 1..k, DOMAIN t = 1..l,
         IsFold(f, base, s), IsFold(g, base, t)
  PROVE  \A n \in Nat : n <= k /\ n <= l /\ (\A i \in 1..n : s[i] = t[i])
                          => f[1..n] = g[1..n]
<1> DEFINE Agrees(n) == n <= k /\ n <= l /\ (\A i \in 1..n : s[i] = t[i])
                          => f[1..n] = g[1..n]
           Agreed == {n \in Nat : Agrees(n)}
<1>1. /\ \A S \in SUBSET (1..k) :
           f[S] = IF S = {} THEN base
                  ELSE op(f[S \ {Latest(S)}], s[Latest(S)])
      /\ \A S \in SUBSET (1..l) :
           g[S] = IF S = {} THEN base
                  ELSE op(g[S \ {Latest(S)}], t[Latest(S)])
  BY DEF IsFold, IsFoldOver
<1>2. 0 \in Agreed
  <2>1. 1..0 = {} /\ {} \in SUBSET (1..k) /\ {} \in SUBSET (1..l)
    OBVIOUS
  <2>2. f[{}] = base /\ g[{}] = base
    BY <1>1, <2>1
  <2> QED BY <2>1, <2>2
<1>3. ASSUME NEW n \in Nat, n \in Agreed
      PROVE  n + 1 \in Agreed
  <2> SUFFICES ASSUME n + 1 <= k, n + 1 <= l,
                      \A i \in 1..(n + 1) : s[i] = t[i]
               PROVE  f[1..(n + 1)] = g[1..(n + 1)]
    OBVIOUS
  <2> DEFINE S == 1..(n + 1)
  <2>1. /\ S \in SUBSET (1..k) /\ S \in SUBSET (1..l) /\ n + 1 \in S
        /\ S # {} /\ S \in SUBSET (1..(n + 1)) /\ n + 1 \in Nat
    <3>1. n + 1 \in S /\ n + 1 \in Nat
      OBVIOUS
    <3>2. \A i \in S : i \in 1..k /\ i \in 1..l
      OBVIOUS
    <3> QED BY <3>1, <3>2
  <2>2. Latest(S) = n + 1
    <3> HIDE DEF S
    <3> QED BY <2>1, LatestIs
  <2>3. S \ {n + 1} = 1..n
    OBVIOUS
  <2>4. f[1..n] = g[1..n]
    BY <1>3
  <2>5. s[n + 1] = t[n + 1]
    BY <2>1
  <2>6. f[S] = op(f[1..n], s[n + 1]) /\ g[S] = op(g[1..n], t[n + 1])
    <3> HIDE DEF S
    <3> QED BY <1>1, <2>1, <2>2, <2>3
  <2> QED BY <2>4, <2>5, <2>6
<1>4. Nat \subseteq Agreed
  <2> HIDE DEF Agreed
  <2> QED BY <1>2, <1>3, EveryNat
<1> QED BY <1>4

\* The fold of the empty sequence.
LEMMA FoldEmpty == \A base : LeftFold(base, <<>>) = base
<1> TAKE base
<1>1. DOMAIN <<>> = 1..0 /\ 1..0 = {}
  OBVIOUS
<1>2. PICK iter : IsFold(iter, base, <<>>) /\ LeftFold(base, <<>>) = iter[1..0]
  BY <1>1, FoldSolves
<1>3. {} \in SUBSET DOMAIN <<>>
  OBVIOUS
<1>4. iter[{}] = base
  BY <1>2, <1>3 DEF IsFold, IsFoldOver
<1> QED BY <1>1, <1>2, <1>4

\* The fold of one element more.
LEMMA FoldAppend ==
  ASSUME NEW base, NEW T, NEW s \in Seq(T), NEW x \in T
  PROVE  LeftFold(base, Append(s, x)) = op(LeftFold(base, s), x)
<1> DEFINE n == Len(s)
           t == Append(s, x)
<1>1. /\ n \in Nat /\ DOMAIN s = 1..n /\ DOMAIN t = 1..(n + 1)
      /\ n + 1 \in Nat /\ t[n + 1] = x /\ \A i \in 1..n : s[i] = t[i]
  OBVIOUS
<1> HIDE DEF n, t
<1>2. PICK f : IsFold(f, base, s) /\ LeftFold(base, s) = f[1..n]
  BY <1>1, FoldSolves
<1>3. PICK g : IsFold(g, base, t) /\ LeftFold(base, t) = g[1..(n + 1)]
  BY <1>1, FoldSolves
<1>4. f[1..n] = g[1..n]
  BY <1>1, <1>2, <1>3, FoldsAgree
<1> DEFINE S == 1..(n + 1)
<1>5. /\ S \in SUBSET DOMAIN t /\ S # {} /\ n + 1 \in S
      /\ S \in SUBSET (1..(n + 1)) /\ S \ {n + 1} = 1..n
  BY <1>1
<1>6. Latest(S) = n + 1
  <2> HIDE DEF S
  <2> QED BY <1>1, <1>5, LatestIs
<1>7. g[S] = op(g[1..n], t[n + 1])
  <2> HIDE DEF S
  <2> QED BY <1>3, <1>5, <1>6 DEF IsFold, IsFoldOver
<1> QED BY <1>1, <1>2, <1>3, <1>4, <1>7 DEF t

============================================================================
