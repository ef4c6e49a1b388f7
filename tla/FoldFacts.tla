----------------------------- MODULE FoldFacts -----------------------------
(****************************************************************************)
(* Facts about FoldLeft with a given step Op. An operator cannot be a       *)
(* parameter of a lemma here; it is a constant, and a module that uses a    *)
(* fold takes an instance of this one. Op has a parameter of its own, p, for *)
(* what the step depends on.                                                *)
(*                                                                          *)
(* FoldLeft is defined by a function on sets, of which there is one only    *)
(* because the sets can be counted: hence the inductions.                   *)
(****************************************************************************)
EXTENDS Naturals, WellFoundedInduction, SequencesExt, TLAPS


CONSTANT Op(_, _, _)

Fold(p, base, s) == FoldLeft(LAMBDA a, e : Op(p, a, e), base, s)

(* A set of natural numbers that is not empty has a least element. *)
LEMMA LeastNatural ==
    ASSUME NEW S, S \subseteq Nat, S # {}
    PROVE  \E m \in S : \A k \in S : m <= k
  <1> DEFINE R == OpToRel(<, Nat)
  <1>1. IsWellFoundedOn(R, Nat)
    BY NatLessThanWellFounded
  <1>2. \A i, j \in Nat : i < j => <<i, j>> \in R
    BY DEF OpToRel
  <1> HIDE DEF R
  <1>3. PICK m \in S : \A k \in S : <<k, m>> \notin R
    BY <1>1, WFMin
  <1>4. \A k \in S : ~ (k < m)
    BY <1>2, <1>3
  <1> QED
    BY <1>4

(* Induction, about a set and so without an operator: one with 0 and with   *)
(* the number after each of its own has all.                                *)
LEMMA InductiveSet ==
    ASSUME NEW S, 0 \in S, \A n \in Nat : n \in S => n + 1 \in S
    PROVE  \A n \in Nat : n \in S
  <1> DEFINE T == Nat \ S
  <1> SUFFICES ASSUME T # {} PROVE FALSE
    OBVIOUS
  <1>1. PICK m \in T : \A k \in T : m <= k
    BY LeastNatural
  <1>2. m # 0 /\ m \in Nat /\ m - 1 \in Nat
    OBVIOUS
  <1>3. m - 1 \in S
    BY <1>1, <1>2
  <1> QED
    BY <1>2, <1>3

(* The greatest element of a set is the one that no other exceeds. *)
LEMMA GreatestIs ==
    ASSUME NEW T, NEW m \in T, T \subseteq Nat, \A x \in T : x <= m
    PROVE  Max(T) = m
  <1> DEFINE Greatest(x) == x \in T /\ \A y \in T : x >= y
  <1>1. Greatest(m)
    OBVIOUS
  <1>2. \A x : Greatest(x) => x = m
    <2> SUFFICES ASSUME NEW x, Greatest(x) PROVE x = m
      OBVIOUS
    <2>1. x \in Nat /\ m \in Nat /\ x <= m /\ x >= m
      OBVIOUS
    <2> QED
      BY <2>1
  <1>3. Max(T) = CHOOSE x : Greatest(x)
    BY DEF Max
  <1> HIDE DEF Greatest
  <1> QED
    BY <1>1, <1>2, <1>3

(* The sets that MapThenFoldSet goes through, of which it takes the         *)
(* greatest element away, are the beginnings of 1 .. n.                     *)
LEMMA PrefixSets ==
    ASSUME NEW n \in Nat, NEW k \in 1 .. n
    PROVE  /\ 1 .. k \in SUBSET (1 .. n) /\ 1 .. k # {} /\ Max(1 .. k) = k
           /\ 1 .. k \ {k} = 1 .. k - 1
  <1>1. Max(1 .. k) = k
    <2>1. k \in 1 .. k /\ 1 .. k \subseteq Nat /\ \A x \in 1 .. k : x <= k
      OBVIOUS
    <2> QED
      BY <2>1, GreatestIs
  <1> QED
    BY <1>1

(* The function by which FoldLeft is defined. *)
Folding(p, it, base, n, s) ==
    it = [S \in SUBSET (1 .. n) |->
            IF S = {} THEN base ELSE Op(p, it[S \ {Max(S)}], s[Max(S)])]

(* There is such a function: the solutions for the sets up to a size agree, *)
(* and together they are one for all.                                       *)
LEMMA FoldingExists ==
    ASSUME NEW p, NEW base, NEW n \in Nat, NEW s
    PROVE  \E it : Folding(p, it, base, n, s)
  <1> DEFINE D == SUBSET (1 .. n)
             Good(it, k) == \A S \in D : S \subseteq 1 .. k =>
                 it[S] = IF S = {} THEN base ELSE Op(p, it[S \ {Max(S)}], s[Max(S)])
             K == {k \in Nat : \E it : Good(it, k)}
  <1>1. 0 \in K
    <2> DEFINE it == [S \in D |-> base]
    <2>1. Good(it, 0)
      OBVIOUS
    <2> QED
      BY <2>1
  <1>2. ASSUME NEW k \in Nat, k \in K
        PROVE  k + 1 \in K
    <2>1. PICK old : Good(old, k)
      BY <1>2
    <2> DEFINE new == [S \in D |-> IF S \subseteq 1 .. k THEN old[S] ELSE Op(p, old[S \ {Max(S)}], s[Max(S)])]
    <2>2. Good(new, k + 1)
      <3> SUFFICES ASSUME NEW S \in D, S \subseteq 1 .. k + 1
                   PROVE  new[S] = IF S = {} THEN base ELSE Op(p, new[S \ {Max(S)}], s[Max(S)])
        OBVIOUS
      <3>1. CASE S = {}
        BY <2>1, <3>1
      <3>2. CASE S # {} /\ S \subseteq 1 .. k
        <4>1. S \ {Max(S)} \in D /\ S \ {Max(S)} \subseteq 1 .. k
          BY <3>2
        <4>2. new[S] = old[S] /\ new[S \ {Max(S)}] = old[S \ {Max(S)}]
          BY <3>2, <4>1
        <4> QED
          BY <2>1, <3>2, <4>2
      <3>3. CASE ~(S \subseteq 1 .. k)
        <4>1. k + 1 \in S /\ S \subseteq Nat /\ \A x \in S : x <= k + 1
          BY <3>3
        <4>2. Max(S) = k + 1
          BY <4>1, GreatestIs
        <4>3. S \ {k + 1} \in D /\ S \ {k + 1} \subseteq 1 .. k
          OBVIOUS
        <4>4. new[S] = Op(p, old[S \ {Max(S)}], s[Max(S)]) /\ S # {}
          BY <3>3
        <4>5. new[S \ {k + 1}] = old[S \ {k + 1}]
          BY <4>3
        <4> QED
          BY <4>2, <4>4, <4>5
      <3> QED
        BY <3>1, <3>2, <3>3
    <2>3. \E it : Good(it, k + 1)
      <3> HIDE DEF Good, new
      <3> QED
        BY <2>2
    <2> HIDE DEF Good
    <2> QED
      BY <2>3
  <1> HIDE DEF K
  <1>3. n \in K
    BY <1>1, <1>2, InductiveSet
  <1>4. PICK it : Good(it, n)
    BY <1>3 DEF K
  <1> DEFINE fn == [S \in D |-> it[S]]
  <1>5. ASSUME NEW S \in D
        PROVE  fn[S] = IF S = {} THEN base ELSE Op(p, fn[S \ {Max(S)}], s[Max(S)])
    <2>1. S \ {Max(S)} \in D
      OBVIOUS
    <2> QED
      BY <1>4, <2>1
  <1>6. fn = [S \in D |-> IF S = {} THEN base ELSE Op(p, fn[S \ {Max(S)}], s[Max(S)])]
    BY <1>5
  <1> HIDE DEF fn
  <1> QED
    BY <1>6 DEF Folding

(* h has what the fold gives for each beginning of s. *)
Steps(p, h, base, s, n) == h[0] = base /\ \A k \in 1 .. n : h[k] = Op(p, h[k - 1], s[k])

(* A fold is the last of the values that its steps lead to from base. *)
LEMMA FoldUnfolds ==
    ASSUME NEW p, NEW base, NEW s, NEW n \in Nat, DOMAIN s = 1 .. n
    PROVE  \E h : Steps(p, h, base, s, n) /\ Fold(p, base, s) = h[n]
  <1> DEFINE P(it) == it = [S \in SUBSET (DOMAIN s) |->
                              IF S = {} THEN base ELSE Op(p, it[S \ {Max(S)}], s[Max(S)])]
             it == CHOOSE f : P(f)
  <1>1. Fold(p, base, s) = it[DOMAIN s]
    BY DEF Fold, FoldLeft, MapThenFoldSet
  <1>2. \E f : P(f)
    <2>1. \A f : P(f) <=> Folding(p, f, base, n, s)
      BY DEF Folding
    <2> HIDE DEF P
    <2> QED
      BY <2>1, FoldingExists
  <1>3. P(it)
    BY <1>2
  <1>4. \A S \in SUBSET (1 .. n) :
           it[S] = IF S = {} THEN base ELSE Op(p, it[S \ {Max(S)}], s[Max(S)])
    BY <1>3
  <1> HIDE DEF it, P
  <1> DEFINE h == [k \in 0 .. n |-> it[1 .. k]]
  <1>5. h[0] = base
    <2>1. 1 .. 0 = {} /\ 1 .. 0 \in SUBSET (1 .. n)
      OBVIOUS
    <2>2. it[1 .. 0] = base
      BY <1>4, <2>1
    <2> QED
      BY <2>2
  <1>6. ASSUME NEW k \in 1 .. n
        PROVE  h[k] = Op(p, h[k - 1], s[k])
    <2>1. h[k] = it[1 .. k] /\ h[k - 1] = it[1 .. k - 1]
      OBVIOUS
    <2>2. it[1 .. k] = Op(p, it[1 .. k - 1], s[k])
      BY <1>4, PrefixSets
    <2> QED
      BY <2>1, <2>2
  <1>7. Fold(p, base, s) = h[n]
    BY <1>1
  <1> HIDE DEF h
  <1> QED
    BY <1>5, <1>6, <1>7 DEF Steps

(* What a fold of one sequence gives for each of its beginnings is unique.  *)
THEOREM FoldIs ==
    ASSUME NEW p, NEW base, NEW s, NEW n \in Nat, DOMAIN s = 1 .. n, NEW h,
           Steps(p, h, base, s, n)
    PROVE  Fold(p, base, s) = h[n]
  <1>1. PICK g : Steps(p, g, base, s, n) /\ Fold(p, base, s) = g[n]
    BY FoldUnfolds
  <1> DEFINE K == {k \in Nat : k <= n => g[k] = h[k]}
  <1>2. 0 \in K
    BY <1>1 DEF Steps
  <1>3. ASSUME NEW k \in Nat, k \in K
        PROVE  k + 1 \in K
    <2> SUFFICES ASSUME k + 1 <= n PROVE g[k + 1] = h[k + 1]
      OBVIOUS
    <2>1. k + 1 \in 1 .. n /\ (k + 1) - 1 = k /\ g[k] = h[k]
      BY <1>3
    <2>2. g[k + 1] = Op(p, g[k], s[k + 1]) /\ h[k + 1] = Op(p, h[k], s[k + 1])
      BY <1>1, <2>1 DEF Steps
    <2> QED
      BY <2>1, <2>2
  <1> HIDE DEF K
  <1>4. n \in K
    BY <1>2, <1>3, InductiveSet
  <1> QED
    BY <1>1, <1>4 DEF K

(* What every step keeps, the fold has. *)
LEMMA FoldType ==
    ASSUME NEW p, NEW A, NEW base \in A, NEW S, NEW s \in Seq(S),
           \A a \in A, e \in S : Op(p, a, e) \in A
    PROVE  Fold(p, base, s) \in A
  <1>1. Len(s) \in Nat /\ DOMAIN s = 1 .. Len(s) /\ \A k \in 1 .. Len(s) : s[k] \in S
    OBVIOUS
  <1>2. PICK g : Steps(p, g, base, s, Len(s)) /\ Fold(p, base, s) = g[Len(s)]
    BY <1>1, FoldUnfolds
  <1> DEFINE K == {k \in Nat : k <= Len(s) => g[k] \in A}
  <1>3. 0 \in K
    BY <1>2 DEF Steps
  <1>4. ASSUME NEW k \in Nat, k \in K
        PROVE  k + 1 \in K
    <2> SUFFICES ASSUME k + 1 <= Len(s) PROVE g[k + 1] \in A
      OBVIOUS
    <2>1. k + 1 \in 1 .. Len(s) /\ (k + 1) - 1 = k /\ g[k] \in A
      BY <1>1, <1>4
    <2> QED
      BY <1>1, <1>2, <2>1 DEF Steps
  <1> HIDE DEF K
  <1>5. Len(s) \in K
    BY <1>1, <1>3, <1>4, InductiveSet
  <1> QED
    BY <1>2, <1>5 DEF K

(* Of nothing, it is base. *)
LEMMA FoldEmpty ==
    ASSUME NEW p, NEW base
    PROVE  Fold(p, base, <<>>) = base
  <1> DEFINE h == [k \in {0} |-> base]
  <1>1. DOMAIN <<>> = 1 .. 0 /\ h[0] = base /\ Steps(p, h, base, <<>>, 0)
    BY DEF Steps
  <1> HIDE DEF h
  <1> QED
    BY <1>1, FoldIs

(* One element more at the end is one step more at the end. *)
LEMMA FoldAppend ==
    ASSUME NEW p, NEW base, NEW S, NEW s \in Seq(S), NEW e \in S
    PROVE  Fold(p, base, Append(s, e)) = Op(p, Fold(p, base, s), e)
  <1>0. PICK n \in Nat : n = Len(s)
    OBVIOUS
  <1>1. PICK t : t = Append(s, e)
    OBVIOUS
  <1>2. PICK m \in Nat : m = n + 1
    OBVIOUS
  <1>3. /\ DOMAIN s = 1 .. n /\ DOMAIN t = 1 .. m
        /\ t[m] = e /\ \A k \in 1 .. n : t[k] = s[k]
    BY <1>0, <1>1, <1>2
  <1>4. PICK g : Steps(p, g, base, t, m) /\ Fold(p, base, t) = g[m]
    BY <1>3, FoldUnfolds
  <1>5. Steps(p, g, base, s, n)
    BY <1>2, <1>3, <1>4 DEF Steps
  <1>6. Fold(p, base, s) = g[n]
    BY <1>3, <1>5, FoldIs
  <1>7. g[m] = Op(p, g[n], e)
    BY <1>2, <1>3, <1>4 DEF Steps
  <1> QED
    BY <1>1, <1>4, <1>6, <1>7

(* One element more at the start is one step before the others. *)
LEMMA FoldHead ==
    ASSUME NEW p, NEW base, NEW S, NEW s \in Seq(S), NEW e \in S
    PROVE  Fold(p, base, <<e>> \o s) = Fold(p, Op(p, base, e), s)
  <1>0. PICK n \in Nat : n = Len(s)
    OBVIOUS
  <1>1. PICK t : t = <<e>> \o s
    OBVIOUS
  <1>2. PICK m \in Nat : m = n + 1
    OBVIOUS
  <1>3. /\ DOMAIN s = 1 .. n /\ DOMAIN t = 1 .. m
        /\ t[1] = e /\ \A k \in 1 .. n : t[k + 1] = s[k]
    BY <1>0, <1>1, <1>2
  <1>4. PICK g : Steps(p, g, base, t, m) /\ Fold(p, base, t) = g[m]
    BY <1>3, FoldUnfolds
  <1> DEFINE h == [k \in 0 .. n |-> g[k + 1]]
  <1>5. h[0] = Op(p, base, e)
    BY <1>2, <1>3, <1>4 DEF Steps
  <1>6. ASSUME NEW k \in 1 .. n
        PROVE  h[k] = Op(p, h[k - 1], s[k])
    <2>1. k + 1 \in 1 .. m /\ (k + 1) - 1 = k /\ h[k] = g[k + 1] /\ h[k - 1] = g[k]
      BY <1>2
    <2> QED
      BY <1>3, <1>4, <2>1 DEF Steps
  <1>7. h[n] = g[m]
    BY <1>2
  <1> HIDE DEF h
  <1>8. Steps(p, h, Op(p, base, e), s, n)
    BY <1>5, <1>6 DEF Steps
  <1>9. Fold(p, Op(p, base, e), s) = h[n]
    BY <1>3, <1>8, FoldIs
  <1> QED
    BY <1>1, <1>4, <1>7, <1>9
=============================================================================
