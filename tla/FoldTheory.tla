----------------------------- MODULE FoldTheory -----------------------------
(***************************************************************************)
(* What FoldLeft of the community modules computes, for an operation op    *)
(* with two fixed parameters.  FoldLeft is defined through MapThenFoldSet, *)
(* whose recursive function runs over all subsets of 1..Len(s); the facts  *)
(* here say what a reader expects: a fold over no elements is its base,    *)
(* one over Append(s, e) applies op to the fold over s and e, and it never *)
(* leaves a set that op is closed under.                                   *)
(* The provers do not instantiate induction theorems that take an          *)
(* operator.  CountUp is induction over a set of numbers instead, from the *)
(* fact that a set of natural numbers has a least element; the modules     *)
(* that use a fold instantiate op.                                         *)
(***************************************************************************)
EXTENDS Integers, Sequences, SequencesExt, WellFoundedInduction, TLAPS

CONSTANT op(_, _, _, _)

Fold(c, d, base, s) == FoldLeft(LAMBDA x, e : op(c, d, x, e), base, s)

\* The accumulators X are closed under steps with elements of E.
Closed(c, d, X, E) == \A x \in X : \A e \in E : op(c, d, x, e) \in X

\* f[k] is the accumulator after k elements of s.
Run(c, d, base, s, f) ==
    /\ f[0] = base
    /\ \A k \in 1 .. Len(s) : f[k] = op(c, d, f[k - 1], s[k])
    /\ Fold(c, d, base, s) = f[Len(s)]

Unfolds(c, d, X, E, base, s) ==
    /\ Fold(c, d, base, s) \in X
    /\ Fold(c, d, base, <<>>) = base
    /\ \A e \in E : Fold(c, d, base, Append(s, e)) = op(c, d, Fold(c, d, base, s), e)

LEMMA LeastNumber ==
  ASSUME NEW T \in SUBSET Nat, T # {}
  PROVE  \E m \in T : \A k \in T : m <= k
  <1>1. PICK m \in T : \A k \in T : ~(<<k, m>> \in OpToRel(<, Nat))
    BY WFMin, NatLessThanWellFounded
  <1>2. ASSUME NEW k \in T PROVE m <= k
    <2>1. ~(k < m)
      BY <1>1 DEF OpToRel
    <2> QED
      BY <2>1
  <1> QED
    BY <1>2

\* Induction up to n, over a set of numbers.
THEOREM CountUp ==
  \A n \in Nat : \A G :
     0 \in G /\ (\A k \in 0 .. n - 1 : k \in G => k + 1 \in G) => \A k \in 0 .. n : k \in G
  <1> SUFFICES ASSUME NEW n \in Nat, NEW G, 0 \in G,
                      \A k \in 0 .. n - 1 : k \in G => k + 1 \in G,
                      (0 .. n) \ G # {}
               PROVE  FALSE
    OBVIOUS
  <1>0. (0 .. n) \ G \in SUBSET Nat
    OBVIOUS
  <1>1. PICK m \in (0 .. n) \ G : \A k \in (0 .. n) \ G : m <= k
    BY <1>0, LeastNumber, Zenon
  <1>2. m - 1 \in 0 .. n - 1 /\ m - 1 \notin (0 .. n) \ G
    BY <1>1
  <1> QED
    BY <1>1, <1>2

LEMMA MaxOf ==
  ASSUME NEW k \in Nat, NEW t \in SUBSET (1 .. k + 1), k + 1 \in t
  PROVE  Max(t) = k + 1
  <1>1. \A x \in t : (\A y \in t : x >= y) <=> x = k + 1
    OBVIOUS
  <1> QED
    BY <1>1 DEF Max

Unfolded(c, d, base, s, n, iter) ==
    \A t \in SUBSET (1 .. n) :
        iter[t] = IF t = {} THEN base ELSE op(c, d, iter[t \ {Max(t)}], s[Max(t)])

LEMMA FoldExists ==
  ASSUME NEW c, NEW d, NEW X, NEW E, NEW base \in X, NEW s \in Seq(E),
         Closed(c, d, X, E)
  PROVE  \E iter \in [SUBSET (1 .. Len(s)) -> X] : Unfolded(c, d, base, s, Len(s), iter)
  <1> DEFINE Has(n) == \E iter \in [SUBSET (1 .. n) -> X] : Unfolded(c, d, base, s, n, iter)
             G == {n \in Nat : Has(n)}
  <1>1. Has(0)
    <2> DEFINE iter == [t \in SUBSET (1 .. 0) |-> base]
    <2>1. iter \in [SUBSET (1 .. 0) -> X]
      OBVIOUS
    <2>2. \A t \in SUBSET (1 .. 0) : t = {} /\ iter[t] = base
      OBVIOUS
    <2>3. Unfolded(c, d, base, s, 0, iter)
      BY <2>2 DEF Unfolded
    <2> QED
      BY <2>1, <2>3
  <1>2. ASSUME NEW k \in 0 .. Len(s) - 1, Has(k)
        PROVE  Has(k + 1)
    <2>1. PICK old \in [SUBSET (1 .. k) -> X] : Unfolded(c, d, base, s, k, old)
      BY <1>2
    <2> DEFINE iter == [t \in SUBSET (1 .. k + 1) |->
                          IF k + 1 \in t THEN op(c, d, old[t \ {k + 1}], s[k + 1]) ELSE old[t]]
    <2>2. k \in Nat /\ k + 1 \in 1 .. Len(s) /\ s[k + 1] \in E
      OBVIOUS
    <2>3. ASSUME NEW t \in SUBSET (1 .. k + 1)
          PROVE  /\ iter[t] \in X
                 /\ iter[t] = IF t = {} THEN base ELSE op(c, d, iter[t \ {Max(t)}], s[Max(t)])
      <3>1. CASE k + 1 \in t
        <4>1. t \ {k + 1} \in SUBSET (1 .. k) /\ t \ {k + 1} \in SUBSET (1 .. k + 1)
          BY <2>2
        <4>2. old[t \ {k + 1}] \in X
          BY <4>1, <2>1
        <4>3. Max(t) = k + 1
          BY <2>2, <3>1, MaxOf
        <4>4. iter[t] = op(c, d, old[t \ {k + 1}], s[k + 1])
          BY <3>1
        <4>5. iter[t \ {k + 1}] = old[t \ {k + 1}]
          BY <4>1
        <4>6. iter[t] \in X
          BY <4>2, <4>4, <2>2 DEF Closed
        <4>7. t # {}
          BY <3>1
        <4> HIDE DEF iter
        <4> QED
          BY <4>3, <4>4, <4>5, <4>6, <4>7
      <3>2. CASE k + 1 \notin t
        <4>1. t \in SUBSET (1 .. k)
          BY <3>2, <2>2
        <4>2. iter[t] = old[t] /\ old[t] \in X
          BY <3>2, <4>1
        <4>3. old[t] = IF t = {} THEN base ELSE op(c, d, old[t \ {Max(t)}], s[Max(t)])
          BY <4>1, <2>1 DEF Unfolded
        <4>4. t \ {Max(t)} \in SUBSET (1 .. k) /\ k + 1 \notin t \ {Max(t)}
              /\ t \ {Max(t)} \in SUBSET (1 .. k + 1)
          BY <4>1, <3>2
        <4>5. iter[t \ {Max(t)}] = old[t \ {Max(t)}]
          BY <4>4
        <4> HIDE DEF iter
        <4> QED
          BY <4>2, <4>3, <4>5
      <3> QED
        BY <3>1, <3>2
    <2>4. iter \in [SUBSET (1 .. k + 1) -> X]
      BY <2>3
    <2>5. Unfolded(c, d, base, s, k + 1, iter)
      <3> HIDE DEF iter
      <3> QED
        BY <2>3 DEF Unfolded
    <2> HIDE DEF iter
    <2> QED
      BY <2>4, <2>5
  <1> HIDE DEF Has
  <1>3. Len(s) \in Nat /\ 0 \in G /\ \A k \in 0 .. Len(s) - 1 : k \in G => k + 1 \in G
    BY <1>1, <1>2
  <1>4. Len(s) \in G
    <2> HIDE DEF G
    <2>1. \A k \in 0 .. Len(s) : k \in G
      BY <1>3, CountUp, Zenon
    <2> QED
      BY <1>3, <2>1
  <1> QED
    BY <1>4 DEF Has

\* The fold, step by step.
LEMMA FoldRun ==
  ASSUME NEW c, NEW d, NEW X, NEW E, NEW base \in X, NEW s \in Seq(E),
         Closed(c, d, X, E)
  PROVE  \E f : Run(c, d, base, s, f)
  <1>1. \E iter : iter = [t \in SUBSET DOMAIN s |->
            IF t = {} THEN base ELSE op(c, d, iter[t \ {Max(t)}], s[Max(t)])]
    <2>1. PICK iter \in [SUBSET (1 .. Len(s)) -> X] : Unfolded(c, d, base, s, Len(s), iter)
      BY FoldExists
    <2>2. DOMAIN s = 1 .. Len(s)
      OBVIOUS
    <2>3. iter = [t \in SUBSET DOMAIN s |->
                     IF t = {} THEN base ELSE op(c, d, iter[t \ {Max(t)}], s[Max(t)])]
      BY <2>1, <2>2 DEF Unfolded
    <2> QED
      BY <2>3
  <1>2. PICK iter :
          /\ iter = [t \in SUBSET DOMAIN s |->
                       IF t = {} THEN base ELSE op(c, d, iter[t \ {Max(t)}], s[Max(t)])]
          /\ Fold(c, d, base, s) = iter[DOMAIN s]
    BY <1>1, Zenon DEF Fold, FoldLeft, MapThenFoldSet
  <1>3. DOMAIN s = 1 .. Len(s) /\ Len(s) \in Nat
    OBVIOUS
  <1>4. \A t \in SUBSET (1 .. Len(s)) :
           iter[t] = IF t = {} THEN base ELSE op(c, d, iter[t \ {Max(t)}], s[Max(t)])
    BY <1>2, <1>3
  <1> DEFINE f == [k \in 0 .. Len(s) |-> iter[1 .. k]]
  <1>5. f[0] = base
    <2>1. 1 .. 0 = {} /\ {} \in SUBSET (1 .. Len(s))
      OBVIOUS
    <2>2. iter[{}] = base
      BY <1>4, <2>1
    <2> QED
      BY <2>1, <2>2, <1>3
  <1>6. ASSUME NEW k \in 1 .. Len(s)
        PROVE  f[k] = op(c, d, f[k - 1], s[k])
    <2>1. 1 .. k \in SUBSET (1 .. Len(s)) /\ 1 .. k # {} /\ k - 1 \in 0 .. Len(s)
      <3>1. 1 .. k \subseteq 1 .. Len(s) /\ k - 1 \in 0 .. Len(s) /\ k \in 1 .. k
        BY <1>3
      <3> QED
        BY <3>1
    <2>2. Max(1 .. k) = k
      <3>1. k - 1 \in Nat /\ 1 .. k \in SUBSET (1 .. (k - 1) + 1) /\ (k - 1) + 1 \in 1 .. k
            /\ (k - 1) + 1 = k
        BY <1>3
      <3>2. Max(1 .. k) = (k - 1) + 1
        BY <3>1, MaxOf, Zenon
      <3> QED
        BY <3>1, <3>2
    <2>3. (1 .. k) \ {k} = 1 .. (k - 1)
      BY <1>3
    <2>4. iter[1 .. k] = op(c, d, iter[1 .. (k - 1)], s[k])
      <3>1. iter[1 .. k] = op(c, d, iter[(1 .. k) \ {Max(1 .. k)}], s[Max(1 .. k)])
        BY <1>4, <2>1
      <3> QED
        BY <3>1, <2>2, <2>3
    <2> QED
      BY <2>1, <2>4, <1>3
  <1>7. Fold(c, d, base, s) = f[Len(s)]
    BY <1>2, <1>3
  <1> HIDE DEF f
  <1>8. Run(c, d, base, s, f)
    BY <1>5, <1>6, <1>7 DEF Run
  <1> QED
    BY <1>8

\* Two runs over the same elements agree.
LEMMA RunsAgree ==
  ASSUME NEW n \in Nat, NEW f, NEW g, f[0] = g[0],
         \A k \in 1 .. n : f[k - 1] = g[k - 1] => f[k] = g[k]
  PROVE  f[n] = g[n]
  <1> DEFINE G == {k \in Nat : f[k] = g[k]}
  <1>1. 0 \in G /\ \A k \in 0 .. n - 1 : k \in G => k + 1 \in G
    <2>1. ASSUME NEW k \in 0 .. n - 1, k \in G PROVE k + 1 \in G
      <3>1. k + 1 \in 1 .. n /\ (k + 1) - 1 = k
        OBVIOUS
      <3>2. f[(k + 1) - 1] = g[(k + 1) - 1]
        BY <2>1, <3>1
      <3>3. f[k + 1] = g[k + 1]
        BY <3>1, <3>2
      <3> QED
        BY <3>1, <3>3
    <2> QED
      BY <2>1
  <1>2. \A k \in 0 .. n : k \in G
    <2> HIDE DEF G
    <2> QED
      BY <1>1, CountUp, Zenon
  <1> QED
    BY <1>2

LEMMA FoldUnfolds ==
  ASSUME NEW c, NEW d, NEW X, NEW E, NEW base \in X, NEW s \in Seq(E),
         Closed(c, d, X, E)
  PROVE  /\ Fold(c, d, base, s) \in X
         /\ Fold(c, d, base, <<>>) = base
         /\ \A e \in E : Fold(c, d, base, Append(s, e)) = op(c, d, Fold(c, d, base, s), e)
  <1>0. PICK f : Run(c, d, base, s, f)
    BY FoldRun, Zenon
  <1>1. /\ f[0] = base
        /\ \A k \in 1 .. Len(s) : f[k] = op(c, d, f[k - 1], s[k])
        /\ Fold(c, d, base, s) = f[Len(s)]
    BY <1>0 DEF Run
  <1>2. Fold(c, d, base, s) \in X
    <2> DEFINE G == {k \in Nat : f[k] \in X}
    <2>1. 0 \in G /\ Len(s) \in Nat
      BY <1>1
    <2>2. ASSUME NEW k \in 0 .. Len(s) - 1, k \in G PROVE k + 1 \in G
      <3>1. k + 1 \in 1 .. Len(s) /\ (k + 1) - 1 = k /\ s[k + 1] \in E
        BY <2>1
      <3>2. f[k + 1] = op(c, d, f[k], s[k + 1])
        BY <1>1, <3>1
      <3> QED
        BY <2>1, <2>2, <3>1, <3>2 DEF Closed
    <2>3. \A k \in 0 .. Len(s) : k \in G
      <3> HIDE DEF G
      <3> QED
        BY <2>1, <2>2, CountUp, Zenon
    <2>4. Len(s) \in G
      BY <2>1, <2>3
    <2> QED
      BY <2>4, <1>1
  <1>3. Fold(c, d, base, <<>>) = base
    <2>1. <<>> \in Seq(E) /\ Len(<<>>) = 0
      OBVIOUS
    <2>2. PICK g : Run(c, d, base, <<>>, g)
      BY <2>1, FoldRun, Zenon
    <2> QED
      BY <2>1, <2>2 DEF Run
  <1>4. ASSUME NEW e \in E
        PROVE  Fold(c, d, base, Append(s, e)) = op(c, d, Fold(c, d, base, s), e)
    <2> DEFINE t == Append(s, e)
    <2>1. /\ t \in Seq(E) /\ Len(s) \in Nat /\ Len(t) = Len(s) + 1
          /\ \A k \in 1 .. Len(s) : t[k] = s[k]
          /\ t[Len(s) + 1] = e
      OBVIOUS
    <2> HIDE DEF t
    <2>0. PICK g : Run(c, d, base, t, g)
      BY <2>1, FoldRun, Zenon
    <2>2. /\ g[0] = base
          /\ \A k \in 1 .. Len(t) : g[k] = op(c, d, g[k - 1], t[k])
          /\ Fold(c, d, base, t) = g[Len(t)]
      BY <2>0 DEF Run
    <2>3. f[Len(s)] = g[Len(s)]
      <3>1. \A k \in 1 .. Len(s) : f[k - 1] = g[k - 1] => f[k] = g[k]
        BY <1>1, <2>1, <2>2
      <3> QED
        BY <1>1, <2>1, <2>2, <3>1, RunsAgree
    <2>4. Fold(c, d, base, t) = op(c, d, g[Len(s)], e)
      BY <2>1, <2>2
    <2> QED
      BY <1>1, <2>3, <2>4 DEF t
  <1> QED
    BY <1>2, <1>3, <1>4

\* Folding with op keeps the accumulator in X; the empty sequence leaves the
\* base; one element more is one step more.
THEOREM FoldLeftUnfolds ==
  \A c, d, X, E, base, s :
     Closed(c, d, X, E) /\ base \in X /\ s \in Seq(E) => Unfolds(c, d, X, E, base, s)
  BY FoldUnfolds DEF Unfolds

\* The accumulators on the way are a function of the number of elements taken.
THEOREM FoldLeftRuns ==
  \A c, d, X, E, base, s :
     Closed(c, d, X, E) /\ base \in X /\ s \in Seq(E) => \E f : Run(c, d, base, s, f)
  BY FoldRun

=============================================================================
