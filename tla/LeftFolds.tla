----------------------------- MODULE LeftFolds ------------------------------
(***************************************************************************)
(* What a left fold over a sequence computes, and how to reason about it   *)
(* by induction, for an operator Op and a start value Base that may depend *)
(* on an environment e.  The module is instantiated once for every fold    *)
(* that a proof is about: the provers cannot instantiate the operator of a *)
(* theorem, but an INSTANCE substitutes it beforehand.                     *)
(***************************************************************************)
EXTENDS Integers, SequencesExt, WellFoundedInduction, TLAPS

CONSTANTS Op(_, _, _),    \* the value so far, an element, the environment
          Base(_),        \* the value of an empty sequence
          Holds(_, _, _)  \* environment, sequence, value: what is to be shown

Fold(e, s) == FoldLeft(LAMBDA a, x : Op(a, x, e), Base(e), s)

\* FoldLeft is computed by a recursive function on sets of indices, of which it takes the
\* greatest first.
Folds(e, s, D, iter) ==
    iter = [t \in SUBSET D |-> IF t = {} THEN Base(e)
                               ELSE Op(iter[t \ {Max(t)}], s[Max(t)], e)]

LEMMA SmallestOfNats ==
  ASSUME NEW S \in SUBSET Nat, S # {}
  PROVE  \E m \in S : \A k \in S : m <= k
  <1>1. PICK m \in S : \A k \in S : <<k, m>> \notin OpToRel(<, Nat)
    BY NatLessThanWellFounded, WFMin
  <1>2. \A k \in S : ~(k < m)
    BY <1>1 DEF OpToRel
  <1>3. QED
    BY <1>2

LEMMA MaxOfInterval ==
  ASSUME NEW n \in Nat, NEW t \in SUBSET (1 .. n + 1), n + 1 \in t
  PROVE  Max(t) = n + 1
  <1>1. \A y \in t : n + 1 >= y
    OBVIOUS
  <1>2. \A x \in t : (\A y \in t : x >= y) => x = n + 1
    OBVIOUS
  <1>3. (n + 1 \in t /\ \A y \in t : n + 1 >= y) => Max(t) \in t /\ \A y \in t : Max(t) >= y
    BY DEF Max
  <1>4. QED
    BY <1>1, <1>2, <1>3

LEMMA FoldsExists ==
  ASSUME NEW e, NEW s, NEW n \in Nat
  PROVE  \E iter : Folds(e, s, 1 .. n, iter)
  <1> DEFINE P(k) == \E iter : Folds(e, s, 1 .. k, iter)
             B == {k \in Nat : ~P(k)}
  <1> SUFFICES ASSUME ~P(n) PROVE FALSE
    OBVIOUS
  <1>1. B \in SUBSET Nat /\ B # {}
    OBVIOUS
  <1>2. PICK m \in B : \A k \in B : m <= k
    <2> HIDE DEF B
    <2> QED BY <1>1, SmallestOfNats
  <1>3. m # 0
    <2>1. Folds(e, s, 1 .. 0, [t \in SUBSET (1 .. 0) |-> Base(e)])
      <3>1. \A t \in SUBSET (1 .. 0) : t = {}
        OBVIOUS
      <3>2. QED
        BY <3>1 DEF Folds
    <2>2. P(0)
      BY <2>1
    <2>3. QED
      BY <2>2
  <1>4. m - 1 \in Nat /\ m - 1 \notin B
    BY <1>2, <1>3
  <1>5. PICK h : Folds(e, s, 1 .. m - 1, h)
    BY <1>4
  <1> DEFINE g == [t \in SUBSET (1 .. m) |->
                      IF m \in t THEN Op(h[t \ {m}], s[m], e) ELSE h[t]]
  <1>6. ASSUME NEW t \in SUBSET (1 .. m)
        PROVE  g[t] = IF t = {} THEN Base(e) ELSE Op(g[t \ {Max(t)}], s[Max(t)], e)
    <2>1. CASE m \in t
      <3>1. Max(t) = m
        BY <2>1, <1>4, MaxOfInterval
      <3>2. t \ {m} \in SUBSET (1 .. m) /\ m \notin t \ {m}
        OBVIOUS
      <3>3. g[t \ {m}] = h[t \ {m}]
        BY <3>2
      <3>4. g[t] = Op(h[t \ {m}], s[m], e)
        BY <2>1
      <3>5. t # {}
        BY <2>1
      <3> HIDE DEF g
      <3>6. QED
        BY <3>1, <3>3, <3>4, <3>5
    <2>2. CASE m \notin t
      <3>1. t \in SUBSET (1 .. m - 1)
        BY <2>2, <1>4
      <3>2. h[t] = IF t = {} THEN Base(e) ELSE Op(h[t \ {Max(t)}], s[Max(t)], e)
        BY <3>1, <1>5 DEF Folds
      <3>3. t \ {Max(t)} \in SUBSET (1 .. m) /\ m \notin t \ {Max(t)}
        BY <2>2
      <3>4. g[t] = h[t] /\ g[t \ {Max(t)}] = h[t \ {Max(t)}]
        BY <3>3, <2>2
      <3> HIDE DEF g
      <3>5. QED
        BY <3>2, <3>4
    <2>3. QED
      BY <2>1, <2>2
  <1>7. Folds(e, s, 1 .. m, g)
    <2>1. g = [t \in SUBSET (1 .. m) |-> g[t]]
      OBVIOUS
    <2> HIDE DEF g
    <2>2. QED
      BY <2>1, <1>6 DEF Folds
  <1>8. QED
    BY <1>2, <1>7

\* Two such functions over sequences with the same first n elements have the same
\* value at 1 .. n.
LEMMA FoldsAgree ==
  ASSUME NEW e, NEW s, NEW r, NEW g, NEW h, NEW i \in Nat, NEW j \in Nat,
         Folds(e, s, 1 .. i, g), Folds(e, r, 1 .. j, h),
         NEW n \in Nat, n <= i, n <= j, \A k \in 1 .. n : s[k] = r[k]
  PROVE  g[1 .. n] = h[1 .. n]
  <1> DEFINE B == {k \in 0 .. n : g[1 .. k] # h[1 .. k]}
  <1> SUFFICES ASSUME B # {} PROVE FALSE
    OBVIOUS
  <1>1. B \in SUBSET Nat
    OBVIOUS
  <1>2. PICK m \in B : \A k \in B : m <= k
    <2> HIDE DEF B
    <2> QED BY <1>1, SmallestOfNats
  <1>3. 1 .. m \in SUBSET (1 .. i) /\ 1 .. m \in SUBSET (1 .. j)
    BY <1>2
  <1>4. CASE m = 0
    <2>1. 1 .. m = {}
      BY <1>4
    <2>2. g[1 .. m] = Base(e) /\ h[1 .. m] = Base(e)
      BY <1>3, <2>1 DEF Folds
    <2>3. QED
      BY <2>2, <1>2
  <1>5. CASE m # 0
    <2>1. m - 1 \in Nat /\ m \in 1 .. m /\ 1 .. m # {}
      BY <1>5, <1>2
    <2>2. Max(1 .. m) = m
      BY <2>1, MaxOfInterval
    <2>3. (1 .. m) \ {m} = 1 .. m - 1
      BY <2>1
    <2>4. g[1 .. m] = Op(g[1 .. m - 1], s[m], e) /\ h[1 .. m] = Op(h[1 .. m - 1], r[m], e)
      BY <1>3, <2>1, <2>2, <2>3 DEF Folds
    <2>5. g[1 .. m - 1] = h[1 .. m - 1]
      BY <1>2, <2>1
    <2>6. s[m] = r[m]
      BY <2>1, <1>2
    <2>7. QED
      BY <2>4, <2>5, <2>6, <1>2
  <1>6. QED
    BY <1>4, <1>5

LEMMA FoldIs ==
  ASSUME NEW e, NEW S, NEW s \in Seq(S)
  PROVE  \E iter : Folds(e, s, 1 .. Len(s), iter) /\ Fold(e, s) = iter[1 .. Len(s)]
  <1> DEFINE iter == CHOOSE h : Folds(e, s, DOMAIN s, h)
  <1>1. DOMAIN s = 1 .. Len(s) /\ Len(s) \in Nat
    OBVIOUS
  <1>2. Fold(e, s) = iter[DOMAIN s]
    BY DEF Fold, FoldLeft, MapThenFoldSet, Folds
  <1>3. Folds(e, s, DOMAIN s, iter)
    BY <1>1, FoldsExists
  <1>4. QED
    BY <1>1, <1>2, <1>3

\* A fold starts from Base and takes one element after the other.
THEOREM FoldOfEmpty == \A e : Fold(e, <<>>) = Base(e)
  <1> SUFFICES ASSUME NEW e PROVE Fold(e, <<>>) = Base(e)
    OBVIOUS
  <1>1. <<>> \in Seq({}) /\ Len(<<>>) = 0
    OBVIOUS
  <1>2. PICK iter : Folds(e, <<>>, 1 .. 0, iter) /\ Fold(e, <<>>) = iter[1 .. 0]
    BY <1>1, FoldIs
  <1>3. 1 .. 0 = {}
    OBVIOUS
  <1>4. QED
    BY <1>2, <1>3 DEF Folds

\* The fold of a longer sequence.
THEOREM FoldOfAppend ==
  ASSUME NEW e, NEW S, NEW s \in Seq(S), NEW x \in S
  PROVE  Fold(e, Append(s, x)) = Op(Fold(e, s), x, e)
  <1> DEFINE r == Append(s, x)
             n == Len(s)
  <1>1. r \in Seq(S) /\ Len(r) = n + 1 /\ n \in Nat /\ r[n + 1] = x
        /\ \A k \in 1 .. n : s[k] = r[k]
    OBVIOUS
  <1> HIDE DEF r
  <1>2. PICK g : Folds(e, s, 1 .. n, g) /\ Fold(e, s) = g[1 .. n]
    BY FoldIs
  <1>3. PICK h : Folds(e, r, 1 .. n + 1, h) /\ Fold(e, r) = h[1 .. n + 1]
    BY <1>1, FoldIs
  <1> HIDE DEF n
  <1>4. g[1 .. n] = h[1 .. n]
    <2>1. n + 1 \in Nat /\ n <= n /\ n <= n + 1
      BY <1>1
    <2>2. QED
      BY <1>1, <1>2, <1>3, <2>1, FoldsAgree
  <1>5. Max(1 .. n + 1) = n + 1 /\ 1 .. n + 1 # {} /\ (1 .. n + 1) \ {n + 1} = 1 .. n
    BY <1>1, MaxOfInterval
  <1>6. h[1 .. n + 1] = Op(h[1 .. n], r[n + 1], e)
    BY <1>3, <1>5 DEF Folds
  <1>7. QED
    BY <1>1, <1>2, <1>3, <1>4, <1>6 DEF r

\* What holds of the start and stays true with each element holds of the whole fold.
THEOREM FoldInduction ==
  ASSUME NEW e, NEW S, Holds(e, <<>>, Base(e)),
         \A t \in Seq(S), x \in S :
             Holds(e, t, Fold(e, t)) => Holds(e, Append(t, x), Op(Fold(e, t), x, e))
  PROVE  \A s \in Seq(S) : Holds(e, s, Fold(e, s))
  <1> DEFINE Bad == {n \in Nat : \E s \in Seq(S) : Len(s) = n /\ ~Holds(e, s, Fold(e, s))}
  <1> SUFFICES ASSUME NEW s \in Seq(S), ~Holds(e, s, Fold(e, s)) PROVE FALSE
    OBVIOUS
  <1>1. Bad \in SUBSET Nat /\ Len(s) \in Bad
    OBVIOUS
  <1>2. PICK m \in Bad : \A k \in Bad : m <= k
    <2> HIDE DEF Bad
    <2> QED BY <1>1, SmallestOfNats
  <1>3. PICK r \in Seq(S) : Len(r) = m /\ ~Holds(e, r, Fold(e, r))
    BY <1>2
  <1>4. CASE m = 0
    <2>1. r = <<>>
      BY <1>3, <1>4
    <2>2. Fold(e, r) = Base(e)
      BY <2>1, FoldOfEmpty
    <2>3. QED
      BY <1>3, <2>1, <2>2
  <1>5. CASE m # 0
    <2> DEFINE t == SubSeq(r, 1, m - 1)
               x == r[m]
    <2>1. t \in Seq(S) /\ x \in S /\ Len(t) = m - 1 /\ r = Append(t, x) /\ m - 1 \in Nat
      BY <1>3, <1>5
    <2> HIDE DEF t, x
    <2>2. Holds(e, t, Fold(e, t))
      BY <2>1, <1>2
    <2>3. Fold(e, r) = Op(Fold(e, t), x, e)
      BY <2>1, FoldOfAppend
    <2>4. QED
      BY <1>3, <2>1, <2>2, <2>3
  <1>6. QED
    BY <1>4, <1>5
=============================================================================
