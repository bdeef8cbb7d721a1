----------------------------- MODULE FoldLemmas -----------------------------
(***************************************************************************)
(* What the folds of SequencesExt compute, for an operator that is a       *)
(* parameter of the module: one application to every element, in order.    *)
(* A module that folds makes an instance for each of its operators; c is   *)
(* the context the operator is used in.                                    *)
(***************************************************************************)
EXTENDS Integers, Folds, WellFoundedInduction, TLAPS

CONSTANT Op(_, _, _)

\* Max and Min of FiniteSetsExt, FoldLeft and FoldRight of SequencesExt.  (Those
\* modules are not extended: an instance would bring a copy of all they define.)
Greatest(S) == CHOOSE x \in S : \A y \in S : x >= y
Least(S) == CHOOSE x \in S : \A y \in S : x =< y

LeftFold(c, base, seq) ==
    MapThenFoldSet(LAMBDA x, s : Op(c, s, x), base, LAMBDA i : seq[i], Greatest, DOMAIN seq)
RightFold(c, base, seq) ==
    MapThenFoldSet(LAMBDA x, s : Op(c, s, x), base, LAMBDA i : seq[i], Least, DOMAIN seq)

\* The states st that a fold goes through: from base, by one application to each
\* of the n elements, first to last or last to first.
LeftSteps(c, base, n, seq, st) ==
    /\ st[0] = base
    /\ \A i \in 1 .. n : st[i] = Op(c, st[i - 1], seq[i])
    /\ LeftFold(c, base, seq) = st[n]
RightSteps(c, base, n, seq, st) ==
    /\ st[n] = base
    /\ \A i \in 1 .. n : st[i - 1] = Op(c, st[i], seq[i])
    /\ RightFold(c, base, seq) = st[0]

-----------------------------------------------------------------------------
(* Induction *)

\* A set of numbers has a least one.
LEMMA LeastOf ==
    ASSUME NEW S \in SUBSET Nat, S # {}
    PROVE  \E m \in S : \A k \in S : m <= k
  <1> DEFINE R == OpToRel(<, Nat)
  <1>1. IsWellFoundedOn(R, Nat)
    BY NatLessThanWellFounded
  <1>2. \A m, k \in Nat : <<k, m>> \notin R => m <= k
    BY DEF OpToRel
  <1> HIDE DEF R
  <1>3. \E m \in S : \A k \in S : <<k, m>> \notin R
    BY <1>1, WFMin
  <1>. QED  BY <1>2, <1>3

\* Induction over the numbers up to n, with the set of those for which the
\* statement holds in place of the statement.
THEOREM Induction ==
    ASSUME NEW n \in Nat, NEW S, 0 \in S, \A i \in 0 .. n - 1 : i \in S => i + 1 \in S
    PROVE  \A i \in 0 .. n : i \in S
  <1> DEFINE Out == {i \in 0 .. n : i \notin S}
  <1> SUFFICES ASSUME Out # {} PROVE FALSE
    OBVIOUS
  <1>1. Out \in SUBSET Nat
    OBVIOUS
  <1>2. PICK m \in Out : \A k \in Out : m <= k
    BY <1>1, LeastOf, Zenon
  <1>3. m \in 1 .. n /\ m - 1 \notin Out
    BY <1>2
  <1>4. m - 1 \in 0 .. n - 1 /\ m - 1 \in S /\ m = (m - 1) + 1
    BY <1>3
  <1>. QED  BY <1>2, <1>4

\* The same downwards.
THEOREM InductionDown ==
    ASSUME NEW n \in Nat, NEW S, n \in S, \A i \in 1 .. n : i \in S => i - 1 \in S
    PROVE  \A i \in 0 .. n : i \in S
  <1> DEFINE T == {k \in 0 .. n : n - k \in S}
  <1>1. 0 \in T
    OBVIOUS
  <1>2. ASSUME NEW k \in 0 .. n - 1, k \in T PROVE k + 1 \in T
    <2>1. n - k \in 1 .. n /\ n - k \in S /\ (n - k) - 1 = n - (k + 1) /\ k + 1 \in 0 .. n
      BY <1>2
    <2>. QED  BY <2>1
  <1> HIDE DEF T
  <1>3. \A k \in 0 .. n : k \in T
    BY <1>1, <1>2, Induction, Zenon
  <1>4. ASSUME NEW i \in 0 .. n PROVE i \in S
    <2>1. n - i \in 0 .. n /\ n - (n - i) = i
      OBVIOUS
    <2>. QED  BY <1>3, <2>1 DEF T
  <1>. QED  BY <1>4

-----------------------------------------------------------------------------
(* The greatest and the least element *)

\* Greatest is the greatest element of a set of numbers up to n.
LEMMA MaxOf ==
    ASSUME NEW n \in Nat, NEW s \in SUBSET (1 .. n), s # {}
    PROVE  /\ Greatest(s) \in s /\ \A x \in s : x <= Greatest(s)
  <1> DEFINE T == {n - x : x \in s}
  <1>1. T \in SUBSET Nat /\ T # {}
    <2>1. \A x \in s : n - x \in Nat
      OBVIOUS
    <2>. QED  BY <2>1
  <1>2. PICK m \in T : \A k \in T : m <= k
    BY <1>1, LeastOf, Zenon
  <1>3. PICK x \in s : m = n - x
    BY <1>2
  <1>4. \A y \in s : x >= y
    <2>1. ASSUME NEW y \in s PROVE x >= y
      <3>1. n - y \in T
        OBVIOUS
      <3>2. n - x <= n - y
        BY <1>2, <1>3, <3>1
      <3>. QED  BY <3>2
    <2>. QED  BY <2>1
  <1> HIDE DEF T
  <1>5. \A y \in s : Greatest(s) >= y
    BY <1>4, Zenon DEF Greatest
  <1>6. Greatest(s) \in s
    BY <1>4, Zenon DEF Greatest
  <1>. QED  BY <1>5, <1>6

\* Least is the least element of a set of numbers.
LEMMA MinOf ==
    ASSUME NEW n \in Nat, NEW s \in SUBSET (1 .. n), s # {}
    PROVE  Least(s) \in s /\ \A x \in s : Least(s) <= x
  <1>1. s \in SUBSET Nat
    OBVIOUS
  <1>2. \E m \in s : \A k \in s : m =< k
    BY <1>1, LeastOf
  <1>. QED  BY <1>2, Zenon DEF Least

-----------------------------------------------------------------------------
(* Folds *)

\* FoldLeft goes through its steps, first to last.
THEOREM FoldLeftSteps ==
    ASSUME NEW c, NEW base, NEW n \in Nat, NEW seq, DOMAIN seq = 1 .. n
    PROVE  \E st : LeftSteps(c, base, n, seq, st)
  <1> DEFINE Iter(k, g) == g = [s \in SUBSET (1 .. k) |->
                                  IF s = {} THEN base
                                  ELSE Op(c, g[s \ {Greatest(s)}], seq[Greatest(s)])]
             S == {k \in 0 .. n : \E g : Iter(k, g)}
  <1>1. 0 \in S
    <2> DEFINE g == [s \in SUBSET (1 .. 0) |-> base]
    <2>1. Iter(0, g)
      <3>1. \A s \in SUBSET (1 .. 0) : s = {}
        OBVIOUS
      <3>. QED  BY <3>1
    <2>2. 0 \in 0 .. n
      OBVIOUS
    <2>. QED  BY <2>1, <2>2, Zenon
  <1>2. ASSUME NEW k \in 0 .. n - 1, k \in S PROVE k + 1 \in S
    <2>1. PICK g : Iter(k, g)
      BY <1>2
    <2> DEFINE h == [s \in SUBSET (1 .. k + 1) |->
                        IF s = {} THEN base ELSE Op(c, g[s \ {Greatest(s)}], seq[Greatest(s)])]
    <2>2. \A u \in SUBSET (1 .. k) : h[u] = g[u]
      <3>1. \A u \in SUBSET (1 .. k) : u \in SUBSET (1 .. k + 1)
        OBVIOUS
      <3>. QED  BY <2>1, <3>1, Zenon
    <2>3. \A s \in SUBSET (1 .. k + 1) : s # {} => s \ {Greatest(s)} \in SUBSET (1 .. k)
      <3> SUFFICES ASSUME NEW s \in SUBSET (1 .. k + 1), s # {}
                   PROVE  s \ {Greatest(s)} \in SUBSET (1 .. k)
        OBVIOUS
      <3>1. k + 1 \in Nat
        OBVIOUS
      <3>2. Greatest(s) \in s /\ \A x \in s : x <= Greatest(s)
        BY <3>1, MaxOf, Zenon
      <3>3. ASSUME NEW x \in s, x # Greatest(s) PROVE x \in 1 .. k
        <4>1. x \in 1 .. k + 1 /\ Greatest(s) \in 1 .. k + 1 /\ x <= Greatest(s)
          BY <3>2, Zenon
        <4>. QED  BY <3>3, <4>1
      <3>. QED  BY <3>3
    <2>4. Iter(k + 1, h)
      BY <2>2, <2>3, Zenon
    <2>5. k + 1 \in 0 .. n
      OBVIOUS
    <2>. QED  BY <2>4, <2>5, Zenon
  <1>3. \E g : Iter(n, g)
    <2> HIDE DEF S, Iter
    <2>1. \A k \in 0 .. n : k \in S
      BY <1>1, <1>2, Induction, Zenon
    <2>. QED  BY <2>1 DEF S
  <1> DEFINE iter == CHOOSE g : Iter(n, g)
             st == [i \in 0 .. n |-> iter[1 .. i]]
  <1>4. Iter(n, iter)
    BY <1>3, Zenon
  <1>5. LeftFold(c, base, seq) = iter[1 .. n]
    BY DEF LeftFold, MapThenFoldSet
  <1> HIDE DEF iter
  <1>6. st[0] = base
    <2>1. 1 .. 0 = {} /\ 1 .. 0 \in SUBSET (1 .. n)
      OBVIOUS
    <2>. QED  BY <1>4, <2>1
  <1>7. ASSUME NEW i \in 1 .. n PROVE st[i] = Op(c, st[i - 1], seq[i])
    <2>1. 1 .. i \in SUBSET (1 .. n) /\ 1 .. i # {} /\ i \in 1 .. i
      OBVIOUS
    <2>2. Greatest(1 .. i) = i
      <3>1. Greatest(1 .. i) \in 1 .. i /\ \A x \in 1 .. i : x <= Greatest(1 .. i)
        BY <2>1, MaxOf, Zenon
      <3>. QED  BY <2>1, <3>1
    <2>3. (1 .. i) \ {i} = 1 .. i - 1 /\ i \in 0 .. n /\ i - 1 \in 0 .. n
      OBVIOUS
    <2>4. iter[1 .. i] = Op(c, iter[(1 .. i) \ {Greatest(1 .. i)}], seq[Greatest(1 .. i)])
      BY <1>4, <2>1, Zenon
    <2>. QED  BY <2>2, <2>3, <2>4
  <1>8. LeftFold(c, base, seq) = st[n]
    BY <1>5
  <1> HIDE DEF st
  <1>. QED  BY <1>6, <1>7, <1>8, Zenon DEF LeftSteps

\* FoldRight goes through its steps, last to first.
THEOREM FoldRightSteps ==
    ASSUME NEW c, NEW base, NEW n \in Nat, NEW seq, DOMAIN seq = 1 .. n
    PROVE  \E st : RightSteps(c, base, n, seq, st)
  <1> DEFINE Iter(k, g) == g = [s \in SUBSET (k + 1 .. n) |->
                                  IF s = {} THEN base
                                  ELSE Op(c, g[s \ {Least(s)}], seq[Least(s)])]
             S == {k \in 0 .. n : \E g : Iter(k, g)}
  <1>1. n \in S
    <2> DEFINE g == [s \in SUBSET (n + 1 .. n) |-> base]
    <2>1. Iter(n, g)
      <3>1. \A s \in SUBSET (n + 1 .. n) : s = {}
        OBVIOUS
      <3>. QED  BY <3>1
    <2>2. n \in 0 .. n
      OBVIOUS
    <2>. QED  BY <2>1, <2>2, Zenon
  <1>2. ASSUME NEW k \in 1 .. n, k \in S PROVE k - 1 \in S
    <2>1. PICK g : Iter(k, g)
      BY <1>2
    <2> DEFINE h == [s \in SUBSET ((k - 1) + 1 .. n) |->
                        IF s = {} THEN base ELSE Op(c, g[s \ {Least(s)}], seq[Least(s)])]
    <2>2. \A u \in SUBSET (k + 1 .. n) : h[u] = g[u]
      <3>1. \A u \in SUBSET (k + 1 .. n) : u \in SUBSET ((k - 1) + 1 .. n)
        OBVIOUS
      <3>. QED  BY <2>1, <3>1, Zenon
    <2>3. \A s \in SUBSET ((k - 1) + 1 .. n) : s # {} => s \ {Least(s)} \in SUBSET (k + 1 .. n)
      <3>1. \A s \in SUBSET ((k - 1) + 1 .. n) : s \in SUBSET (1 .. n)
        OBVIOUS
      <3> SUFFICES ASSUME NEW s \in SUBSET ((k - 1) + 1 .. n), s # {}
                   PROVE  s \ {Least(s)} \in SUBSET (k + 1 .. n)
        OBVIOUS
      <3>2. Least(s) \in s /\ \A x \in s : Least(s) <= x
        BY <3>1, MinOf, Zenon
      <3>3. ASSUME NEW x \in s, x # Least(s) PROVE x \in k + 1 .. n
        <4>1. /\ x \in (k - 1) + 1 .. n /\ Least(s) \in (k - 1) + 1 .. n
              /\ Least(s) <= x
          BY <3>2, Zenon
        <4>. QED  BY <3>3, <4>1
      <3>. QED  BY <3>3
    <2>4. Iter(k - 1, h)
      BY <2>2, <2>3, Zenon
    <2>5. k - 1 \in 0 .. n
      OBVIOUS
    <2>. QED  BY <2>4, <2>5, Zenon
  <1>3. \E g : Iter(0, g)
    <2> HIDE DEF S, Iter
    <2>1. \A k \in 0 .. n : k \in S
      BY <1>1, <1>2, InductionDown, Zenon
    <2>. QED  BY <2>1 DEF S
  <1> DEFINE Whole(g) == g = [s \in SUBSET (1 .. n) |->
                                IF s = {} THEN base
                                ELSE Op(c, g[s \ {Least(s)}], seq[Least(s)])]
             iter == CHOOSE g : Whole(g)
             st == [i \in 0 .. n |-> iter[i + 1 .. n]]
  <1>4. Whole(iter)
    <2>1. 0 + 1 = 1
      OBVIOUS
    <2>2. \E g : Whole(g)
      BY <1>3, <2>1
    <2>. QED  BY <2>2, Zenon
  <1>5. RightFold(c, base, seq) = iter[1 .. n]
    BY DEF RightFold, MapThenFoldSet
  <1> HIDE DEF iter
  <1>6. st[n] = base
    <2>1. n + 1 .. n = {} /\ n + 1 .. n \in SUBSET (1 .. n)
      OBVIOUS
    <2>. QED  BY <1>4, <2>1
  <1>7. ASSUME NEW i \in 1 .. n PROVE st[i - 1] = Op(c, st[i], seq[i])
    <2>1. i .. n \in SUBSET (1 .. n) /\ i .. n # {} /\ i \in i .. n
      OBVIOUS
    <2>2. Least(i .. n) = i
      <3>1. Least(i .. n) \in i .. n /\ \A x \in i .. n : Least(i .. n) <= x
        BY <2>1, MinOf, Zenon
      <3>. QED  BY <2>1, <3>1
    <2>3. (i .. n) \ {i} = i + 1 .. n /\ i \in 0 .. n /\ i - 1 \in 0 .. n /\ (i - 1) + 1 = i
      OBVIOUS
    <2>4. iter[i .. n] = Op(c, iter[(i .. n) \ {Least(i .. n)}], seq[Least(i .. n)])
      BY <1>4, <2>1, Zenon
    <2>. QED  BY <2>2, <2>3, <2>4
  <1>8. RightFold(c, base, seq) = st[0]
    BY <1>5
  <1> HIDE DEF st
  <1>. QED  BY <1>6, <1>7, <1>8, Zenon DEF RightSteps

\* What every application keeps, the fold keeps.
THEOREM FoldLeftKeeps ==
    ASSUME NEW c, NEW base, NEW n \in Nat, NEW seq, DOMAIN seq = 1 .. n,
           NEW I, base \in I,
           \A s \in I, i \in 1 .. n : Op(c, s, seq[i]) \in I
    PROVE  LeftFold(c, base, seq) \in I
  <1>1. PICK st : LeftSteps(c, base, n, seq, st)
    BY FoldLeftSteps, Zenon
  <1> DEFINE S == {i \in 0 .. n : st[i] \in I}
  <1>2. 0 \in S
    BY <1>1 DEF LeftSteps
  <1>3. ASSUME NEW i \in 0 .. n - 1, i \in S PROVE i + 1 \in S
    <2>1. i + 1 \in 1 .. n /\ i + 1 \in 0 .. n /\ (i + 1) - 1 = i
      OBVIOUS
    <2>2. st[i + 1] = Op(c, st[i], seq[i + 1])
      BY <1>1, <2>1 DEF LeftSteps
    <2>. QED  BY <1>3, <2>1, <2>2
  <1> HIDE DEF S
  <1>4. \A i \in 0 .. n : i \in S
    BY <1>2, <1>3, Induction, Zenon
  <1>. QED  BY <1>1, <1>4 DEF S, LeftSteps
=============================================================================
