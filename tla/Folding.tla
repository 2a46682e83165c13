------------------------------- MODULE Folding -------------------------------
(***************************************************************************)
(* Induction along a fold, and along the natural numbers, for operators    *)
(* that are given when the module is instantiated: op is one step of a     *)
(* fold of a sequence, Inv what holds after the first k of its elements.   *)
(* Both may depend on three more arguments, which stay the same.           *)
(***************************************************************************)
EXTENDS Integers, SequencesExt, WellFoundedInduction, TLAPS

CONSTANTS op(_, _, _, _, _), Inv(_, _, _, _, _)

\* The fold the theorem is about.
Folded(a, b, c, base, seq) == FoldLeft(LAMBDA v, x : op(a, b, c, v, x), base, seq)

\* A set of natural numbers has a least element.
LEMMA Least ==
  ASSUME NEW T \in SUBSET Nat, T # {}
  PROVE  \E x \in T : \A y \in T : x <= y
  <1>. DEFINE R == {ss \in Nat \X Nat : ss[1] < ss[2]}
  <1>1. IsWellFoundedOn(R, Nat)
    BY NatLessThanWellFounded DEF OpToRel
  <1>. HIDE DEF R
  <1>2. PICK x \in T : \A y \in T : <<y, x>> \notin R
    BY <1>1, WFMin
  <1>3. ASSUME NEW y \in T PROVE x <= y
    <2>1. <<y, x>> \notin R
      BY <1>2
    <2>. QED  BY <2>1 DEF R
  <1>. QED  BY <1>3

\* A set of natural numbers that holds zero and what follows each of its
\* elements holds all of them.
LEMMA SetInduction ==
  ASSUME NEW T, 0 \in T, \A n \in Nat : n \in T => n + 1 \in T
  PROVE  Nat \subseteq T
  <1>. DEFINE U == Nat \ T
  <1>1. SUFFICES ASSUME U # {} PROVE FALSE
    OBVIOUS
  <1>2. PICK x \in U : \A y \in U : x <= y
    <2>1. U \in SUBSET Nat
      OBVIOUS
    <2>. HIDE DEF U
    <2>. QED  BY <1>1, <2>1, Least
  <1>3. x \in Nat \ {0} /\ x - 1 \in Nat
    OBVIOUS
  <1>4. x - 1 \in T
    BY <1>2, <1>3
  <1>. QED  BY <1>3, <1>4

\* A finite interval that begins at 1 has the maxima a fold goes by.
LEMMA MaxOfInterval ==
  ASSUME NEW k \in Nat, NEW s \in SUBSET (1 .. k), s # {}
  PROVE  Max(s) \in s /\ \A y \in s : Max(s) >= y
  <1>. DEFINE T == {k - x : x \in s}
  <1>1. PICK m \in T : \A y \in T : m <= y
    <2>1. \A x \in s : k - x \in Nat
      OBVIOUS
    <2>2. T \in SUBSET Nat /\ T # {}
      BY <2>1
    <2>. HIDE DEF T
    <2>. QED  BY <2>2, Least
  <1>2. PICK x \in s : m = k - x
    BY <1>1
  <1>3. ASSUME NEW y \in s PROVE x >= y
    <2>1. m <= k - y
      BY <1>1
    <2>. QED  BY <1>2, <2>1
  <1>. QED  BY <1>3 DEF Max

\* The function a fold is defined with, on the subsets of 1 .. k.
Iterates(a, b, c, base, seq, k, g) ==
  g = [s \in SUBSET (1 .. k) |-> IF s = {} THEN base ELSE op(a, b, c, g[s \ {Max(s)}], seq[Max(s)])]

\* There is such a function for every k.
LEMMA IteratesExists ==
  ASSUME NEW a, NEW b, NEW c, NEW base, NEW seq
  PROVE  \A k \in Nat : \E g : Iterates(a, b, c, base, seq, k, g)
  <1>. DEFINE T == {k \in Nat : \E g : Iterates(a, b, c, base, seq, k, g)}
  <1>1. 0 \in T
    <2>. DEFINE g0 == [s \in SUBSET (1 .. 0) |-> base]
    <2>1. SUBSET (1 .. 0) = {{}}
      OBVIOUS
    <2>2. g0 = [s \in SUBSET (1 .. 0) |-> IF s = {} THEN base ELSE op(a, b, c, g0[s \ {Max(s)}], seq[Max(s)])]
      BY <2>1
    <2>. QED  BY <2>2 DEF Iterates
  <1>2. ASSUME NEW k \in Nat, k \in T PROVE k + 1 \in T
    <2>1. PICK g : Iterates(a, b, c, base, seq, k, g)
      BY <1>2
    <2>. DEFINE next == [s \in SUBSET (1 .. k + 1) |->
                           IF k + 1 \in s THEN op(a, b, c, g[s \ {k + 1}], seq[k + 1]) ELSE g[s]]
    <2>2. ASSUME NEW s \in SUBSET (1 .. k + 1)
          PROVE  next[s] = IF s = {} THEN base ELSE op(a, b, c, next[s \ {Max(s)}], seq[Max(s)])
      <3>1. CASE k + 1 \in s
        <4>1. Max(s) = k + 1
          <5>1. k + 1 \in Nat /\ s # {}
            BY <3>1
          <5>2. Max(s) \in s /\ Max(s) >= k + 1
            BY <3>1, <5>1, MaxOfInterval
          <5>3. Max(s) \in 1 .. k + 1
            BY <5>2
          <5>. QED  BY <5>2, <5>3
        <4>2. s \ {k + 1} \in SUBSET (1 .. k + 1) /\ k + 1 \notin s \ {k + 1}
          OBVIOUS
        <4>3. next[s \ {k + 1}] = g[s \ {k + 1}]
          BY <4>2
        <4>. QED  BY <3>1, <4>1, <4>3
      <3>2. CASE k + 1 \notin s
        <4>1. s \in SUBSET (1 .. k)
          BY <3>2
        <4>2. g[s] = IF s = {} THEN base ELSE op(a, b, c, g[s \ {Max(s)}], seq[Max(s)])
          BY <2>1, <4>1, Zenon DEF Iterates
        <4>3. s \ {Max(s)} \in SUBSET (1 .. k + 1) /\ k + 1 \notin s \ {Max(s)}
          BY <3>2
        <4>4. next[s \ {Max(s)}] = g[s \ {Max(s)}] /\ next[s] = g[s]
          BY <3>2, <4>3
        <4>. QED  BY <4>2, <4>4
      <3>. QED  BY <3>1, <3>2
    <2>3. Iterates(a, b, c, base, seq, k + 1, next)
      <3>1. next = [s \in SUBSET (1 .. k + 1) |-> next[s]]
        OBVIOUS
      <3>. HIDE DEF next
      <3>. QED  BY <2>2, <3>1, Zenon DEF Iterates
    <2>. QED  BY <2>3
  <1>3. Nat \subseteq T
    <2>. HIDE DEF T
    <2>. QED  BY <1>1, <1>2, SetInduction
  <1>. QED  BY <1>3

\* What holds at the start of a fold and survives each of its steps holds of
\* its result.
THEOREM FoldKeeps ==
  ASSUME NEW a, NEW b, NEW c, NEW base, NEW seq, NEW n \in Nat, DOMAIN seq = 1 .. n,
         Inv(a, b, c, 0, base),
         \A k \in 1 .. n : \A v : Inv(a, b, c, k - 1, v) => Inv(a, b, c, k, op(a, b, c, v, seq[k]))
  PROVE  Inv(a, b, c, n, Folded(a, b, c, base, seq))
  <1>. DEFINE iter == CHOOSE g : Iterates(a, b, c, base, seq, n, g)
  <1>1. Folded(a, b, c, base, seq) = iter[1 .. n]
    BY Zenon DEF Folded, FoldLeft, MapThenFoldSet, Iterates
  <1>2. Iterates(a, b, c, base, seq, n, iter)
    BY IteratesExists, Zenon
  <1>. HIDE DEF iter
  <1>3. \A s \in SUBSET (1 .. n) :
          iter[s] = IF s = {} THEN base ELSE op(a, b, c, iter[s \ {Max(s)}], seq[Max(s)])
    BY <1>2, Zenon DEF Iterates
  <1>. DEFINE T == {k \in Nat : k <= n => Inv(a, b, c, k, iter[1 .. k])}
  <1>4. 0 \in T
    <2>1. 1 .. 0 = {} /\ {} \in SUBSET (1 .. n)
      OBVIOUS
    <2>2. iter[1 .. 0] = base
      BY <1>3, <2>1
    <2>. QED  BY <2>2
  <1>5. ASSUME NEW k \in Nat, k \in T PROVE k + 1 \in T
    <2>. SUFFICES ASSUME k + 1 <= n PROVE Inv(a, b, c, k + 1, iter[1 .. k + 1])
      OBVIOUS
    <2>1. Inv(a, b, c, k, iter[1 .. k])
      BY <1>5
    <2>2. k + 1 \in 1 .. k + 1 /\ 1 .. k + 1 \in SUBSET (1 .. n) /\ 1 .. k + 1 # {}
      <3>1. k + 1 \in 1 .. k + 1
        OBVIOUS
      <3>2. \A x \in 1 .. k + 1 : x \in 1 .. n
        OBVIOUS
      <3>. QED  BY <3>1, <3>2
    <2>3. Max(1 .. k + 1) = k + 1
      <3>1. Max(1 .. k + 1) \in 1 .. k + 1 /\ Max(1 .. k + 1) >= k + 1
        BY <2>2, MaxOfInterval
      <3>. QED  BY <3>1
    <2>4. (1 .. k + 1) \ {k + 1} = 1 .. k
      OBVIOUS
    <2>5. iter[1 .. k + 1] = op(a, b, c, iter[1 .. k], seq[k + 1])
      BY <1>3, <2>2, <2>3, <2>4
    <2>6. (k + 1) - 1 = k /\ k + 1 \in 1 .. n
      OBVIOUS
    <2>. QED  BY <2>1, <2>5, <2>6
  <1>6. Nat \subseteq T
    <2>. HIDE DEF T
    <2>. QED  BY <1>4, <1>5, SetInduction
  <1>. QED  BY <1>1, <1>6

=============================================================================
