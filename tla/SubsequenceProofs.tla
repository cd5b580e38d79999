-------------------------- MODULE SubsequenceProofs --------------------------
(***************************************************************************)
(* What the loops of Subsequences compute, for sequences of any length.    *)
(***************************************************************************)
EXTENDS Subsequences, SequenceTheorems, WellFoundedInduction, TLAPS

\* Induction over the steps of a loop, for the set of the steps that are as they should be.
LEMMA NatSet ==
    ASSUME NEW S, 0 \in S, \A n \in Nat : n \in S => n + 1 \in S
    PROVE  Nat \subseteq S
<1> DEFINE T == Nat \ S
<1>1. SUFFICES ASSUME T # {} PROVE FALSE
  OBVIOUS
<1>2. PICK x \in T : \A y \in T : ~ (<<y, x>> \in OpToRel(<, Nat))
  BY <1>1, WFMin, NatLessThanWellFounded
<1>3. \A y \in T : ~(y < x)
  BY <1>2 DEF OpToRel
<1>4. x # 0 /\ x - 1 \in Nat
  OBVIOUS
<1>5. x - 1 \in S
  BY <1>3, <1>4
<1> QED
  BY <1>4, <1>5

LEMMA SmallestExists ==
    ASSUME NEW T, T \subseteq Nat, T # {}
    PROVE  \E x \in T : \A y \in T : x <= y
<1>1. PICK x \in T : \A y \in T : ~ (<<y, x>> \in OpToRel(<, Nat))
  BY WFMin, NatLessThanWellFounded
<1>2. \A y \in T : ~(y < x)
  BY <1>1 DEF OpToRel
<1>3. x \in Nat /\ \A y \in T : y \in Nat
  OBVIOUS
<1> QED
  BY <1>2, <1>3

LEMMA LargestExists ==
    ASSUME NEW T, T \subseteq Nat, T # {}, NEW n \in Nat, \A y \in T : y <= n
    PROVE  \E x \in T : \A y \in T : x >= y
<1> DEFINE B == {m \in Nat : \A y \in T : y <= m}
<1>1. n \in B
  OBVIOUS
<1>2. PICK m \in B : \A k \in B : m <= k
  <2> B \subseteq Nat /\ B # {}
    BY <1>1
  <2> HIDE DEF B
  <2> QED
    BY SmallestExists
<1>3. \A y \in T : y \in Nat /\ m \in Nat /\ y <= m
  OBVIOUS
<1>4. m \in T
  <2> SUFFICES ASSUME m \notin T PROVE FALSE
    OBVIOUS
  <2>1. m # 0
    <3>1. PICK y \in T : TRUE
      OBVIOUS
    <3>2. y \in Nat /\ y <= m /\ y # m
      BY <1>3, <3>1
    <3> QED
      BY <3>2
  <2>2. m - 1 \in Nat /\ \A y \in T : y <= m - 1
    <3>1. \A y \in T : y \in Nat /\ y <= m /\ y # m
      BY <1>3
    <3> QED
      BY <1>2, <2>1, <3>1
  <2>3. m - 1 \in B
    BY <2>2
  <2>4. m \in Nat /\ m <= m - 1
    BY <1>2, <2>3
  <2> QED
    BY <2>4
<1> QED
  BY <1>3, <1>4

-----------------------------------------------------------------------------
(* Pick *)

IsPickLoop(f, s, I, n) ==
  f = [k \in 0 .. n |->
         IF k = 0 THEN << >>
         ELSE IF k \in I THEN Append(f[k - 1], s[k])
         ELSE f[k - 1]]

\* The loop of Pick is a function: its value at a step follows from the one before.
LEMMA PickLoopExists ==
    ASSUME NEW s, NEW I
    PROVE  \A n \in Nat : \E f : IsPickLoop(f, s, I, n)
<1> DEFINE S == {n \in Nat : \E f : IsPickLoop(f, s, I, n)}
<1>1. 0 \in S
  <2> DEFINE f == [k \in 0 .. 0 |-> << >>]
  <2>1. IsPickLoop(f, s, I, 0)
    BY DEF IsPickLoop
  <2> QED
    BY <2>1
<1>2. ASSUME NEW n \in Nat, n \in S PROVE n + 1 \in S
  <2>1. PICK f : IsPickLoop(f, s, I, n)
    BY <1>2
  <2> DEFINE x == IF n + 1 \in I THEN Append(f[n], s[n + 1]) ELSE f[n]
             g == [k \in 0 .. n + 1 |-> IF k = n + 1 THEN x ELSE f[k]]
  <2>2. \A k \in 0 .. n : g[k] = f[k]
    OBVIOUS
  <2>3. g[n + 1] = x
    OBVIOUS
  <2>4. \A k \in 0 .. n + 1 :
          g[k] = IF k = 0 THEN << >>
                 ELSE IF k \in I THEN Append(g[k - 1], s[k])
                 ELSE g[k - 1]
    <3> SUFFICES ASSUME NEW k \in 0 .. n + 1
                 PROVE  g[k] = IF k = 0 THEN << >>
                               ELSE IF k \in I THEN Append(g[k - 1], s[k])
                               ELSE g[k - 1]
      OBVIOUS
    <3> HIDE DEF g
    <3>1. CASE k = n + 1
      <4>1. k # 0 /\ k - 1 = n /\ g[k - 1] = f[n] /\ k - 1 \in 0 .. n
        BY <2>2, <3>1
      <4> QED
        BY <2>3, <3>1, <4>1
    <3>2. CASE k \in 0 .. n /\ k # 0
      <4>1. k - 1 \in 0 .. n /\ g[k - 1] = f[k - 1] /\ g[k] = f[k]
        BY <2>2, <3>2
      <4> QED
        BY <2>1, <3>2, <4>1 DEF IsPickLoop
    <3>3. CASE k = 0
      BY <2>1, <2>2, <3>3 DEF IsPickLoop
    <3> QED
      BY <3>1, <3>2, <3>3
  <2>5. IsPickLoop(g, s, I, n + 1)
    BY <2>4 DEF IsPickLoop
  <2> QED
    BY <2>5
<1> QED
  BY <1>1, <1>2, NatSet

\* The positions of s that the elements of p come from, in order.
ComesFrom(p, s, I, n) ==
  /\ \A i \in 1 .. Len(p) : \E a \in (1 .. n) \cap I : p[i] = s[a]
  /\ \A i, j \in 1 .. Len(p) : i < j =>
       \E a, b \in (1 .. n) \cap I : a < b /\ p[i] = s[a] /\ p[j] = s[b]
  /\ \A a \in (1 .. n) \cap I : \E i \in 1 .. Len(p) : p[i] = s[a]

\* Pick keeps the elements at the positions in I, all of them, each once and in order.
LEMMA PickEffect ==
    ASSUME NEW T, NEW s \in Seq(T), NEW I
    PROVE  Pick(s, I) \in Seq(T) /\ ComesFrom(Pick(s, I), s, I, Len(s))
<1> DEFINE L == Len(s)
           f == CHOOSE f : IsPickLoop(f, s, I, L)
           S == {n \in Nat : n <= L => f[n] \in Seq(T) /\ ComesFrom(f[n], s, I, n)}
<1>1. L \in Nat
  OBVIOUS
<1>2. IsPickLoop(f, s, I, L)
  BY <1>1, PickLoopExists
<1>3. Pick(s, I) = f[L]
  BY DEF Pick, IsPickLoop
<1> HIDE DEF f
<1>4. 0 \in S
  BY <1>1, <1>2 DEF IsPickLoop, ComesFrom
<1>5. ASSUME NEW n \in Nat, n \in S PROVE n + 1 \in S
  <2> SUFFICES ASSUME n + 1 <= L
               PROVE  f[n + 1] \in Seq(T) /\ ComesFrom(f[n + 1], s, I, n + 1)
    OBVIOUS
  <2>1. f[n] \in Seq(T) /\ ComesFrom(f[n], s, I, n)
    BY <1>1, <1>5
  <2>2. f[n + 1] = IF n + 1 \in I THEN Append(f[n], s[n + 1]) ELSE f[n]
    <3>1. n + 1 \in 0 .. L /\ n + 1 # 0 /\ (n + 1) - 1 = n
      BY <1>1
    <3> HIDE DEF S, L
    <3> QED
      BY <1>2, <3>1 DEF IsPickLoop
  <2>3. s[n + 1] \in T
    <3>1. n + 1 \in 1 .. Len(s)
      BY <1>1
    <3> HIDE DEF S
    <3> QED
      BY <3>1
  <2>4. CASE n + 1 \notin I
    <3>1. (1 .. n + 1) \cap I = (1 .. n) \cap I
      BY <2>4
    <3>2. f[n + 1] = f[n]
      BY <2>2, <2>4
    <3> HIDE DEF S, L
    <3> QED
      BY <2>1, <3>1, <3>2 DEF ComesFrom
  <2>5. CASE n + 1 \in I
    <3> DEFINE p == f[n]
               q == f[n + 1]
    <3>1. /\ q \in Seq(T) /\ Len(q) = Len(p) + 1 /\ Len(p) \in Nat
          /\ q[Len(p) + 1] = s[n + 1]
          /\ \A i \in 1 .. Len(p) : q[i] = p[i]
      <4>1. p \in Seq(T) /\ q = Append(p, s[n + 1])
        BY <2>1, <2>2, <2>5
      <4> HIDE DEF p, q
      <4> QED
        BY <2>3, <4>1
    <3>2. n + 1 \in (1 .. n + 1) \cap I /\ (1 .. n) \cap I \subseteq (1 .. n + 1) \cap I
      BY <2>5
    <3> HIDE DEF p, q
    <3>3. ComesFrom(p, s, I, n)
      BY <2>1 DEF p
    <3>4. \A i \in 1 .. Len(q) : i = Len(p) + 1 \/ i \in 1 .. Len(p)
      BY <3>1
    <3>5. \A i \in 1 .. Len(q) : \E a \in (1 .. n + 1) \cap I : q[i] = s[a]
      <4>1. \A i \in 1 .. Len(p) : \E a \in (1 .. n + 1) \cap I : q[i] = s[a]
        BY <3>1, <3>2, <3>3 DEF ComesFrom
      <4>2. \E a \in (1 .. n + 1) \cap I : q[Len(p) + 1] = s[a]
        BY <3>1, <3>2
      <4> QED
        BY <3>4, <4>1, <4>2
    <3>6. \A i, j \in 1 .. Len(q) : i < j =>
            \E a, b \in (1 .. n + 1) \cap I : a < b /\ q[i] = s[a] /\ q[j] = s[b]
      <4> SUFFICES ASSUME NEW i \in 1 .. Len(q), NEW j \in 1 .. Len(q), i < j
                   PROVE  \E a, b \in (1 .. n + 1) \cap I : a < b /\ q[i] = s[a] /\ q[j] = s[b]
        OBVIOUS
      <4>1. i \in 1 .. Len(p) /\ q[i] = p[i]
        BY <3>1
      <4>2. CASE j = Len(p) + 1
        <5>1. PICK a \in (1 .. n) \cap I : p[i] = s[a]
          BY <3>3, <4>1 DEF ComesFrom
        <5>2. a < n + 1 /\ q[i] = s[a] /\ q[j] = s[n + 1]
          BY <3>1, <4>1, <4>2, <5>1
        <5> QED
          BY <3>2, <5>1, <5>2
      <4>3. CASE j \in 1 .. Len(p)
        <5>1. q[j] = p[j]
          BY <3>1, <4>3
        <5>2. PICK a, b \in (1 .. n) \cap I : a < b /\ p[i] = s[a] /\ p[j] = s[b]
          BY <3>3, <4>1, <4>3 DEF ComesFrom
        <5> QED
          BY <3>2, <4>1, <5>1, <5>2
      <4> QED
        BY <3>4, <4>2, <4>3
    <3>7. \A a \in (1 .. n + 1) \cap I : \E i \in 1 .. Len(q) : q[i] = s[a]
      <4> SUFFICES ASSUME NEW a \in (1 .. n + 1) \cap I PROVE \E i \in 1 .. Len(q) : q[i] = s[a]
        OBVIOUS
      <4>1. CASE a = n + 1
        BY <3>1, <4>1
      <4>2. CASE a \in (1 .. n) \cap I
        <5>1. PICK i \in 1 .. Len(p) : p[i] = s[a]
          BY <3>3, <4>2 DEF ComesFrom
        <5> QED
          BY <3>1, <5>1
      <4> QED
        BY <4>1, <4>2
    <3> QED
      BY <3>1, <3>5, <3>6, <3>7 DEF ComesFrom, q
  <2> QED
    BY <2>4, <2>5
<1> HIDE DEF S
<1>6. L \in S
  BY <1>1, <1>4, <1>5, NatSet
<1> QED
  BY <1>1, <1>3, <1>6 DEF S

-----------------------------------------------------------------------------
(* Sums *)

IsSumLoop(f, s, n) == f = [k \in 0 .. n |-> IF k = 0 THEN 0 ELSE f[k - 1] + s[k]]

\* The loop of Sums is a function.
LEMMA SumLoopExists ==
    ASSUME NEW s
    PROVE  \A n \in Nat : \E f : IsSumLoop(f, s, n)
<1> DEFINE S == {n \in Nat : \E f : IsSumLoop(f, s, n)}
<1>1. 0 \in S
  <2> DEFINE f == [k \in 0 .. 0 |-> 0]
  <2>1. IsSumLoop(f, s, 0)
    BY DEF IsSumLoop
  <2> QED
    BY <2>1
<1>2. ASSUME NEW n \in Nat, n \in S PROVE n + 1 \in S
  <2>1. PICK f : IsSumLoop(f, s, n)
    BY <1>2
  <2> DEFINE g == [k \in 0 .. n + 1 |-> IF k = n + 1 THEN f[n] + s[n + 1] ELSE f[k]]
  <2>2. (\A k \in 0 .. n : g[k] = f[k]) /\ g[n + 1] = f[n] + s[n + 1]
    OBVIOUS
  <2>3. \A k \in 0 .. n + 1 : g[k] = IF k = 0 THEN 0 ELSE g[k - 1] + s[k]
    <3> SUFFICES ASSUME NEW k \in 0 .. n + 1
                 PROVE  g[k] = IF k = 0 THEN 0 ELSE g[k - 1] + s[k]
      OBVIOUS
    <3> HIDE DEF g
    <3>1. CASE k = n + 1
      <4>1. k # 0 /\ k - 1 = n /\ g[k - 1] = f[n]
        BY <2>2, <3>1
      <4> QED
        BY <2>2, <3>1, <4>1
    <3>2. CASE k \in 0 .. n /\ k # 0
      <4>1. k - 1 \in 0 .. n /\ g[k - 1] = f[k - 1] /\ g[k] = f[k]
        BY <2>2, <3>2
      <4> QED
        BY <2>1, <3>2, <4>1 DEF IsSumLoop
    <3>3. CASE k = 0
      BY <2>1, <2>2, <3>3 DEF IsSumLoop
    <3> QED
      BY <3>1, <3>2, <3>3
  <2>4. IsSumLoop(g, s, n + 1)
    BY <2>3 DEF IsSumLoop
  <2> QED
    BY <2>4
<1> QED
  BY <1>1, <1>2, NatSet

\* The sums of natural numbers, one after the other.
LEMMA SumsEffect ==
    ASSUME NEW s \in Seq(Nat)
    PROVE  /\ Sums(s) \in [0 .. Len(s) -> Nat] /\ Sums(s)[0] = 0
           /\ \A k \in 1 .. Len(s) : Sums(s)[k] = Sums(s)[k - 1] + s[k]
           /\ Total(s) \in Nat
<1> DEFINE L == Len(s)
           f == CHOOSE f : IsSumLoop(f, s, L)
           S == {n \in Nat : n <= L => f[n] \in Nat}
<1>1. L \in Nat
  OBVIOUS
<1>2. IsSumLoop(f, s, L)
  BY <1>1, SumLoopExists
<1>3. Sums(s) = f
  BY DEF Sums, IsSumLoop
<1> HIDE DEF f
<1>4. /\ f = [k \in 0 .. L |-> f[k]] /\ f[0] = 0
      /\ \A k \in 0 .. L : k # 0 => f[k] = f[k - 1] + s[k]
  <2>1. f[0] = 0
    BY <1>1, <1>2 DEF IsSumLoop
  <2>2. \A k \in 0 .. L : k # 0 => f[k] = f[k - 1] + s[k]
    BY <1>2 DEF IsSumLoop
  <2>3. f = [k \in 0 .. L |-> f[k]]
    BY <1>2 DEF IsSumLoop
  <2> QED
    BY <2>1, <2>2, <2>3
<1>5. \A k \in 1 .. L : k \in 0 .. L /\ k # 0 /\ s[k] \in Nat /\ k - 1 \in 0 .. L
  OBVIOUS
<1>6. \A n \in Nat : n \in S => n + 1 \in S
  <2> SUFFICES ASSUME NEW n \in Nat, n \in S, n + 1 <= L PROVE f[n + 1] \in Nat
    OBVIOUS
  <2>1. f[n] \in Nat /\ n + 1 \in 1 .. L /\ (n + 1) - 1 = n
    BY <1>1
  <2> HIDE DEF S, L
  <2>2. f[n + 1] = f[n] + s[n + 1] /\ s[n + 1] \in Nat
    BY <1>4, <1>5, <2>1
  <2> QED
    BY <2>1, <2>2
<1>7. 0 \in S
  BY <1>4
<1>8. Nat \subseteq S
  <2> HIDE DEF S
  <2> QED
    BY <1>6, <1>7, NatSet
<1>9. \A n \in 0 .. L : f[n] \in Nat
  BY <1>1, <1>8
<1>10. f \in [0 .. L -> Nat]
  <2> HIDE DEF S, L
  <2> QED
    BY <1>4, <1>9
<1>11. f[L] \in Nat
  BY <1>1, <1>9
<1> HIDE DEF S
<1> QED
  BY <1>3, <1>4, <1>5, <1>10, <1>11 DEF Total

-----------------------------------------------------------------------------
(* FlattenSeq *)

IsJoinLoop(f, ss, n) == f = [k \in 1 .. n |-> IF k = 1 THEN ss[k] ELSE f[k - 1] \o ss[k]]

\* The loop of FlattenSeq is a function.
LEMMA JoinLoopExists ==
    ASSUME NEW ss
    PROVE  \A n \in Nat : \E f : IsJoinLoop(f, ss, n)
<1> DEFINE S == {n \in Nat : \E f : IsJoinLoop(f, ss, n)}
<1>1. 0 \in S
  <2> DEFINE f == [k \in 1 .. 0 |-> 0]
  <2>1. \A k \in 1 .. 0 : FALSE
    OBVIOUS
  <2>2. IsJoinLoop(f, ss, 0)
    BY <2>1 DEF IsJoinLoop
  <2> QED
    BY <2>2
<1>2. ASSUME NEW n \in Nat, n \in S PROVE n + 1 \in S
  <2>1. PICK f : IsJoinLoop(f, ss, n)
    BY <1>2
  <2> DEFINE x == IF n = 0 THEN ss[1] ELSE f[n] \o ss[n + 1]
             g == [k \in 1 .. n + 1 |-> IF k = n + 1 THEN x ELSE f[k]]
  <2>2. (\A k \in 1 .. n : g[k] = f[k]) /\ g[n + 1] = x
    <3> HIDE DEF x
    <3>1. n + 1 \in 1 .. n + 1 /\ \A k \in 1 .. n : k \in 1 .. n + 1 /\ k # n + 1
      OBVIOUS
    <3> QED
      BY <3>1
  <2>3. \A k \in 1 .. n + 1 : g[k] = IF k = 1 THEN ss[k] ELSE g[k - 1] \o ss[k]
    <3> SUFFICES ASSUME NEW k \in 1 .. n + 1
                 PROVE  g[k] = IF k = 1 THEN ss[k] ELSE g[k - 1] \o ss[k]
      OBVIOUS
    <3> HIDE DEF g
    <3>1. CASE k = n + 1 /\ k # 1
      <4>1. n # 0 /\ k - 1 = n /\ g[k - 1] = f[n]
        BY <2>2, <3>1
      <4> QED
        BY <2>2, <3>1, <4>1
    <3>2. CASE k \in 1 .. n /\ k # 1
      <4>1. k - 1 \in 1 .. n /\ g[k - 1] = f[k - 1] /\ g[k] = f[k]
        BY <2>2, <3>2
      <4> QED
        BY <2>1, <3>2, <4>1 DEF IsJoinLoop
    <3>3. CASE k = 1 /\ n = 0
      BY <2>2, <3>3
    <3>4. CASE k = 1 /\ n # 0
      <4>1. 1 \in 1 .. n /\ g[1] = f[1]
        BY <2>2, <3>4
      <4> QED
        BY <2>1, <3>4, <4>1 DEF IsJoinLoop
    <3> QED
      BY <3>1, <3>2, <3>3, <3>4
  <2> HIDE DEF g
  <2>4. g = [k \in 1 .. n + 1 |-> g[k]]
    BY DEF g
  <2>5. IsJoinLoop(g, ss, n + 1)
    BY <2>3, <2>4 DEF IsJoinLoop
  <2> QED
    BY <2>5
<1> QED
  BY <1>1, <1>2, NatSet

\* What is joined has elements of the same type.
LEMMA FlattenEffect ==
    ASSUME NEW T, NEW ss \in Seq(Seq(T))
    PROVE  FlattenSeq(ss) \in Seq(T)
<1> DEFINE L == Len(ss)
           f == CHOOSE f : IsJoinLoop(f, ss, L)
           S == {n \in Nat : n \in 1 .. L => f[n] \in Seq(T)}
<1>1. CASE L = 0
  BY <1>1 DEF FlattenSeq
<1>2. CASE L # 0
  <2>1. L \in Nat /\ L \in 1 .. L
    BY <1>2
  <2>2. IsJoinLoop(f, ss, L)
    BY <2>1, JoinLoopExists
  <2>3. FlattenSeq(ss) = f[L]
    BY <1>2 DEF FlattenSeq, IsJoinLoop
  <2> HIDE DEF f
  <2>4. \A k \in 1 .. L : ss[k] \in Seq(T)
    BY <2>1
  <2>5. ASSUME NEW n \in Nat, n \in 1 .. L => f[n] \in Seq(T), n + 1 \in 1 .. L
        PROVE  f[n + 1] \in Seq(T)
    <3>1. CASE n = 0
      <4>1. f[1] = ss[1] /\ 1 \in 1 .. L
        BY <2>1, <2>2, <3>1 DEF IsJoinLoop
      <4> QED
        BY <2>4, <3>1, <4>1
    <3>2. CASE n # 0
      <4>1. n \in 1 .. L /\ n + 1 # 1 /\ (n + 1) - 1 = n
        <5> HIDE DEF S, L
        <5> QED
          BY <2>1, <2>5, <3>2
      <4>2. f[n] \in Seq(T)
        BY <2>5, <4>1
      <4> HIDE DEF S, L
      <4>3. f[n + 1] = f[n] \o ss[n + 1]
        BY <2>2, <2>5, <4>1 DEF IsJoinLoop
      <4>4. ss[n + 1] \in Seq(T)
        BY <2>4, <2>5
      <4> HIDE DEF f
      <4> QED
        BY <4>2, <4>3, <4>4
    <3> QED
      BY <3>1, <3>2
  <2>6. 0 \in S
    OBVIOUS
  <2>7. \A n \in Nat : n \in S => n + 1 \in S
    <3> HIDE DEF L
    <3> QED
      BY <2>5
  <2>8. Nat \subseteq S
    <3> HIDE DEF S
    <3> QED
      BY <2>7, <2>6, NatSet
  <2> QED
    BY <2>1, <2>3, <2>8
<1> QED
  BY <1>1, <1>2

-----------------------------------------------------------------------------
(* Pick and FlattenSeq, one element or one sequence at a time *)

\* The loop of Pick, by its steps.
Picks(f, s, I) ==
  /\ f[0] = << >>
  /\ \A k \in 1 .. Len(s) : f[k] = IF k \in I THEN Append(f[k - 1], s[k]) ELSE f[k - 1]

LEMMA PickSteps ==
    ASSUME NEW s, NEW I, Len(s) \in Nat
    PROVE  \E f : Picks(f, s, I) /\ Pick(s, I) = f[Len(s)]
<1> DEFINE L == Len(s)
           f == CHOOSE f : IsPickLoop(f, s, I, L)
<1>1. IsPickLoop(f, s, I, L)
  BY PickLoopExists
<1>2. Pick(s, I) = f[L]
  BY DEF Pick, IsPickLoop
<1> HIDE DEF f
<1>3. 0 \in 0 .. L /\ \A k \in 1 .. L : k \in 0 .. L /\ k # 0
  OBVIOUS
<1>4. f[0] = << >>
  BY <1>1, <1>3 DEF IsPickLoop
<1>5. \A k \in 1 .. L : f[k] = IF k \in I THEN Append(f[k - 1], s[k]) ELSE f[k - 1]
  <2> HIDE DEF L
  <2> QED
    BY <1>1, <1>3 DEF IsPickLoop
<1>6. Picks(f, s, I)
  BY <1>4, <1>5 DEF Picks
<1> QED
  BY <1>2, <1>6

\* The concatenation of sequences is associative.
LEMMA ConcatThree ==
    ASSUME NEW T
    PROVE  \A a, b, c \in Seq(T) : (a \o b) \o c = a \o (b \o c)
  BY ConcatAssociative

\* The positions in I and J are the same, after the first m.
Aligned(I, m, J, n) == \A k \in 1 .. n : m + k \in I <=> k \in J

\* What is picked from two sequences one after the other.
LEMMA PickConcat ==
    ASSUME NEW T, NEW s \in Seq(T), NEW t \in Seq(T), NEW I, NEW J, NEW K,
           Aligned(I, 0, J, Len(s)), Aligned(I, Len(s), K, Len(t))
    PROVE  Pick(s \o t, I) = Pick(s, J) \o Pick(t, K)
<1> DEFINE u == s \o t
           A == Len(s)
           B == Len(t)
<1>1. A \in Nat /\ B \in Nat
  OBVIOUS
<1>2. /\ u \in Seq(T) /\ Len(u) = A + B
      /\ \A k \in 1 .. A : u[k] = s[k]
      /\ \A k \in 1 .. B : u[A + k] = t[k]
  OBVIOUS
<1> HIDE DEF u
<1>3. PICK f : Picks(f, u, I) /\ Pick(u, I) = f[A + B]
  <2>1. Len(u) \in Nat
    BY <1>1, <1>2
  <2>2. PICK f : Picks(f, u, I) /\ Pick(u, I) = f[Len(u)]
    BY <2>1, PickSteps
  <2> QED
    BY <1>2, <2>2
<1>4. PICK g : Picks(g, s, J) /\ Pick(s, J) = g[A]
  BY <1>1, PickSteps
<1>5. PICK h : Picks(h, t, K) /\ Pick(t, K) = h[B]
  BY <1>1, PickSteps
<1>6. \A k \in 1 .. A : s[k] \in T
  OBVIOUS
<1>7. \A k \in 1 .. B : t[k] \in T
  OBVIOUS
<1> DEFINE P == {n \in Nat : n <= A => f[n] = g[n] /\ g[n] \in Seq(T)}
           e == [n \in 0 .. B |-> f[A + n]]
           Fits(n) == e[n] = g[A] \o h[n] /\ h[n] \in Seq(T)
           Q == {n \in Nat : n <= B => Fits(n)}
<1>16. e[0] = f[A] /\ e[B] = f[A + B] /\ \A n \in 0 .. B : e[n] = f[A + n]
  BY <1>1
<1> HIDE DEF A, B, e
<1>8. 0 \in P
  <2>1. f[0] = << >> /\ g[0] = << >> /\ << >> \in Seq(T)
    BY <1>3, <1>4 DEF Picks
  <2> QED
    BY <2>1
<1>9. \A n \in Nat : n \in P => n + 1 \in P
  <2> SUFFICES ASSUME NEW n \in Nat, n <= A => f[n] = g[n] /\ g[n] \in Seq(T), n + 1 <= A
               PROVE  f[n + 1] = g[n + 1] /\ g[n + 1] \in Seq(T)
    OBVIOUS
  <2>1. n <= A /\ n + 1 \in 1 .. A /\ n + 1 \in 1 .. A + B /\ (n + 1) - 1 = n
    BY <1>1
  <2>2. f[n + 1] = IF n + 1 \in I THEN Append(f[n], u[n + 1]) ELSE f[n]
    BY <1>2, <1>3, <2>1 DEF Picks
  <2>3. g[n + 1] = IF n + 1 \in J THEN Append(g[n], s[n + 1]) ELSE g[n]
    BY <1>4, <2>1 DEF Picks, A
  <2>4. n + 1 \in I <=> n + 1 \in J
    <3>1. 0 + (n + 1) \in I <=> n + 1 \in J
      BY <2>1 DEF A, Aligned
    <3> QED
      BY <3>1
  <2>5. Append(g[n], s[n + 1]) \in Seq(T)
    BY <1>6, <2>1
  <2> QED
    BY <1>2, <2>1, <2>2, <2>3, <2>4, <2>5
<1>10. Nat \subseteq P
  <2> HIDE DEF P
  <2> QED
    BY <1>8, <1>9, NatSet
<1>11. f[A] = g[A] /\ g[A] \in Seq(T)
  BY <1>1, <1>10
<1>12. 0 \in Q
  <2>1. h[0] = << >> /\ A + 0 = A
    BY <1>1, <1>5 DEF Picks
  <2>2. g[A] \o << >> = g[A] /\ << >> \in Seq(T)
    BY <1>11
  <2> QED
    BY <1>11, <1>16, <2>1, <2>2
<1>13. \A n \in Nat : n \in Q => n + 1 \in Q
  <2> HIDE DEF Fits
  <2> SUFFICES ASSUME NEW n \in Nat, n <= B => Fits(n), n + 1 <= B PROVE Fits(n + 1)
    OBVIOUS
  <2> DEFINE m == A + (n + 1)
  <2>1. /\ n <= B /\ n + 1 \in 1 .. B /\ (n + 1) - 1 = n
        /\ m \in 1 .. A + B /\ m - 1 = A + n /\ e[n + 1] = f[m] /\ e[n] = f[A + n]
    <3>1. n \in 0 .. B /\ n + 1 \in 0 .. B
      BY <1>1
    <3>2. e[n + 1] = f[m] /\ e[n] = f[A + n]
      BY <1>16, <3>1
    <3>3. m \in 1 .. A + B /\ m - 1 = A + n
      BY <1>1
    <3>4. n <= B /\ n + 1 \in 1 .. B /\ (n + 1) - 1 = n
      BY <1>1
    <3> QED
      BY <3>2, <3>3, <3>4
  <2> HIDE DEF m
  <2>2. f[m] = IF m \in I THEN Append(f[A + n], u[m]) ELSE f[A + n]
    BY <1>2, <1>3, <2>1 DEF Picks
  <2>3. h[n + 1] = IF n + 1 \in K THEN Append(h[n], t[n + 1]) ELSE h[n]
    BY <1>5, <2>1 DEF Picks, B
  <2>4. (m \in I <=> n + 1 \in K) /\ u[m] = t[n + 1]
    BY <1>2, <2>1 DEF A, B, m, Aligned
  <2>5. f[A + n] = g[A] \o h[n] /\ h[n] \in Seq(T) /\ t[n + 1] \in T
    BY <1>7, <2>1 DEF Fits
  <2>6. /\ Append(h[n], t[n + 1]) \in Seq(T)
        /\ Append(g[A] \o h[n], t[n + 1]) = g[A] \o Append(h[n], t[n + 1])
    <3> HIDE DEF Q
    <3>1. Append(h[n], t[n + 1]) \in Seq(T) /\ g[A] \o h[n] \in Seq(T)
          /\ <<t[n + 1]>> \in Seq(T)
      BY <1>11, <2>5
    <3>2. Append(h[n], t[n + 1]) = h[n] \o <<t[n + 1]>>
      BY <2>5, AppendIsConcat
    <3>3. Append(g[A] \o h[n], t[n + 1]) = (g[A] \o h[n]) \o <<t[n + 1]>>
      BY <2>5, <3>1, AppendIsConcat
    <3>4. (g[A] \o h[n]) \o <<t[n + 1]>> = g[A] \o (h[n] \o <<t[n + 1]>>)
      <4>1. \A a, b, c \in Seq(T) : (a \o b) \o c = a \o (b \o c)
        BY ConcatThree
      <4> QED
        BY <1>11, <2>5, <3>1, <4>1
    <3> QED
      BY <3>1, <3>2, <3>3, <3>4
  <2> QED
    BY <2>1, <2>2, <2>3, <2>4, <2>5, <2>6 DEF Fits
<1>14. Nat \subseteq Q
  <2> HIDE DEF Q
  <2> QED
    BY <1>12, <1>13, NatSet
<1>15. f[A + B] = g[A] \o h[B]
  <2>1. B \in Q
    BY <1>1, <1>14
  <2> QED
    <3>1. e[B] = g[A] \o h[B]
      <4> HIDE DEF Fits
      <4>1. Fits(B)
        BY <1>1, <2>1
      <4> QED
        BY <4>1 DEF Fits
    <3> HIDE DEF Q
    <3> QED
      BY <1>16, <3>1
<1> QED
  BY <1>3, <1>4, <1>5, <1>15 DEF u

\* Only the positions of the sequence count.
LEMMA PickSame ==
    ASSUME NEW T, NEW s \in Seq(T), NEW I, NEW J, \A k \in 1 .. Len(s) : k \in I <=> k \in J
    PROVE  Pick(s, I) = Pick(s, J)
<1> DEFINE L == Len(s)
<1>1. L \in Nat
  OBVIOUS
<1>2. PICK f : Picks(f, s, I) /\ Pick(s, I) = f[L]
  BY <1>1, PickSteps
<1>3. PICK g : Picks(g, s, J) /\ Pick(s, J) = g[L]
  BY <1>1, PickSteps
<1> DEFINE S == {n \in Nat : n <= L => f[n] = g[n]}
<1>4. 0 \in S
  BY <1>2, <1>3 DEF Picks
<1>5. \A n \in Nat : n \in S => n + 1 \in S
  <2> HIDE DEF L
  <2> SUFFICES ASSUME NEW n \in Nat, n <= L => f[n] = g[n], n + 1 <= L PROVE f[n + 1] = g[n + 1]
    OBVIOUS
  <2>1. n <= L /\ n + 1 \in 1 .. L /\ (n + 1) - 1 = n
    BY <1>1
  <2>2. n + 1 \in I <=> n + 1 \in J
    BY <2>1 DEF L
  <2> QED
    BY <1>2, <1>3, <2>1, <2>2 DEF Picks, L
<1>6. Nat \subseteq S
  <2> HIDE DEF S
  <2> QED
    BY <1>4, <1>5, NatSet
<1> QED
  BY <1>1, <1>2, <1>3, <1>6

\* One element is picked or not.
LEMMA PickOne ==
    ASSUME NEW x, NEW I
    PROVE  Pick(<<x>>, I) = IF 1 \in I THEN <<x>> ELSE << >>
<1> DEFINE s == <<x>>
<1>1. Len(s) = 1 /\ s[1] = x /\ Len(s) \in Nat /\ 1 \in 1 .. 1 /\ 1 - 1 = 0
  OBVIOUS
<1> HIDE DEF s
<1>2. PICK f : Picks(f, s, I) /\ Pick(s, I) = f[1]
  BY <1>1, PickSteps
<1>3. f[0] = << >> /\ f[1] = IF 1 \in I THEN Append(f[0], x) ELSE f[0]
  BY <1>1, <1>2 DEF Picks
<1>4. Append(<< >>, x) = <<x>>
  OBVIOUS
<1> QED
  BY <1>2, <1>3, <1>4 DEF s

-----------------------------------------------------------------------------
(* What is joined, and what is kept of it *)

\* The loop of FlattenSeq, by its steps.
Joins(f, ss) ==
  /\ f[1] = ss[1]
  /\ \A k \in 2 .. Len(ss) : f[k] = f[k - 1] \o ss[k]

LEMMA JoinSteps ==
    ASSUME NEW ss, Len(ss) \in Nat \ {0}
    PROVE  \E f : Joins(f, ss) /\ FlattenSeq(ss) = f[Len(ss)]
<1> DEFINE L == Len(ss)
           f == CHOOSE f : IsJoinLoop(f, ss, L)
<1>1. IsJoinLoop(f, ss, L)
  BY JoinLoopExists
<1>2. FlattenSeq(ss) = f[L]
  BY DEF FlattenSeq, IsJoinLoop
<1> HIDE DEF f
<1>3. 1 \in 1 .. L /\ \A k \in 2 .. L : k \in 1 .. L /\ k # 1
  OBVIOUS
<1>4. Joins(f, ss)
  BY <1>1, <1>3 DEF Joins, IsJoinLoop
<1> QED
  BY <1>2, <1>4

\* What is joined grows by what comes last.
LEMMA FlattenAppend ==
    ASSUME NEW U, NEW ss \in Seq(U), NEW T, NEW x \in Seq(T)
    PROVE  FlattenSeq(Append(ss, x)) = FlattenSeq(ss) \o x
<1> DEFINE L == Len(ss)
           tt == Append(ss, x)
<1>1. L \in Nat
  OBVIOUS
<1>2. Len(tt) = L + 1 /\ tt[L + 1] = x /\ \A k \in 1 .. L : tt[k] = ss[k]
  <2>1. ss \in Seq(U \cup {x}) /\ x \in U \cup {x}
    OBVIOUS
  <2> QED
    BY <2>1
<1> HIDE DEF tt
<1>3. PICK g : Joins(g, tt) /\ FlattenSeq(tt) = g[L + 1]
  BY <1>1, <1>2, JoinSteps
<1>4. CASE L = 0
  <2>1. ss = << >> /\ FlattenSeq(<< >>) = << >>
    BY <1>4 DEF FlattenSeq
  <2>2. << >> \o x = x
    OBVIOUS
  <2>3. g[1] = x
    BY <1>2, <1>3, <1>4 DEF Joins
  <2> QED
    BY <1>3, <1>4, <2>1, <2>2, <2>3 DEF tt
<1>5. CASE L # 0
  <2>1. PICK f : Joins(f, ss) /\ FlattenSeq(ss) = f[L]
    BY <1>1, <1>5, JoinSteps
  <2> DEFINE S == {n \in Nat : n \in 1 .. L => f[n] = g[n]}
  <2> HIDE DEF L
  <2>2. 0 \in S
    OBVIOUS
  <2>3. \A n \in Nat : n \in S => n + 1 \in S
    <3> SUFFICES ASSUME NEW n \in Nat, n \in 1 .. L => f[n] = g[n], n + 1 \in 1 .. L
                 PROVE  f[n + 1] = g[n + 1]
      OBVIOUS
    <3>1. CASE n = 0
      <4>1. f[1] = ss[1] /\ g[1] = tt[1] /\ 1 \in 1 .. L
        BY <1>1, <1>3, <2>1, <3>1 DEF Joins
      <4> QED
        BY <1>2, <3>1, <4>1
    <3>2. CASE n # 0
      <4>1. n \in 1 .. L /\ n + 1 \in 2 .. L /\ n + 1 \in 2 .. L + 1 /\ (n + 1) - 1 = n
        BY <1>1, <3>2
      <4>2. f[n + 1] = f[n] \o ss[n + 1]
        BY <2>1, <4>1 DEF Joins, L
      <4>3. g[n + 1] = g[n] \o tt[n + 1]
        BY <1>2, <1>3, <4>1 DEF Joins
      <4> QED
        BY <1>2, <4>1, <4>2, <4>3
    <3> QED
      BY <3>1, <3>2
  <2>4. Nat \subseteq S
    <3> HIDE DEF S
    <3> QED
      BY <2>2, <2>3, NatSet
  <2>5. f[L] = g[L]
    BY <1>1, <1>5, <2>4
  <2>6. g[L + 1] = g[L] \o x
    <3>1. L + 1 \in 2 .. L + 1 /\ (L + 1) - 1 = L
      BY <1>1, <1>5
    <3> QED
      BY <1>2, <1>3, <3>1 DEF Joins
  <2> QED
    BY <1>3, <2>1, <2>5, <2>6 DEF tt
<1> QED
  BY <1>4, <1>5

\* What is joined has the elements of all the sequences, and no other.
LEMMA FlattenElements ==
    ASSUME NEW T, NEW ss \in Seq(Seq(T))
    PROVE  /\ FlattenSeq(ss) \in Seq(T)
           /\ \A x : (\E j \in DOMAIN FlattenSeq(ss) : FlattenSeq(ss)[j] = x)
                       <=> \E k \in DOMAIN ss : \E j \in DOMAIN ss[k] : ss[k][j] = x
<1> DEFINE L == Len(ss)
<1>1. L \in Nat /\ DOMAIN ss = 1 .. L /\ \A k \in 1 .. L : ss[k] \in Seq(T)
  OBVIOUS
<1>2. FlattenSeq(ss) \in Seq(T)
  BY FlattenEffect
<1>3. CASE L = 0
  <2>1. FlattenSeq(ss) = << >> /\ DOMAIN << >> = {} /\ DOMAIN ss = {}
    BY <1>1, <1>3 DEF FlattenSeq
  <2> QED
    BY <1>2, <2>1
<1>4. CASE L # 0
  <2>1. PICK f : Joins(f, ss) /\ FlattenSeq(ss) = f[L]
    BY <1>1, <1>4, JoinSteps
  <2> DEFINE Has(s, x) == \E j \in DOMAIN s : s[j] = x
             Covers(n) == \A x : Has(f[n], x) <=> \E k \in 1 .. n : Has(ss[k], x)
             S == {n \in Nat : n \in 1 .. L =>
                     f[n] \in Seq(T) /\ Covers(n)}
  <2> HIDE DEF L
  <2>2. ASSUME NEW s \in Seq(T), NEW t \in Seq(T), NEW x
        PROVE  s \o t \in Seq(T) /\ (Has(s \o t, x) <=> Has(s, x) \/ Has(t, x))
    <3> DEFINE u == s \o t
    <3>1. /\ u \in Seq(T) /\ Len(u) = Len(s) + Len(t) /\ Len(s) \in Nat /\ Len(t) \in Nat
          /\ \A k \in 1 .. Len(s) : u[k] = s[k]
          /\ \A k \in 1 .. Len(t) : u[Len(s) + k] = t[k]
      OBVIOUS
    <3>2. DOMAIN u = 1 .. Len(u) /\ DOMAIN s = 1 .. Len(s) /\ DOMAIN t = 1 .. Len(t)
      BY <3>1
    <3> HIDE DEF u
    <3>3. ASSUME NEW k \in 1 .. Len(u) PROVE k \in 1 .. Len(s) \/ \E j \in 1 .. Len(t) : k = Len(s) + j
      <4>1. CASE k <= Len(s)
        BY <3>1, <4>1
      <4>2. CASE k > Len(s)
        <5>1. k - Len(s) \in 1 .. Len(t) /\ k = Len(s) + (k - Len(s))
          BY <3>1, <4>2
        <5> QED
          BY <5>1
      <4> QED
        BY <3>1, <4>1, <4>2
    <3>4. ASSUME Has(u, x) PROVE Has(s, x) \/ Has(t, x)
      <4>1. PICK k \in 1 .. Len(u) : u[k] = x
        BY <3>2, <3>4
      <4>2. CASE k \in 1 .. Len(s)
        BY <3>1, <3>2, <4>1, <4>2
      <4>3. CASE \E j \in 1 .. Len(t) : k = Len(s) + j
        BY <3>1, <3>2, <4>1, <4>3
      <4> QED
        BY <3>3, <4>2, <4>3
    <3>5. Has(s, x) => Has(u, x)
      <4>1. \A k \in 1 .. Len(s) : k \in 1 .. Len(u)
        BY <3>1
      <4> QED
        BY <3>1, <3>2, <4>1
    <3>6. Has(t, x) => Has(u, x)
      <4>1. \A k \in 1 .. Len(t) : Len(s) + k \in 1 .. Len(u)
        BY <3>1
      <4> QED
        BY <3>1, <3>2, <4>1
    <3> HIDE DEF Has
    <3> QED
      BY <3>1, <3>4, <3>5, <3>6 DEF u
  <2>3. 0 \in S
    OBVIOUS
  <2>4. \A n \in Nat : n \in S => n + 1 \in S
    <3> HIDE DEF Has, Covers
    <3> SUFFICES ASSUME NEW n \in Nat, n \in 1 .. L => f[n] \in Seq(T) /\ Covers(n),
                        n + 1 \in 1 .. L
                 PROVE  f[n + 1] \in Seq(T) /\ Covers(n + 1)
      OBVIOUS
    <3> USE DEF Covers
    <3>1. CASE n = 0
      <4>1. f[1] = ss[1] /\ \A k \in 1 .. 1 : k = 1
        BY <2>1 DEF Joins
      <4>2. 1 \in 1 .. 1 /\ 1 \in 1 .. L /\ n + 1 = 1
        BY <3>1
      <4> HIDE DEF S
      <4> QED
        BY <1>1, <4>1, <4>2
    <3>2. CASE n # 0
      <4>1. n \in 1 .. L /\ n + 1 \in 2 .. L /\ (n + 1) - 1 = n
        BY <1>1, <3>2
      <4>2. f[n + 1] = f[n] \o ss[n + 1]
        BY <2>1, <4>1 DEF Joins, L
      <4>3. f[n] \in Seq(T) /\ \A x : Has(f[n], x) <=> \E k \in 1 .. n : Has(ss[k], x)
        BY <4>1
      <4> HIDE DEF S
      <4>4. ss[n + 1] \in Seq(T)
        BY <1>1
      <4>5. f[n + 1] \in Seq(T) /\ \A x : Has(f[n + 1], x) <=> Has(f[n], x) \/ Has(ss[n + 1], x)
        BY <2>2, <4>2, <4>3, <4>4
      <4>6. \A k \in 1 .. n + 1 : k \in 1 .. n \/ k = n + 1
        OBVIOUS
      <4>7. \A k \in 1 .. n : k \in 1 .. n + 1
        OBVIOUS
      <4>8. n + 1 \in 1 .. n + 1
        OBVIOUS
      <4> QED
        BY <4>3, <4>5, <4>6, <4>7, <4>8
    <3> QED
      BY <3>1, <3>2
  <2>5. Nat \subseteq S
    <3> HIDE DEF S
    <3> QED
      BY <2>3, <2>4, NatSet
  <2>6. L \in 1 .. L
    BY <1>1, <1>4
  <2> HIDE DEF Has
  <2>7. \A x : Has(f[L], x) <=> \E k \in 1 .. L : Has(ss[k], x)
    BY <1>1, <2>5, <2>6
  <2> QED
    BY <1>1, <1>2, <2>1, <2>7 DEF Has
<1> QED
  BY <1>3, <1>4

\* The elements of two sequences one after the other.
LEMMA ConcatElements ==
    ASSUME NEW T, NEW s \in Seq(T), NEW t \in Seq(T)
    PROVE  ToSet(s \o t) = ToSet(s) \cup ToSet(t)
<1> DEFINE u == s \o t
<1>1. /\ u \in Seq(T) /\ Len(u) = Len(s) + Len(t) /\ Len(s) \in Nat /\ Len(t) \in Nat
      /\ \A k \in 1 .. Len(s) : u[k] = s[k]
      /\ \A k \in 1 .. Len(t) : u[Len(s) + k] = t[k]
  OBVIOUS
<1>2. DOMAIN u = 1 .. Len(u) /\ DOMAIN s = 1 .. Len(s) /\ DOMAIN t = 1 .. Len(t)
  BY <1>1
<1> HIDE DEF u
<1>3. ASSUME NEW k \in DOMAIN u
      PROVE  u[k] \in {s[i] : i \in DOMAIN s} \cup {t[i] : i \in DOMAIN t}
  <2>1. CASE k <= Len(s)
    <3>1. k \in 1 .. Len(s)
      BY <1>1, <1>2, <2>1
    <3> QED
      BY <1>1, <1>2, <3>1
  <2>2. CASE k > Len(s)
    <3>1. k - Len(s) \in 1 .. Len(t) /\ k = Len(s) + (k - Len(s))
      BY <1>1, <1>2, <2>2
    <3>2. u[k] = t[k - Len(s)]
      BY <1>1, <3>1
    <3> QED
      BY <1>2, <3>1, <3>2
  <2> QED
    BY <1>1, <1>2, <2>1, <2>2
<1>4. \A i \in DOMAIN s : i \in DOMAIN u /\ u[i] = s[i]
  BY <1>1, <1>2
<1>5. \A i \in DOMAIN t : Len(s) + i \in DOMAIN u /\ u[Len(s) + i] = t[i]
  BY <1>1, <1>2
<1>6. {u[k] : k \in DOMAIN u} = {s[k] : k \in DOMAIN s} \cup {t[k] : k \in DOMAIN t}
  BY <1>3, <1>4, <1>5
<1> QED
  BY <1>6 DEF u, ToSet

\* Vec::retain with a test of the element.
Keep(s, S) == Pick(s, {k \in DOMAIN s : s[k] \in S})

LEMMA KeepConcat ==
    ASSUME NEW T, NEW s \in Seq(T), NEW t \in Seq(T), NEW S
    PROVE  Keep(s \o t, S) = Keep(s, S) \o Keep(t, S)
<1> DEFINE u == s \o t
           I == {k \in DOMAIN u : u[k] \in S}
           J == {k \in DOMAIN s : s[k] \in S}
           K == {k \in DOMAIN t : t[k] \in S}
<1>1. /\ u \in Seq(T) /\ Len(u) = Len(s) + Len(t) /\ Len(s) \in Nat /\ Len(t) \in Nat
      /\ \A k \in 1 .. Len(s) : u[k] = s[k]
      /\ \A k \in 1 .. Len(t) : u[Len(s) + k] = t[k]
  OBVIOUS
<1>2. DOMAIN u = 1 .. Len(u) /\ DOMAIN s = 1 .. Len(s) /\ DOMAIN t = 1 .. Len(t)
  BY <1>1
<1> HIDE DEF u
<1>3. \A k \in 1 .. Len(s) : k \in 1 .. Len(u)
  BY <1>1
<1>4. \A k \in 1 .. Len(t) : Len(s) + k \in 1 .. Len(u)
  BY <1>1
<1>5. Aligned(I, 0, J, Len(s))
  <2>1. \A k \in 1 .. Len(s) : 0 + k = k /\ (k \in I <=> k \in J)
    BY <1>1, <1>2, <1>3
  <2> HIDE DEF I, J
  <2> QED
    BY <2>1 DEF Aligned
<1>6. Aligned(I, Len(s), K, Len(t))
  BY <1>1, <1>2, <1>4 DEF Aligned
<1> HIDE DEF I, J, K
<1>7. Pick(s \o t, I) = Pick(s, J) \o Pick(t, K)
  BY <1>5, <1>6, PickConcat
<1> QED
  BY <1>7 DEF I, J, K, u, Keep

LEMMA KeepOne ==
    ASSUME NEW x, NEW S
    PROVE  /\ Keep(<<x>>, S) = IF x \in S THEN <<x>> ELSE << >>
           /\ Keep(<< >>, S) = << >>
<1>1. DOMAIN <<x>> = {1} /\ <<x>>[1] = x
  OBVIOUS
<1>2. 1 \in {k \in DOMAIN <<x>> : <<x>>[k] \in S} <=> x \in S
  BY <1>1
<1>3. Keep(<<x>>, S) = IF x \in S THEN <<x>> ELSE << >>
  BY <1>2, PickOne DEF Keep
<1>4. Pick(<< >>, {k \in DOMAIN << >> : << >>[k] \in S}) = << >>
  <2> DEFINE I == {k \in DOMAIN << >> : << >>[k] \in S}
  <2> HIDE DEF I
  <2>1. Len(<< >>) = 0
    OBVIOUS
  <2>2. PICK f : Picks(f, << >>, I) /\ Pick(<< >>, I) = f[0]
    BY <2>1, PickSteps
  <2>3. Pick(<< >>, I) = << >>
    BY <2>2 DEF Picks
  <2> QED
    BY <2>3 DEF I
<1> QED
  BY <1>3, <1>4 DEF Keep
=============================================================================
