------------------------- MODULE FlowGenerationProofs -------------------------
(***************************************************************************)
(* Theorems about FlowGeneration, for every graph, every setting and every *)
(* order in which checkpoints are searched from: no transition that can be *)
(* reached is left out of the flows, what is stored replays, the prefixes  *)
(* are shortest, and the selection is greedy although its heap is stale.   *)
(*                                                                         *)
(* Order: sequences and recursive functions; ways through a graph; the     *)
(* states that can be reached; types; stage 1 step by step; merging; the   *)
(* search for prefixes; the selection; the invariant and the theorems.     *)
(***************************************************************************)
EXTENDS FlowGeneration, FiniteSetTheorems, SequenceTheorems, WellFoundedInduction, TLAPS

-----------------------------------------------------------------------------
(* Induction over numbers, and functions defined by it.                    *)
LEMMA LeastOf ==
  ASSUME NEW T, T \subseteq Nat, T # {}
  PROVE  \E x \in T : \A y \in T : x <= y
<1>1. IsWellFoundedOn(OpToRel(<, Nat), Nat)
  BY NatLessThanWellFounded
<1>2. PICK x \in T : \A y \in T : ~(<<y, x>> \in OpToRel(<, Nat))
  BY <1>1, WFMin, Zenon
<1>3. ASSUME NEW y \in T PROVE x <= y
  <2>1. x \in Nat /\ y \in Nat
    OBVIOUS
  <2>2. <<y, x>> \notin OpToRel(<, Nat)
    BY <1>2, Zenon
  <2>3. ~(y < x)
    BY <2>1, <2>2 DEF OpToRel
  <2> QED
    BY <2>1, <2>3
<1> QED
  BY <1>3

LEMMA NumbersFromZero ==
  ASSUME NEW S \in SUBSET Nat, 0 \in S, \A n \in S : n + 1 \in S
  PROVE  \A n \in Nat : n \in S
<1> SUFFICES ASSUME NEW m \in Nat, m \notin S PROVE FALSE
  OBVIOUS
<1>1. PICK n \in Nat \ S : \A k \in Nat \ S : n <= k
  <2>1. Nat \ S \subseteq Nat /\ Nat \ S # {}
    OBVIOUS
  <2> QED
    BY <2>1, LeastOf
<1>2. n - 1 \in Nat /\ ~(n <= n - 1)
  BY <1>1
<1>3. n - 1 \in S
  BY <1>1, <1>2
<1> QED
  BY <1>1, <1>3

(* What a sequence of steps, a function each, makes of a value.            *)
Steps(step, X, n) == step \in [1 .. n -> [X -> X]]
Follows(f, x, step, X, n) ==
  f \in [0 .. n -> X] /\ f[0] = x /\ \A k \in 1 .. n : f[k] = step[k][f[k - 1]]

LEMMA Recursion ==
  ASSUME NEW X, NEW x \in X, NEW n \in Nat, NEW step, Steps(step, X, n)
  PROVE  \E f : Follows(f, x, step, X, n)
<1> USE DEF Steps
<1> DEFINE Fits(m, f) == f[0] = x /\ \A k \in 1 .. m : f[k] = step[k][f[k - 1]]
           S == {m \in Nat : m <= n => \E f \in [0 .. m -> X] : Fits(m, f)}
<1>1. 0 \in S
  <2> DEFINE f == [k \in 0 .. 0 |-> x]
  <2>1. f \in [0 .. 0 -> X] /\ f[0] = x /\ 1 .. 0 = {}
    OBVIOUS
  <2> HIDE DEF f
  <2> QED
    BY <2>1
<1>2. ASSUME NEW m \in S PROVE m + 1 \in S
  <2> SUFFICES ASSUME m + 1 <= n PROVE \E g \in [0 .. m + 1 -> X] : Fits(m + 1, g)
    OBVIOUS
  <2>1. PICK f \in [0 .. m -> X] : Fits(m, f)
    OBVIOUS
  <2> DEFINE g == [k \in 0 .. m + 1 |-> IF k = m + 1 THEN step[m + 1][f[m]] ELSE f[k]]
  <2>2. m \in 0 .. m /\ m \in Nat /\ m + 1 \in 1 .. n /\ m + 1 \in 0 .. m + 1 /\ 0 # m + 1
    OBVIOUS
  <2>3. f[m] \in X /\ step[m + 1] \in [X -> X]
    BY <2>2
  <2>4. step[m + 1][f[m]] \in X
    BY <2>3
  <2>5. g \in [0 .. m + 1 -> X]
    BY <2>4
  <2>6. g[0] = x
    BY <2>1, <2>2
  <2>7. ASSUME NEW k \in 1 .. m + 1 PROVE g[k] = step[k][g[k - 1]]
    <3>1. CASE k = m + 1
      <4>1. g[k] = step[m + 1][f[m]] /\ k - 1 = m /\ g[m] = f[m]
        BY <3>1, <2>2
      <4> QED
        BY <3>1, <4>1
    <3>2. CASE k # m + 1
      <4>1. k \in 1 .. m /\ k - 1 \in 0 .. m /\ k - 1 # m + 1
        BY <3>2
      <4>2. g[k] = f[k] /\ g[k - 1] = f[k - 1]
        BY <4>1, <3>2
      <4> QED
        BY <2>1, <4>1, <4>2
    <3> QED
      BY <3>1, <3>2
  <2> QED
    BY <2>5, <2>6, <2>7
<1>3. S \in SUBSET Nat
  OBVIOUS
<1>4. n \in S
  <2> HIDE DEF S
  <2> QED
    BY <1>1, <1>2, <1>3, NumbersFromZero
<1> QED
  BY <1>4 DEF Follows

-----------------------------------------------------------------------------
(* The list operators of the model: what they keep, as sets.               *)
LEMMA ElementsAre ==
  ASSUME NEW S, NEW s \in Seq(S)
  PROVE  /\ Len(s) \in Nat /\ DOMAIN s = 1 .. Len(s) /\ ToSet(s) \subseteq S
         /\ ToSet(s) = {s[i] : i \in 1 .. Len(s)}
         /\ (s = <<>> <=> Len(s) = 0) /\ (s = <<>> <=> ToSet(s) = {})
<1>1. Len(s) \in Nat /\ DOMAIN s = 1 .. Len(s) /\ \A i \in 1 .. Len(s) : s[i] \in S
  OBVIOUS
<1>2. s = <<>> <=> Len(s) = 0
  OBVIOUS
<1>3. ToSet(s) = {s[i] : i \in 1 .. Len(s)}
  BY <1>1 DEF ToSet
<1>4. Len(s) # 0 => 1 \in 1 .. Len(s)
  BY <1>1
<1> QED
  BY <1>1, <1>2, <1>3, <1>4

LEMMA AppendedIs ==
  ASSUME NEW S, NEW s \in Seq(S), NEW x \in S
  PROVE  /\ Append(s, x) \in Seq(S) /\ ToSet(Append(s, x)) = ToSet(s) \union {x}
         /\ Len(Append(s, x)) = Len(s) + 1 /\ Append(s, x)[Len(s) + 1] = x
         /\ \A i \in 1 .. Len(s) : Append(s, x)[i] = s[i]
<1>1. /\ Append(s, x) \in Seq(S) /\ Len(s) \in Nat
      /\ Len(Append(s, x)) = Len(s) + 1 /\ Append(s, x)[Len(s) + 1] = x
      /\ \A i \in 1 .. Len(s) : Append(s, x)[i] = s[i]
  OBVIOUS
<1>2. ToSet(s) = {s[i] : i \in 1 .. Len(s)}
  BY ElementsAre, Zenon
<1>3. ToSet(Append(s, x)) = {Append(s, x)[i] : i \in 1 .. Len(s) + 1}
  <2>1. ToSet(Append(s, x)) = {Append(s, x)[i] : i \in 1 .. Len(Append(s, x))}
    BY <1>1, ElementsAre, Zenon
  <2> QED
    BY <1>1, <2>1, Zenon
<1> DEFINE t == Append(s, x)
<1> HIDE DEF t
<1>4. ASSUME NEW i \in 1 .. Len(s) + 1 PROVE i \in 1 .. Len(s) \/ i = Len(s) + 1
  BY <1>1
<1>5. \A i \in 1 .. Len(s) : i \in 1 .. Len(s) + 1
  BY <1>1
<1>6. Len(s) + 1 \in 1 .. Len(s) + 1
  BY <1>1
<1>7. ToSet(t) = {t[i] : i \in 1 .. Len(s) + 1} /\ t[Len(s) + 1] = x
      /\ \A i \in 1 .. Len(s) : t[i] = s[i]
  BY <1>1, <1>3, Zenon DEF t
<1>8. ToSet(t) = ToSet(s) \union {x}
  BY <1>2, <1>4, <1>5, <1>6, <1>7
<1> QED
  BY <1>1, <1>8, Zenon DEF t

LEMMA OnlyIs ==
  ASSUME NEW S, NEW s \in Seq(S), NEW kept
  PROVE  Only(s, kept) \in Seq(S) /\ ToSet(Only(s, kept)) = ToSet(s) \intersect kept
<1> DEFINE n == Len(s)
           Next1(x, k) == IF s[k] \in kept THEN Append(x, s[k]) ELSE x
           step == [k \in 1 .. n |-> [x \in Seq(S) |-> Next1(x, k)]]
           Upto(f) == f = [k \in 0 .. n |->
                             IF k = 0 THEN <<>>
                             ELSE IF s[k] \in kept THEN Append(f[k - 1], s[k]) ELSE f[k - 1]]
           f == CHOOSE f : Upto(f)
<1>1. n \in Nat /\ \A k \in 1 .. n : s[k] \in S
  OBVIOUS
<1>2. ASSUME NEW x \in Seq(S), NEW k \in 1 .. n PROVE Next1(x, k) \in Seq(S)
  BY <1>1
<1>3. step \in [1 .. n -> [Seq(S) -> Seq(S)]]
  BY <1>2
<1>4. <<>> \in Seq(S)
  OBVIOUS
<1>5. \E g : Upto(g)
  <2> HIDE DEF step, n
  <2>1. PICK g \in [0 .. n -> Seq(S)] :
          g[0] = <<>> /\ \A k \in 1 .. n : g[k] = step[k][g[k - 1]]
    <3> DEFINE X == Seq(S)
    <3>1. n \in Nat /\ Steps(step, X, n) /\ <<>> \in X
      BY <1>1, <1>3, <1>4 DEF Steps
    <3>2. PICK g : Follows(g, <<>>, step, X, n)
      <4> HIDE DEF X
      <4> QED
        BY <3>1, Recursion, Zenon
    <3> QED
      BY <3>2 DEF Follows
  <2>2. ASSUME NEW k \in 0 .. n
        PROVE  g[k] = IF k = 0 THEN <<>>
                      ELSE IF s[k] \in kept THEN Append(g[k - 1], s[k]) ELSE g[k - 1]
    <3>1. CASE k = 0
      BY <2>1, <3>1
    <3>2. CASE k # 0
      <4>1. k \in 1 .. n /\ k - 1 \in 0 .. n
        BY <3>2, <1>1
      <4>2. g[k - 1] \in Seq(S)
        BY <4>1
      <4>3. step[k][g[k - 1]] = Next1(g[k - 1], k)
        BY <4>1, <4>2 DEF step
      <4>4. g[k] = step[k][g[k - 1]]
        BY <2>1, <4>1
      <4> QED
        BY <3>2, <4>3, <4>4
    <3> QED
      BY <3>1, <3>2
  <2>3. Upto(g)
    BY <2>1, <2>2
  <2> QED
    BY <2>3
<1>6. Upto(f)
  <2> HIDE DEF Upto
  <2> QED
    BY <1>5
<1>7. Only(s, kept) = f[n]
  BY DEF Only
<1> HIDE DEF f
<1> DEFINE Good(k) == f[k] \in Seq(S) /\ ToSet(f[k]) = {s[i] : i \in 1 .. k} \intersect kept
           T == {k \in Nat : k <= n => Good(k)}
<1>8. 0 \in T
  <2>1. f[0] = <<>> /\ 1 .. 0 = {}
    BY <1>1, <1>6
  <2>2. ToSet(<<>>) = {}
    BY <1>4, ElementsAre
  <2> QED
    BY <1>4, <2>1, <2>2
<1>9. ASSUME NEW k \in T PROVE k + 1 \in T
  <2> SUFFICES ASSUME k + 1 <= n PROVE Good(k + 1)
    OBVIOUS
  <2>1. k + 1 # 0 /\ k + 1 \in 0 .. n /\ (k + 1) - 1 = k /\ k <= n /\ k + 1 \in 1 .. n
    BY <1>1
  <2>2. f[k + 1] = Next1(f[k], k + 1)
    BY <1>6, <2>1
  <2>3. Good(k)
    BY <2>1
  <2>4. {s[i] : i \in 1 .. k + 1} = {s[i] : i \in 1 .. k} \union {s[k + 1]}
    <3>1. \A i : i \in 1 .. k + 1 <=> i \in 1 .. k \/ i = k + 1
      OBVIOUS
    <3> QED
      BY <3>1
  <2>5. s[k + 1] \in S
    BY <1>1, <2>1
  <2>6. Append(f[k], s[k + 1]) \in Seq(S)
        /\ ToSet(Append(f[k], s[k + 1])) = ToSet(f[k]) \union {s[k + 1]}
    BY <2>3, <2>5, AppendedIs
  <2> QED
    BY <2>2, <2>3, <2>4, <2>6
<1>10. T \in SUBSET Nat
  OBVIOUS
<1>11. n \in T
  <2> HIDE DEF T, n
  <2> QED
    BY <1>1, <1>8, <1>9, <1>10, NumbersFromZero
<1>12. Good(n)
  BY <1>1, <1>11
<1>13. ToSet(s) = {s[i] : i \in 1 .. n}
  BY ElementsAre, Zenon
<1> QED
  BY <1>7, <1>12, <1>13, Zenon

LEMMA ListedOnceIs ==
  ASSUME NEW S, NEW flows \in Seq(S), NEW more \in Seq(S)
  PROVE  /\ ListedOnce(flows, more) \in Seq(S)
         /\ ToSet(ListedOnce(flows, more)) = ToSet(flows) \union ToSet(more)
<1> DEFINE n == Len(more)
           step == [k \in 1 .. n |-> [x \in Seq(S) |-> Add(x, more[k])]]
           Upto(f) == f = [k \in 0 .. n |-> IF k = 0 THEN flows ELSE Add(f[k - 1], more[k])]
           f == CHOOSE f : Upto(f)
<1>1. n \in Nat /\ \A k \in 1 .. n : more[k] \in S
  OBVIOUS
<1>2. ASSUME NEW x \in Seq(S), NEW e \in S
      PROVE  Add(x, e) \in Seq(S) /\ ToSet(Add(x, e)) = ToSet(x) \union {e}
  <2>1. ToSet(x) = {x[i] : i \in 1 .. Len(x)}
    BY ElementsAre, Zenon
  <2>2. Append(x, e) \in Seq(S) /\ ToSet(Append(x, e)) = ToSet(x) \union {e}
    BY AppendedIs
  <2> QED
    BY <2>1, <2>2 DEF Add, Contains
<1>3. step \in [1 .. n -> [Seq(S) -> Seq(S)]]
  BY <1>1, <1>2
<1>4. \E g : Upto(g)
  <2> HIDE DEF step, n
  <2>1. PICK g \in [0 .. n -> Seq(S)] :
          g[0] = flows /\ \A k \in 1 .. n : g[k] = step[k][g[k - 1]]
    <3> DEFINE X == Seq(S)
    <3>1. n \in Nat /\ Steps(step, X, n) /\ flows \in X
      BY <1>1, <1>3 DEF Steps
    <3>2. PICK g : Follows(g, flows, step, X, n)
      <4> HIDE DEF X
      <4> QED
        BY <3>1, Recursion, Zenon
    <3> QED
      BY <3>2 DEF Follows
  <2>2. ASSUME NEW k \in 0 .. n
        PROVE  g[k] = IF k = 0 THEN flows ELSE Add(g[k - 1], more[k])
    <3>1. CASE k = 0
      BY <2>1, <3>1
    <3>2. CASE k # 0
      <4>1. k \in 1 .. n /\ k - 1 \in 0 .. n
        BY <3>2, <1>1
      <4>2. g[k - 1] \in Seq(S)
        BY <4>1
      <4>3. step[k][g[k - 1]] = Add(g[k - 1], more[k])
        BY <4>1, <4>2 DEF step
      <4>4. g[k] = step[k][g[k - 1]]
        BY <2>1, <4>1
      <4> QED
        BY <3>2, <4>3, <4>4
    <3> QED
      BY <3>1, <3>2
  <2>3. Upto(g)
    BY <2>1, <2>2
  <2> QED
    BY <2>3
<1>5. Upto(f)
  <2> HIDE DEF Upto
  <2> QED
    BY <1>4
<1>6. ListedOnce(flows, more) = f[n]
  BY DEF ListedOnce
<1> HIDE DEF f
<1> DEFINE Good(k) == /\ f[k] \in Seq(S)
                      /\ ToSet(f[k]) = ToSet(flows) \union {more[i] : i \in 1 .. k}
           T == {k \in Nat : k <= n => Good(k)}
<1>7. 0 \in T
  <2>1. f[0] = flows /\ 1 .. 0 = {}
    BY <1>1, <1>5
  <2> QED
    BY <2>1
<1>8. ASSUME NEW k \in T PROVE k + 1 \in T
  <2> SUFFICES ASSUME k + 1 <= n PROVE Good(k + 1)
    OBVIOUS
  <2>1. k + 1 # 0 /\ k + 1 \in 0 .. n /\ (k + 1) - 1 = k /\ k <= n /\ k + 1 \in 1 .. n
    BY <1>1
  <2>2. f[k + 1] = Add(f[k], more[k + 1])
    BY <1>5, <2>1
  <2>3. Good(k)
    BY <2>1
  <2>4. {more[i] : i \in 1 .. k + 1} = {more[i] : i \in 1 .. k} \union {more[k + 1]}
    <3>1. \A i : i \in 1 .. k + 1 <=> i \in 1 .. k \/ i = k + 1
      OBVIOUS
    <3> QED
      BY <3>1
  <2>5. more[k + 1] \in S
    BY <1>1, <2>1
  <2>6. Add(f[k], more[k + 1]) \in Seq(S)
        /\ ToSet(Add(f[k], more[k + 1])) = ToSet(f[k]) \union {more[k + 1]}
    BY <1>2, <2>3, <2>5
  <2> QED
    BY <2>2, <2>3, <2>4, <2>6
<1>9. T \in SUBSET Nat
  OBVIOUS
<1>10. n \in T
  <2> HIDE DEF T, n
  <2> QED
    BY <1>1, <1>7, <1>8, <1>9, NumbersFromZero
<1>11. Good(n)
  BY <1>1, <1>10
<1>12. ToSet(more) = {more[i] : i \in 1 .. n}
  BY ElementsAre, Zenon
<1> QED
  BY <1>6, <1>11, <1>12, Zenon

(* r is s with t appended.                                                 *)
IsBoth(r, s, t) ==
  /\ Len(s) \in Nat /\ Len(t) \in Nat /\ Len(r) = Len(s) + Len(t)
  /\ \A i \in 1 .. Len(s) : r[i] = s[i]
  /\ \A i \in 1 .. Len(t) : r[Len(s) + i] = t[i]

LEMMA JoinedIs ==
  ASSUME NEW S, NEW s \in Seq(S), NEW t \in Seq(S)
  PROVE  /\ s \o t \in Seq(S) /\ ToSet(s \o t) = ToSet(s) \union ToSet(t)
         /\ IsBoth(s \o t, s, t)
<1>1. /\ s \o t \in Seq(S) /\ Len(s) \in Nat /\ Len(t) \in Nat
      /\ Len(s \o t) = Len(s) + Len(t)
      /\ \A i \in 1 .. Len(s) : (s \o t)[i] = s[i]
  OBVIOUS
<1>2. \A i \in 1 .. Len(t) : (s \o t)[Len(s) + i] = t[i]
  <2> SUFFICES ASSUME NEW i \in 1 .. Len(t) PROVE (s \o t)[Len(s) + i] = t[i]
    OBVIOUS
  <2>1. Len(s) + i \in 1 .. Len(s) + Len(t) /\ Len(s) + i > Len(s) /\ (Len(s) + i) - Len(s) = i
    BY <1>1
  <2> QED
    BY <1>1, <2>1
<1>3. /\ ToSet(s) = {s[i] : i \in 1 .. Len(s)} /\ ToSet(t) = {t[i] : i \in 1 .. Len(t)}
      /\ ToSet(s \o t) = {(s \o t)[i] : i \in 1 .. Len(s \o t)}
  BY <1>1, ElementsAre, Zenon
<1> DEFINE both == s \o t
           m == Len(s)
           n == Len(t)
<1>4. /\ m \in Nat /\ n \in Nat /\ ToSet(both) = {both[i] : i \in 1 .. m + n}
      /\ \A i \in 1 .. m : both[i] = s[i]
      /\ \A i \in 1 .. n : both[m + i] = t[i]
      /\ ToSet(s) = {s[i] : i \in 1 .. m} /\ ToSet(t) = {t[i] : i \in 1 .. n}
  BY <1>1, <1>2, <1>3
<1> HIDE DEF both, m, n
<1>5. ASSUME NEW i \in 1 .. m + n PROVE i \in 1 .. m \/ \E j \in 1 .. n : i = m + j
  <2>1. CASE i > m
    <3>1. i - m \in 1 .. n /\ i = m + (i - m)
      BY <1>4, <2>1
    <3> QED
      BY <3>1
  <2>2. CASE ~(i > m)
    BY <1>4, <2>2
  <2> QED
    BY <2>1, <2>2
<1>6. (\A i \in 1 .. m : i \in 1 .. m + n) /\ (\A i \in 1 .. n : m + i \in 1 .. m + n)
  BY <1>4
<1>7. ToSet(both) = ToSet(s) \union ToSet(t)
  BY <1>4, <1>5, <1>6
<1>8. IsBoth(s \o t, s, t)
  BY <1>1, <1>2 DEF IsBoth
<1> QED
  BY <1>1, <1>7, <1>8, Zenon DEF both

LEMMA CutOutIs ==
  ASSUME NEW S, NEW s \in Seq(S), NEW i \in Nat, NEW j \in Nat,
         1 <= i, i <= j + 1, j <= Len(s)
  PROVE  /\ SubSeq(s, i, j) \in Seq(S) /\ Len(SubSeq(s, i, j)) = j + 1 - i
         /\ \A k \in 1 .. j + 1 - i : SubSeq(s, i, j)[k] = s[i + k - 1]
<1>1. Len(s) \in Nat /\ \A k \in i .. j : s[k] \in S
  OBVIOUS
<1>2. i \in Int /\ j \in Int
  OBVIOUS
<1>3. /\ SubSeq(s, i, j) \in Seq(S)
      /\ Len(SubSeq(s, i, j)) = IF i <= j THEN j - i + 1 ELSE 0
      /\ \A k \in 1 .. j - i + 1 : SubSeq(s, i, j)[k] = s[i + k - 1]
  BY <1>1, <1>2, SubSeqProperties, SMT
<1>4. j - i + 1 = j + 1 - i /\ (~(i <= j) => j + 1 - i = 0)
  BY <1>2
<1> QED
  BY <1>3, <1>4

(* The last of a list, and what comes before it and after the first.       *)
LEMMA EndsAre ==
  ASSUME NEW S, NEW s \in Seq(S), s # <<>>
  PROVE  /\ Len(s) \in Nat \ {0} /\ 1 \in 1 .. Len(s) /\ Len(s) \in 1 .. Len(s)
         /\ Head(s) = s[1] /\ Head(s) \in S /\ Head(s) \in ToSet(s)
         /\ Last(s) = s[Len(s)] /\ Last(s) \in S /\ Last(s) \in ToSet(s)
         /\ Tail(s) \in Seq(S) /\ ToSet(s) = {Head(s)} \union ToSet(Tail(s))
         /\ Len(Tail(s)) = Len(s) - 1 /\ \A k \in 1 .. Len(s) - 1 : Tail(s)[k] = s[k + 1]
         /\ Front(s) \in Seq(S) /\ ToSet(s) = ToSet(Front(s)) \union {Last(s)}
         /\ Len(Front(s)) = Len(s) - 1 /\ \A k \in 1 .. Len(s) - 1 : Front(s)[k] = s[k]
<1>1. /\ Len(s) \in Nat \ {0} /\ Tail(s) \in Seq(S) /\ Len(Tail(s)) = Len(s) - 1
      /\ Head(s) = s[1] /\ \A k \in 1 .. Len(s) : s[k] \in S
  OBVIOUS
<1>2. \A k \in 1 .. Len(s) - 1 : Tail(s)[k] = s[k + 1]
  OBVIOUS
<1> DEFINE n == Len(s) - 1
<1>3. n \in Nat /\ 1 \in Nat /\ 1 <= 1 /\ 1 <= n + 1 /\ n <= Len(s) /\ n + 1 - 1 = n
  BY <1>1
<1>4. /\ SubSeq(s, 1, n) \in Seq(S) /\ Len(SubSeq(s, 1, n)) = n
      /\ \A k \in 1 .. n : SubSeq(s, 1, n)[k] = s[1 + k - 1]
  <2> HIDE DEF n
  <2>1. /\ SubSeq(s, 1, n) \in Seq(S) /\ Len(SubSeq(s, 1, n)) = n + 1 - 1
        /\ \A k \in 1 .. n + 1 - 1 : SubSeq(s, 1, n)[k] = s[1 + k - 1]
    BY <1>3, CutOutIs
  <2> QED
    BY <1>3, <2>1
<1>5. \A k \in 1 .. n : 1 + k - 1 = k /\ k \in 1 .. Len(s) /\ k + 1 \in 1 .. Len(s)
  BY <1>3
<1>6. Front(s) \in Seq(S) /\ Len(Front(s)) = n /\ \A k \in 1 .. n : Front(s)[k] = s[k]
  BY <1>4, <1>5 DEF Front
<1>7. /\ ToSet(s) = {s[i] : i \in 1 .. Len(s)} /\ ToSet(Front(s)) = {Front(s)[i] : i \in 1 .. n}
      /\ ToSet(Tail(s)) = {Tail(s)[i] : i \in 1 .. n}
  <2>1. ToSet(s) = {s[i] : i \in 1 .. Len(s)}
    BY ElementsAre, Zenon
  <2>2. ToSet(Front(s)) = {Front(s)[i] : i \in 1 .. Len(Front(s))}
    BY <1>6, ElementsAre, Zenon
  <2>3. ToSet(Tail(s)) = {Tail(s)[i] : i \in 1 .. Len(Tail(s))}
    BY <1>1, ElementsAre, Zenon
  <2> QED
    BY <1>1, <1>6, <2>1, <2>2, <2>3, Zenon
<1>8. 1 \in 1 .. Len(s) /\ Len(s) \in 1 .. Len(s) /\ Last(s) = s[Len(s)]
  BY <1>1 DEF Last
<1>9. \A m \in Nat : \A i \in 1 .. m : i \in 1 .. m - 1 \/ i = m
  OBVIOUS
<1>10. \A m \in Nat : \A i \in 1 .. m : i = 1 \/ (i - 1 \in 1 .. m - 1 /\ (i - 1) + 1 = i)
  OBVIOUS
<1>13. \A i \in 1 .. Len(s) : i \in 1 .. n \/ i = Len(s)
  BY <1>1, <1>9, Zenon
<1>14. \A i \in 1 .. Len(s) : i = 1 \/ (i - 1 \in 1 .. n /\ (i - 1) + 1 = i)
  BY <1>1, <1>10, Zenon
<1>11. ToSet(s) = ToSet(Front(s)) \union {Last(s)}
  <2> HIDE DEF n
  <2> QED
    BY <1>5, <1>6, <1>7, <1>8, <1>13
<1>12. ToSet(s) = {Head(s)} \union ToSet(Tail(s))
  <2>1. \A k \in 1 .. n : Tail(s)[k] = s[k + 1]
    BY <1>2
  <2> DEFINE rest == Tail(s)
             first == Head(s)
  <2>2. /\ ToSet(rest) = {rest[i] : i \in 1 .. n} /\ \A k \in 1 .. n : rest[k] = s[k + 1]
        /\ first = s[1]
    BY <1>1, <1>7, <2>1
  <2> HIDE DEF rest, first, n
  <2>3. ASSUME NEW x \in ToSet(s) PROVE x \in {first} \union ToSet(rest)
    BY <1>7, <1>14, <2>2
  <2>4. ASSUME NEW x \in {first} \union ToSet(rest) PROVE x \in ToSet(s)
    BY <1>5, <1>7, <1>8, <2>2
  <2>5. ToSet(s) = {first} \union ToSet(rest)
    BY <2>3, <2>4
  <2> QED
    BY <2>5 DEF rest, first
<1> QED
  BY <1>1, <1>2, <1>6, <1>7, <1>8, <1>11, <1>12

-----------------------------------------------------------------------------
(* Ways through a graph: a flow whose states are in S, and whose           *)
(* transitions, with the given numbers, lead from each to the next.        *)
FromIn(g, id) == IF id > 0 THEN g.edges[id][1] ELSE g.login
ToIn(g, id) == IF id > 0 THEN g.edges[id][2] ELSE -id

Leads(g, f) ==
  \A i \in 1 .. Len(f.ids) : FromIn(g, f.ids[i]) = f.path[i] /\ ToIn(g, f.ids[i]) = f.path[i + 1]

Ways(g, I, S) ==
  {f \in [ids : Seq(I), path : Seq(S)] : Len(f.path) = Len(f.ids) + 1 /\ Leads(g, f)}

EdgesOf(g) == DOMAIN g.edges
Walks(g, S) == Ways(g, EdgesOf(g), S)

LEMMA WayIs ==
  ASSUME NEW g, NEW I, NEW S, NEW f \in Ways(g, I, S)
  PROVE  /\ f = [ids |-> f.ids, path |-> f.path]
         /\ f.ids \in Seq(I) /\ f.path \in Seq(S) /\ f.path # <<>>
         /\ Len(f.ids) \in Nat /\ Len(f.path) = Len(f.ids) + 1
         /\ Leads(g, f)
         /\ Head(f.path) = f.path[1] /\ Last(f.path) = f.path[Len(f.ids) + 1]
         /\ Head(f.path) \in S /\ Last(f.path) \in S /\ Head(f.path) \in ToSet(f.path)
         /\ Last(f.path) \in ToSet(f.path) /\ ToSet(f.path) \subseteq S /\ ToSet(f.ids) \subseteq I
<1>1. /\ f \in [ids : Seq(I), path : Seq(S)] /\ Len(f.path) = Len(f.ids) + 1 /\ Leads(g, f)
  BY DEF Ways
<1>2. f.ids \in Seq(I) /\ f.path \in Seq(S) /\ f = [ids |-> f.ids, path |-> f.path]
  BY <1>1
<1>3. Len(f.ids) \in Nat /\ Len(f.path) # 0
  BY <1>1, <1>2
<1>4. f.path # <<>> /\ ToSet(f.path) \subseteq S /\ ToSet(f.ids) \subseteq I
  BY <1>2, <1>3, ElementsAre
<1>5. /\ Head(f.path) = f.path[1] /\ Last(f.path) = f.path[Len(f.path)]
      /\ Head(f.path) \in S /\ Last(f.path) \in S
      /\ Head(f.path) \in ToSet(f.path) /\ Last(f.path) \in ToSet(f.path)
  BY <1>2, <1>4, EndsAre
<1> QED
  BY <1>1, <1>2, <1>3, <1>4, <1>5

(* What makes a way.                                                       *)
LEMMA IsAWay ==
  ASSUME NEW g, NEW I, NEW S, NEW ids \in Seq(I), NEW path \in Seq(S),
         Len(path) = Len(ids) + 1,
         \A i \in 1 .. Len(ids) : FromIn(g, ids[i]) = path[i] /\ ToIn(g, ids[i]) = path[i + 1]
  PROVE  [ids |-> ids, path |-> path] \in Ways(g, I, S)
<1> DEFINE f == [ids |-> ids, path |-> path]
<1>1. f \in [ids : Seq(I), path : Seq(S)] /\ f.ids = ids /\ f.path = path
  OBVIOUS
<1> HIDE DEF f
<1>2. Leads(g, f)
  BY <1>1 DEF Leads
<1>3. f \in Ways(g, I, S)
  BY <1>1, <1>2 DEF Ways
<1> QED
  BY <1>3 DEF f

LEMMA GraphIs ==
  ASSUME graph \in Inputs
  PROVE  /\ IsGraph(graph) /\ Len(graph.edges) \in Nat /\ Edge = 1 .. Len(graph.edges)
         /\ EdgesOf(graph) = Edge
         /\ State \subseteq Nat \ {0} /\ Unset \notin State /\ Unset \notin Edge
         /\ \A e \in Edge : /\ e \in Nat \ {0} /\ Source(e) \in State /\ Target(e) \in State
                            /\ FromIn(graph, e) = Source(e) /\ ToIn(graph, e) = Target(e)
         /\ graph.checkpoints \subseteq State
         /\ graph.root # Unset => graph.root \in State /\ ValidStarts \subseteq State
<1>1. IsGraph(graph) /\ Unset \notin Int
  BY GenerationAssumption
<1>2. /\ graph.edges \in Seq((Nat \ {0}) \X (Nat \ {0})) /\ graph.checkpoints \subseteq Nat \ {0}
      /\ graph.root \in (Nat \ {0}) \union {Unset}
  BY <1>1 DEF IsGraph
<1>3. Len(graph.edges) \in Nat /\ Edge = 1 .. Len(graph.edges)
  BY <1>2 DEF Edge
<1>4. ASSUME NEW e \in Edge
      PROVE  /\ e \in Nat \ {0} /\ Source(e) \in Nat \ {0} /\ Target(e) \in Nat \ {0}
             /\ FromIn(graph, e) = Source(e) /\ ToIn(graph, e) = Target(e)
  <2>1. e \in Nat \ {0} /\ e > 0
    BY <1>3
  <2>2. graph.edges[e] \in (Nat \ {0}) \X (Nat \ {0})
    BY <1>2, <1>3
  <2>3. graph.edges[e][1] \in Nat \ {0} /\ graph.edges[e][2] \in Nat \ {0}
    BY <2>2
  <2> QED
    BY <2>1, <2>3 DEF Source, Target, FromIn, ToIn
<1>5. State \subseteq Nat \ {0}
  BY <1>2, <1>4 DEF State
<1>6. \A e \in Edge : Source(e) \in State /\ Target(e) \in State
  BY DEF State
<1>7. EdgesOf(graph) = Edge
  BY DEF EdgesOf, Edge
<1>8. Unset \notin State /\ Unset \notin Edge
  <2>1. State \subseteq Int
    BY <1>5
  <2>2. Edge \subseteq Int
    BY <1>3
  <2> QED
    BY <1>1, <2>1, <2>2, Zenon
<1>9. graph.checkpoints \subseteq State /\ (graph.root # Unset => graph.root \in State)
  BY DEF State
<1>10. graph.root # Unset => ValidStarts \subseteq State
  BY <1>9 DEF ValidStarts
<1> QED
  BY <1>1, <1>3, <1>4, <1>5, <1>6, <1>7, <1>8, <1>9, <1>10

LEMMA InOrderIs ==
  ASSUME graph \in Inputs, NEW E, E \subseteq Edge
  PROVE  InOrder(E) \in Seq(Edge) /\ ToSet(InOrder(E)) = E
<1> DEFINE all == [e \in Edge |-> e]
<1>1. Len(graph.edges) \in Nat /\ Edge = 1 .. Len(graph.edges)
  BY GraphIs
<1>2. all \in Seq(Edge) /\ DOMAIN all = Edge
  BY <1>1
<1>3. ToSet(all) = Edge
  BY <1>2 DEF ToSet
<1> HIDE DEF all
<1>4. Only(all, E) \in Seq(Edge) /\ ToSet(Only(all, E)) = ToSet(all) \intersect E
  BY <1>2, OnlyIs, Zenon
<1>5. InOrder(E) = Only(all, E)
  BY DEF InOrder, all
<1> QED
  BY <1>3, <1>4, <1>5

LEMMA StartIs ==
  ASSUME NEW g, NEW I, NEW S, NEW n \in S
  PROVE  /\ Start(n) \in Ways(g, I, S) /\ Start(n).ids = <<>> /\ ToSet(Start(n).ids) = {}
         /\ Head(Start(n).path) = n /\ Last(Start(n).path) = n /\ ToSet(Start(n).path) = {n}
<1>1. <<>> \in Seq(I) /\ <<n>> \in Seq(S) /\ Len(<<>>) = 0 /\ Len(<<n>>) = 1 /\ <<n>>[1] = n
  OBVIOUS
<1>2. Start(n) \in Ways(g, I, S)
  <2>1. \A i \in 1 .. 0 : FALSE
    OBVIOUS
  <2> DEFINE none == <<>>
             one == <<n>>
  <2>2. none \in Seq(I) /\ one \in Seq(S) /\ Len(one) = Len(none) + 1 /\ \A i \in 1 .. Len(none) : FALSE
    BY <1>1, <2>1
  <2> HIDE DEF none, one
  <2>3. [ids |-> none, path |-> one] \in Ways(g, I, S)
    BY <2>2, IsAWay
  <2> QED
    BY <2>3 DEF Start, none, one
<1>3. Start(n).ids = <<>> /\ Start(n).path = <<n>>
  BY DEF Start
<1>4. ToSet(<<>>) = {}
  BY <1>1, ElementsAre
<1>5. ToSet(<<n>>) = {n}
  <2>1. ToSet(<<n>>) = {<<n>>[i] : i \in 1 .. Len(<<n>>)}
    BY <1>1, ElementsAre, Zenon
  <2> QED
    BY <1>1, <2>1
<1>6. Head(<<n>>) = n /\ Last(<<n>>) = n
  BY <1>1 DEF Last
<1> QED
  BY <1>2, <1>3, <1>4, <1>5, <1>6

LEMMA StepIs ==
  ASSUME graph \in Inputs, NEW S, NEW f \in Walks(graph, S), NEW e \in Edge,
         Source(e) = Last(f.path), Target(e) \in S
  PROVE  /\ Step(f, e) \in Walks(graph, S)
         /\ ToSet(Step(f, e).ids) = ToSet(f.ids) \union {e}
         /\ ToSet(Step(f, e).path) = ToSet(f.path) \union {Target(e)}
         /\ Len(Step(f, e).ids) = Len(f.ids) + 1 /\ Step(f, e).ids # <<>>
         /\ Head(Step(f, e).path) = Head(f.path) /\ Last(Step(f, e).path) = Target(e)
<1> DEFINE I == EdgesOf(graph)
           n == Len(f.ids)
           ids == Append(f.ids, e)
           path == Append(f.path, Target(e))
<1>1. /\ f.ids \in Seq(I) /\ f.path \in Seq(S) /\ n \in Nat /\ Len(f.path) = n + 1
      /\ Leads(graph, f) /\ Head(f.path) = f.path[1] /\ Last(f.path) = f.path[n + 1]
  BY WayIs DEF Walks
<1>2. e \in I /\ FromIn(graph, e) = Source(e) /\ ToIn(graph, e) = Target(e)
  BY GraphIs
<1>3. /\ ids \in Seq(I) /\ ToSet(ids) = ToSet(f.ids) \union {e} /\ Len(ids) = n + 1
      /\ ids[n + 1] = e /\ \A i \in 1 .. n : ids[i] = f.ids[i]
  BY <1>1, <1>2, AppendedIs
<1>4. /\ path \in Seq(S) /\ ToSet(path) = ToSet(f.path) \union {Target(e)} /\ Len(path) = n + 2
      /\ path[n + 2] = Target(e) /\ \A i \in 1 .. n + 1 : path[i] = f.path[i]
  <2>1. /\ path \in Seq(S) /\ ToSet(path) = ToSet(f.path) \union {Target(e)}
        /\ Len(path) = Len(f.path) + 1
        /\ path[Len(f.path) + 1] = Target(e) /\ \A i \in 1 .. Len(f.path) : path[i] = f.path[i]
    BY <1>1, AppendedIs
  <2>2. Len(f.path) + 1 = n + 2
    BY <1>1
  <2> QED
    BY <1>1, <2>1, <2>2
<1>5. Step(f, e) = [ids |-> ids, path |-> path]
  BY DEF Step
<1> HIDE DEF ids, path, I, n
<1>6. ASSUME NEW i \in 1 .. n + 1
      PROVE  FromIn(graph, ids[i]) = path[i] /\ ToIn(graph, ids[i]) = path[i + 1]
  <2>1. i \in 1 .. n + 1 /\ path[i] = f.path[i]
    BY <1>4
  <2>2. CASE i = n + 1
    <3>1. i + 1 = n + 2
      BY <1>1, <2>2
    <3> QED
      BY <1>1, <1>2, <1>3, <1>4, <2>1, <2>2, <3>1
  <2>3. CASE i # n + 1
    <3>1. i \in 1 .. n /\ i + 1 \in 1 .. n + 1
      BY <1>1, <2>3
    <3>2. ids[i] = f.ids[i] /\ path[i + 1] = f.path[i + 1]
      BY <1>3, <1>4, <3>1
    <3>3. FromIn(graph, f.ids[i]) = f.path[i] /\ ToIn(graph, f.ids[i]) = f.path[i + 1]
      BY <1>1, <3>1 DEF Leads, n
    <3> QED
      BY <2>1, <3>2, <3>3
  <2> QED
    BY <2>2, <2>3
<1>7. [ids |-> ids, path |-> path] \in Ways(graph, I, S)
  <2>1. Len(path) = Len(ids) + 1
    BY <1>1, <1>3, <1>4
  <2>2. \A i \in 1 .. Len(ids) : FromIn(graph, ids[i]) = path[i] /\ ToIn(graph, ids[i]) = path[i + 1]
    BY <1>3, <1>6
  <2> QED
    BY <1>3, <1>4, <2>1, <2>2, IsAWay
<1>8. Step(f, e) \in Walks(graph, S)
  BY <1>5, <1>7 DEF Walks, I
<1>9. Head(path) = path[1] /\ Last(path) = path[n + 2]
  <2>1. path # <<>>
    BY <1>1, <1>4
  <2> QED
    BY <1>4, <2>1, EndsAre
<1>10. path[1] = f.path[1] /\ ids # <<>>
  <2>1. 1 \in 1 .. n + 1 /\ n + 1 # 0
    BY <1>1
  <2>2. ids # <<>>
    BY <1>3, <2>1, ElementsAre
  <2> QED
    BY <1>4, <2>1, <2>2
<1>11. Step(f, e).ids = ids /\ Step(f, e).path = path
  BY <1>5
<1> QED
  BY <1>1, <1>3, <1>4, <1>8, <1>9, <1>10, <1>11 DEF n

LEMMA JoinIs ==
  ASSUME NEW g, NEW I, NEW S, NEW f \in Ways(g, I, S), NEW h \in Ways(g, I, S),
         Last(f.path) = Head(h.path)
  PROVE  /\ Joined(f, h) \in Ways(g, I, S) /\ IsBoth(Joined(f, h).ids, f.ids, h.ids)
         /\ ToSet(Joined(f, h).ids) = ToSet(f.ids) \union ToSet(h.ids)
         /\ Head(Joined(f, h).path) = Head(f.path) /\ Last(Joined(f, h).path) = Last(h.path)
<1> DEFINE m == Len(f.ids)
           n == Len(h.ids)
           ids == f.ids \o h.ids
           path == Front(f.path) \o h.path
<1>1. /\ f.ids \in Seq(I) /\ f.path \in Seq(S) /\ m \in Nat /\ Len(f.path) = m + 1
      /\ Leads(g, f) /\ Head(f.path) = f.path[1] /\ Last(f.path) = f.path[m + 1]
      /\ f.path # <<>>
  BY WayIs
<1>2. /\ h.ids \in Seq(I) /\ h.path \in Seq(S) /\ n \in Nat /\ Len(h.path) = n + 1
      /\ Leads(g, h) /\ Head(h.path) = h.path[1] /\ Last(h.path) = h.path[n + 1]
  BY WayIs
<1>3. /\ ids \in Seq(I) /\ ToSet(ids) = ToSet(f.ids) \union ToSet(h.ids)
      /\ IsBoth(ids, f.ids, h.ids)
      /\ Len(ids) = m + n /\ \A i \in 1 .. m : ids[i] = f.ids[i]
      /\ \A i \in 1 .. n : ids[m + i] = h.ids[i]
  <2>1. f.ids \in Seq(I) /\ h.ids \in Seq(I)
    BY <1>1, <1>2
  <2>2. ids \in Seq(I) /\ ToSet(ids) = ToSet(f.ids) \union ToSet(h.ids) /\ IsBoth(ids, f.ids, h.ids)
    BY <2>1, JoinedIs, Zenon
  <2> HIDE DEF ids
  <2> QED
    BY <2>2 DEF IsBoth
<1>4. Front(f.path) \in Seq(S) /\ Len(Front(f.path)) = m /\ \A k \in 1 .. m : Front(f.path)[k] = f.path[k]
  <2>1. /\ Front(f.path) \in Seq(S) /\ Len(Front(f.path)) = Len(f.path) - 1
        /\ \A k \in 1 .. Len(f.path) - 1 : Front(f.path)[k] = f.path[k]
    BY <1>1, EndsAre
  <2>2. Len(f.path) - 1 = m
    BY <1>1
  <2> QED
    BY <2>1, <2>2
<1>5. /\ path \in Seq(S) /\ Len(path) = m + (n + 1)
      /\ \A i \in 1 .. m : path[i] = Front(f.path)[i]
      /\ \A i \in 1 .. n + 1 : path[m + i] = h.path[i]
  <2>1. Front(f.path) \in Seq(S) /\ h.path \in Seq(S)
    BY <1>2, <1>4
  <2>2. path \in Seq(S) /\ IsBoth(path, Front(f.path), h.path)
    BY <2>1, JoinedIs, Zenon
  <2> HIDE DEF path
  <2> QED
    BY <1>2, <1>4, <2>2 DEF IsBoth
<1>6. Joined(f, h) = [ids |-> ids, path |-> path]
  BY DEF Joined
<1> HIDE DEF ids, path, m, n
<1>7. Joined(f, h).ids = ids /\ Joined(f, h).path = path
  BY <1>6
<1>8. \A i \in 1 .. m + 1 : path[i] = f.path[i]
  <2> SUFFICES ASSUME NEW i \in 1 .. m + 1 PROVE path[i] = f.path[i]
    OBVIOUS
  <2>1. CASE i = m + 1
    <3>1. 1 \in 1 .. n + 1
      BY <1>2
    <3>2. path[m + 1] = h.path[1]
      BY <1>5, <3>1
    <3> QED
      BY <1>1, <1>2, <2>1, <3>2
  <2>2. CASE i # m + 1
    <3>1. i \in 1 .. m
      BY <1>1, <2>2
    <3> QED
      BY <1>4, <1>5, <3>1
  <2> QED
    BY <2>1, <2>2
<1>9. ASSUME NEW i \in 1 .. m + n
      PROVE  FromIn(g, ids[i]) = path[i] /\ ToIn(g, ids[i]) = path[i + 1]
  <2>1. CASE i <= m
    <3>1. i \in 1 .. m /\ i \in 1 .. m + 1 /\ i + 1 \in 1 .. m + 1
      BY <1>1, <2>1
    <3>2. ids[i] = f.ids[i] /\ path[i] = f.path[i] /\ path[i + 1] = f.path[i + 1]
      BY <1>3, <1>8, <3>1
    <3>3. FromIn(g, f.ids[i]) = f.path[i] /\ ToIn(g, f.ids[i]) = f.path[i + 1]
      BY <1>1, <3>1 DEF Leads, m
    <3> QED
      BY <3>2, <3>3
  <2>2. CASE ~(i <= m)
    <3> DEFINE j == i - m
    <3>1. j \in 1 .. n /\ i = m + j /\ j \in 1 .. n + 1 /\ j + 1 \in 1 .. n + 1 /\ i + 1 = m + (j + 1)
      BY <1>1, <1>2, <2>2
    <3> HIDE DEF j
    <3>2. ids[i] = h.ids[j] /\ path[i] = h.path[j] /\ path[i + 1] = h.path[j + 1]
      BY <1>3, <1>5, <3>1
    <3>3. FromIn(g, h.ids[j]) = h.path[j] /\ ToIn(g, h.ids[j]) = h.path[j + 1]
      BY <1>2, <3>1 DEF Leads, n
    <3> QED
      BY <3>2, <3>3
  <2> QED
    BY <2>1, <2>2
<1>10. [ids |-> ids, path |-> path] \in Ways(g, I, S)
  <2>1. Len(path) = Len(ids) + 1
    BY <1>1, <1>2, <1>3, <1>5
  <2>2. \A i \in 1 .. Len(ids) : FromIn(g, ids[i]) = path[i] /\ ToIn(g, ids[i]) = path[i + 1]
    BY <1>3, <1>9
  <2> QED
    BY <1>3, <1>5, <2>1, <2>2, IsAWay
<1>11. Head(path) = Head(f.path) /\ Last(path) = Last(h.path)
  <2>1. m + (n + 1) # 0 /\ 1 \in 1 .. m + 1 /\ n + 1 \in 1 .. n + 1
    BY <1>1, <1>2
  <2>2. path # <<>>
    BY <1>5, <2>1, ElementsAre
  <2>3. Head(path) = path[1] /\ Last(path) = path[m + (n + 1)]
    BY <1>5, <2>2, EndsAre
  <2> QED
    BY <1>1, <1>2, <1>5, <1>8, <2>1, <2>3
<1> QED
  BY <1>3, <1>6, <1>7, <1>10, <1>11 DEF ids

LEMMA PartIs ==
  ASSUME NEW g, NEW I, NEW S, NEW f \in Ways(g, I, S), NEW i \in Nat, NEW j \in Nat,
         1 <= i, i <= j, j <= Len(f.path)
  PROVE  Part(f, i, j) \in Ways(g, I, S) /\ Head(Part(f, i, j).path) = f.path[i]
         /\ Last(Part(f, i, j).path) = f.path[j]
<1> DEFINE n == Len(f.ids)
           m == j - i
           ids == SubSeq(f.ids, i, j - 1)
           path == SubSeq(f.path, i, j)
<1>1. /\ f.ids \in Seq(I) /\ f.path \in Seq(S) /\ n \in Nat /\ Len(f.path) = n + 1
      /\ Leads(g, f)
  BY WayIs
<1>2. m \in Nat /\ j - 1 \in Nat /\ i <= (j - 1) + 1 /\ j - 1 <= n /\ (j - 1) + 1 - i = m
      /\ i <= j + 1 /\ j + 1 - i = m + 1
  BY <1>1
<1>3. ids \in Seq(I) /\ Len(ids) = m /\ \A k \in 1 .. m : ids[k] = f.ids[i + k - 1]
  <2>1. /\ ids \in Seq(I) /\ Len(ids) = (j - 1) + 1 - i
        /\ \A k \in 1 .. (j - 1) + 1 - i : ids[k] = f.ids[i + k - 1]
    BY <1>1, <1>2, CutOutIs
  <2> QED
    BY <1>2, <2>1
<1>4. path \in Seq(S) /\ Len(path) = m + 1 /\ \A k \in 1 .. m + 1 : path[k] = f.path[i + k - 1]
  <2>1. /\ path \in Seq(S) /\ Len(path) = j + 1 - i
        /\ \A k \in 1 .. j + 1 - i : path[k] = f.path[i + k - 1]
    BY <1>1, <1>2, CutOutIs
  <2> QED
    BY <1>2, <2>1
<1>5. Part(f, i, j) = [ids |-> ids, path |-> path]
  BY DEF Part
<1>6. Part(f, i, j).path = path
  BY <1>5
<1>7. i + m = j /\ \A k \in 1 .. m : i + k - 1 \in 1 .. n /\ i + (k + 1) - 1 = (i + k - 1) + 1
                                    /\ k \in 1 .. m + 1 /\ k + 1 \in 1 .. m + 1
  BY <1>1, <1>2
<1> HIDE DEF ids, path, m, n
<1>8. ASSUME NEW k \in 1 .. m
      PROVE  FromIn(g, ids[k]) = path[k] /\ ToIn(g, ids[k]) = path[k + 1]
  <2> DEFINE l == i + k - 1
  <2>1. l \in 1 .. n /\ ids[k] = f.ids[l] /\ path[k] = f.path[l] /\ path[k + 1] = f.path[l + 1]
    BY <1>3, <1>4, <1>7
  <2> HIDE DEF l
  <2>2. FromIn(g, f.ids[l]) = f.path[l] /\ ToIn(g, f.ids[l]) = f.path[l + 1]
    BY <1>1, <2>1 DEF Leads, n
  <2> QED
    BY <2>1, <2>2
<1>9. [ids |-> ids, path |-> path] \in Ways(g, I, S)
  BY <1>2, <1>3, <1>4, <1>8, IsAWay
<1>10. Head(path) = f.path[i] /\ Last(path) = f.path[j]
  <2>1. m + 1 # 0 /\ 1 \in 1 .. m + 1 /\ m + 1 \in 1 .. m + 1 /\ i + 1 - 1 = i /\ i + (m + 1) - 1 = j
    BY <1>2, <1>7
  <2>2. path # <<>>
    BY <1>4, <2>1, ElementsAre
  <2>3. Head(path) = path[1] /\ Last(path) = path[m + 1]
    BY <1>4, <2>2, EndsAre
  <2> QED
    BY <1>4, <2>1, <2>3
<1> QED
  BY <1>5, <1>6, <1>9, <1>10

-----------------------------------------------------------------------------
(* What is said below is about a graph g, so that a step, which leaves the *)
(* graph alone, leaves it true.                                            *)
StatesOf(g) ==
  g.checkpoints \union {g.edges[e][1] : e \in EdgesOf(g)} \union {g.edges[e][2] : e \in EdgesOf(g)}
  \union ({g.root} \ {Unset})
StartsOf(g) == g.checkpoints \union {g.root}

OneMoreIn(g, states) ==
  states \union {g.edges[e][2] : e \in {e \in EdgesOf(g) : g.edges[e][1] \in states}}
WithinIn(g, from, k) ==
  LET upto[i \in 0 .. k] == IF i = 0 THEN from ELSE OneMoreIn(g, upto[i - 1])
  IN  upto[k]

Closed(g, S) == \A e \in EdgesOf(g) : g.edges[e][1] \in S => g.edges[e][2] \in S

(* The states that the root leads to: they are in every set that has the   *)
(* root and is closed.                                                     *)
Reach(g) ==
  {n \in StatesOf(g) : \A S \in SUBSET StatesOf(g) : g.root \in S /\ Closed(g, S) => n \in S}

LEMMA OfTheGraph ==
  /\ State = StatesOf(graph) /\ ValidStarts = StartsOf(graph) /\ Edge = EdgesOf(graph)
  /\ \A from, k : Within(from, k) = WithinIn(graph, from, k)
<1>1. Edge = EdgesOf(graph)
  BY DEF Edge, EdgesOf
<1>2. State = StatesOf(graph)
  BY DEF State, StatesOf, Source, Target, Edge, EdgesOf
<1>3. ValidStarts = StartsOf(graph)
  BY DEF ValidStarts, StartsOf
<1>4. \A states : OneMore(states) = OneMoreIn(graph, states)
  BY DEF OneMore, OneMoreIn, Source, Target, Edge, EdgesOf
<1>5. ASSUME NEW from, NEW k PROVE Within(from, k) = WithinIn(graph, from, k)
  BY DEF Within, WithinIn, OneMore, OneMoreIn, Source, Target, Edge, EdgesOf
<1> QED
  BY <1>1, <1>2, <1>3, <1>5

(* f says how far a search gets in up to n steps.                          *)
Spreads(f, g, from, n) ==
  f = [i \in 0 .. n |-> IF i = 0 THEN from ELSE OneMoreIn(g, f[i - 1])]

LEMMA SpreadExists ==
  ASSUME NEW g, NEW from, NEW n \in Nat
  PROVE  \E f : Spreads(f, g, from, n)
<1> DEFINE X == SUBSET (from \union {g.edges[e][2] : e \in EdgesOf(g)})
           step == [k \in 1 .. n |-> [s \in X |-> OneMoreIn(g, s)]]
<1>1. \A s \in X : OneMoreIn(g, s) \in X
  BY DEF OneMoreIn
<1>2. from \in X
  OBVIOUS
<1> HIDE DEF X
<1>3. Steps(step, X, n)
  BY <1>1 DEF Steps
<1>4. PICK f : Follows(f, from, step, X, n)
  <2> HIDE DEF step
  <2> QED
    BY <1>2, <1>3, Recursion, Zenon
<1>5. /\ f \in [0 .. n -> X] /\ f[0] = from
      /\ \A k \in 1 .. n : f[k] = step[k][f[k - 1]]
  BY <1>4 DEF Follows
<1>6. ASSUME NEW i \in 0 .. n
      PROVE  f[i] = IF i = 0 THEN from ELSE OneMoreIn(g, f[i - 1])
  <2>1. CASE i # 0
    <3>1. i \in 1 .. n /\ i - 1 \in 0 .. n
      BY <2>1
    <3>2. f[i - 1] \in X
      BY <1>5, <3>1
    <3> QED
      BY <1>5, <2>1, <3>1, <3>2
  <2> QED
    BY <1>5, <2>1
<1>7. f = [i \in 0 .. n |-> IF i = 0 THEN from ELSE OneMoreIn(g, f[i - 1])]
  BY <1>5, <1>6
<1> QED
  BY <1>7 DEF Spreads

LEMMA SpreadsAgree ==
  ASSUME NEW g, NEW from, NEW m \in Nat, NEW n \in Nat, m <= n,
         NEW f, Spreads(f, g, from, m), NEW h, Spreads(h, g, from, n)
  PROVE  f[m] = h[m]
<1>1. \A i \in 0 .. m : f[i] = IF i = 0 THEN from ELSE OneMoreIn(g, f[i - 1])
  BY DEF Spreads
<1>2. \A i \in 0 .. n : h[i] = IF i = 0 THEN from ELSE OneMoreIn(g, h[i - 1])
  BY DEF Spreads
<1> DEFINE S == {i \in Nat : i <= m => f[i] = h[i]}
<1>3. 0 \in S
  BY <1>1, <1>2
<1>4. ASSUME NEW i \in S PROVE i + 1 \in S
  <2> SUFFICES ASSUME i + 1 <= m PROVE f[i + 1] = h[i + 1]
    OBVIOUS
  <2>1. i + 1 \in 0 .. m /\ i + 1 \in 0 .. n /\ i + 1 # 0 /\ (i + 1) - 1 = i /\ i <= m
    OBVIOUS
  <2>2. f[i] = h[i]
    BY <2>1
  <2>3. f[i + 1] = OneMoreIn(g, f[i]) /\ h[i + 1] = OneMoreIn(g, h[i])
    BY <1>1, <1>2, <2>1
  <2> QED
    BY <2>2, <2>3
<1>5. S \in SUBSET Nat
  OBVIOUS
<1>6. m \in S
  <2> HIDE DEF S
  <2> QED
    BY <1>3, <1>4, <1>5, NumbersFromZero
<1> QED
  BY <1>6

LEMMA WithinIs ==
  ASSUME NEW g, NEW from
  PROVE  /\ WithinIn(g, from, 0) = from
         /\ \A k \in Nat : WithinIn(g, from, k + 1) = OneMoreIn(g, WithinIn(g, from, k))
<1>1. ASSUME NEW n \in Nat, NEW h, Spreads(h, g, from, n), NEW m \in Nat, m <= n
      PROVE  WithinIn(g, from, m) = h[m]
  <2> DEFINE f == CHOOSE f : Spreads(f, g, from, m)
  <2>1. WithinIn(g, from, m) = f[m]
    BY DEF WithinIn, Spreads
  <2>2. Spreads(f, g, from, m)
    BY SpreadExists
  <2> HIDE DEF f
  <2>3. f[m] = h[m]
    BY <1>1, <2>2, SpreadsAgree
  <2> QED
    BY <2>1, <2>3
<1>2. WithinIn(g, from, 0) = from
  <2>1. PICK h : Spreads(h, g, from, 0)
    BY SpreadExists
  <2>2. h[0] = from
    BY <2>1 DEF Spreads
  <2> QED
    BY <1>1, <2>1, <2>2
<1>3. ASSUME NEW k \in Nat
      PROVE  WithinIn(g, from, k + 1) = OneMoreIn(g, WithinIn(g, from, k))
  <2>1. k + 1 \in Nat /\ k <= k + 1 /\ k + 1 <= k + 1 /\ k + 1 # 0 /\ (k + 1) - 1 = k
    OBVIOUS
  <2>2. PICK h : Spreads(h, g, from, k + 1)
    BY <2>1, SpreadExists
  <2>3. h[k + 1] = OneMoreIn(g, h[k])
    BY <2>1, <2>2 DEF Spreads
  <2>4. WithinIn(g, from, k + 1) = h[k + 1] /\ WithinIn(g, from, k) = h[k]
    BY <1>1, <2>1, <2>2
  <2> QED
    BY <2>3, <2>4
<1> QED
  BY <1>2, <1>3

(* A closed set keeps a search inside.                                     *)
LEMMA ClosedKeeps ==
  ASSUME NEW g, NEW S, Closed(g, S), NEW from, from \subseteq S, NEW k \in Nat
  PROVE  WithinIn(g, from, k) \subseteq S
<1> DEFINE N == {n \in Nat : WithinIn(g, from, n) \subseteq S}
<1>1. 0 \in N
  BY WithinIs
<1>2. ASSUME NEW n \in N PROVE n + 1 \in N
  <2>1. WithinIn(g, from, n + 1) = OneMoreIn(g, WithinIn(g, from, n))
    BY WithinIs
  <2>2. WithinIn(g, from, n) \subseteq S
    OBVIOUS
  <2> DEFINE W == WithinIn(g, from, n)
  <2> HIDE DEF W
  <2>3. W \subseteq S => OneMoreIn(g, W) \subseteq S
    BY DEF OneMoreIn, Closed
  <2>4. WithinIn(g, from, n + 1) \subseteq S
    BY <2>1, <2>2, <2>3 DEF W
  <2> QED
    BY <2>4
<1>3. N \in SUBSET Nat
  OBVIOUS
<1>4. \A n \in Nat : n \in N
  <2> HIDE DEF N
  <2> QED
    BY <1>1, <1>2, <1>3, NumbersFromZero
<1> QED
  BY <1>4

LEMMA ReachIs ==
  ASSUME graph \in Inputs, graph.root # Unset
  PROVE  /\ graph.root \in Reach(graph) /\ Reach(graph) \subseteq State
         /\ \A e \in Edge : Source(e) \in Reach(graph) => Target(e) \in Reach(graph)
<1>1. graph.root \in State /\ State = StatesOf(graph) /\ Edge = EdgesOf(graph)
  BY GraphIs, OfTheGraph
<1>2. graph.root \in Reach(graph) /\ Reach(graph) \subseteq State
  BY <1>1 DEF Reach
<1>3. ASSUME NEW e \in Edge, Source(e) \in Reach(graph) PROVE Target(e) \in Reach(graph)
  <2>1. Target(e) \in StatesOf(graph)
    BY <1>1, GraphIs
  <2>2. ASSUME NEW S \in SUBSET StatesOf(graph), graph.root \in S, Closed(graph, S)
        PROVE  Target(e) \in S
    <3>1. Source(e) \in S
      BY <1>3, <2>2 DEF Reach
    <3> QED
      BY <1>1, <2>2, <3>1 DEF Closed, Source, Target
  <2> QED
    BY <2>1, <2>2 DEF Reach
<1> QED
  BY <1>2, <1>3

-----------------------------------------------------------------------------
(* Types, of which those of the flows say that they are ways.  Until the   *)
(* prefixes are put before them, candidates stay where the root leads.     *)
Phases == {"generate", "merge", "prefix", "login", "select", "store", "done"}
SelectionBegun == {"select", "store", "done"}

Found(g) == Walks(g, Reach(g))
Begun(g) == {f \in Walks(g, StatesOf(g)) : Head(f.path) \in StartsOf(g)}
Complete(g) ==
  IF g.login = Unset THEN Begun(g)
  ELSE {f \in Ways(g, Int \ {0}, StatesOf(g) \union {g.login}) :
          Head(f.path) = g.login /\ \A i \in 2 .. Len(f.ids) : f.ids[i] > 0}
CandidatesOf(g, p) ==
  IF p \in {"generate", "merge", "prefix"} THEN Found(g)
  ELSE IF p = "login" THEN Begun(g) ELSE Complete(g)
StoredOf(g) ==
  {[checkpoint |-> Head(f.path), ids |-> f.ids] : f \in {f \in Complete(g) : f.ids # <<>>}}

InputTyped ==
  /\ graph \in Inputs /\ options \in Options
  /\ phase \in Phases /\ (phase # "done" => graph.root # Unset)
WalkTyped ==
  /\ starts \in Seq(EdgesOf(graph) \union {Unset}) /\ seeded \subseteq EdgesOf(graph)
  /\ \A e \in ToSet(starts) : e # Unset => graph.edges[e][1] \in Reach(graph)
  /\ flow # Unset => flow \in Found(graph)
ListsTyped ==
  /\ candidates \in Seq(CandidatesOf(graph, phase))
  /\ short \in Seq(Found(graph)) /\ merged \in Seq(Found(graph))
SearchTyped ==
  /\ queue \in Seq(Begun(graph)) /\ visited \subseteq StatesOf(graph)
  /\ \A n \in DOMAIN prefixes :
       n \in StatesOf(graph) /\ prefixes[n] \in Begun(graph) /\ Last(prefixes[n].path) = n
SelectTyped ==
  /\ phase \notin SelectionBegun => heap = <<>> /\ selected = <<>>
  /\ DOMAIN heap \subseteq DOMAIN candidates /\ \A i \in DOMAIN heap : heap[i] \in Nat
  /\ selected \in Seq(DOMAIN candidates)
  /\ \A i \in DOMAIN heap \union ToSet(selected) : candidates[i].ids # <<>>
  /\ stored \in Seq(StoredOf(graph))

Typed == InputTyped /\ WalkTyped /\ ListsTyped /\ SearchTyped /\ SelectTyped

LEMMA OptionsAre ==
  ASSUME options \in Options
  PROVE  /\ options.minStates \in Nat \ {0} /\ options.maxStates \in Nat
         /\ options.threshold # Unset => options.threshold \in 0 .. 100
         /\ MaxFlows \in Nat \ {0}
<1>1. /\ options.minStates \in 1 .. options.maxStates /\ options.maxStates \in Nat
      /\ options.threshold \in (0 .. 100) \union {Unset}
      /\ options.maxFlows \in (1 .. MaxTaken) \union {Unset} /\ MaxTaken \in Nat \ {0}
  BY GenerationAssumption
<1>2. options.minStates \in Nat \ {0}
  BY <1>1
<1>3. MaxFlows \in Nat \ {0}
  BY <1>1 DEF MaxFlows
<1> QED
  BY <1>1, <1>2, <1>3

LEMMA ReversedIs ==
  ASSUME NEW S, NEW s \in Seq(S)
  PROVE  Reverse(s) \in Seq(S) /\ ToSet(Reverse(s)) = ToSet(s)
<1> DEFINE n == Len(s)
           r == Reverse(s)
<1>1. n \in Nat /\ \A i \in 1 .. n : s[i] \in S /\ (n - i) + 1 \in 1 .. n
  OBVIOUS
<1>2. r = [i \in 1 .. n |-> s[(n - i) + 1]]
  BY DEF Reverse
<1> HIDE DEF r, n
<1>3. r \in [1 .. n -> S]
  BY <1>1, <1>2
<1>4. r \in Seq(S) /\ Len(r) = n
  BY <1>1, <1>3
<1>5. ToSet(s) = {s[i] : i \in 1 .. n} /\ ToSet(r) = {r[i] : i \in 1 .. n}
  <2>1. ToSet(r) = {r[i] : i \in 1 .. Len(r)}
    BY <1>4, ElementsAre, Zenon
  <2>2. ToSet(s) = {s[i] : i \in 1 .. Len(s)}
    BY ElementsAre, Zenon
  <2> QED
    BY <1>4, <2>1, <2>2 DEF n
<1>6. \A i \in 1 .. n : r[i] = s[(n - i) + 1] /\ s[i] = r[(n - i) + 1]
  <2> SUFFICES ASSUME NEW i \in 1 .. n PROVE r[i] = s[(n - i) + 1] /\ s[i] = r[(n - i) + 1]
    OBVIOUS
  <2>1. (n - i) + 1 \in 1 .. n /\ (n - ((n - i) + 1)) + 1 = i
    BY <1>1
  <2> QED
    BY <1>2, <2>1
<1>7. ToSet(r) = ToSet(s)
  BY <1>1, <1>5, <1>6
<1> QED
  BY <1>4, <1>7 DEF r

(* Where a walk is, and where it may go on.                                *)
LEMMA WalkIs ==
  ASSUME Typed, phase = "generate", flow # Unset
  PROVE  /\ flow \in Found(graph) /\ Here \in Reach(graph) /\ Here \in ToSet(flow.path)
         /\ Forward \in Seq(Edge) /\ ToSet(Forward) = {e \in Leaving(Here) : ~Returns(e)}
         /\ \A e \in Leaving(Here) :
              /\ e \in Edge /\ Source(e) = Here /\ Target(e) \in Reach(graph)
              /\ Step(flow, e) \in Found(graph)
              /\ ToSet(Step(flow, e).ids) = ToSet(flow.ids) \union {e}
              /\ ToSet(Step(flow, e).path) = ToSet(flow.path) \union {Target(e)}
              /\ Last(Step(flow, e).path) = Target(e)
         /\ Loops \in Seq(Found(graph))
         /\ ToSet(Loops) = {Step(flow, e) : e \in {e \in Leaving(Here) : Returns(e)}}
<1>1. graph \in Inputs /\ graph.root # Unset /\ flow \in Found(graph)
  BY DEF Typed, InputTyped, WalkTyped
<1>2. Here \in Reach(graph) /\ Here \in ToSet(flow.path)
  BY <1>1, WayIs DEF Here, Found, Walks
<1>3. ASSUME NEW e \in Leaving(Here)
      PROVE  e \in Edge /\ Source(e) = Here /\ Target(e) \in Reach(graph)
  <2>1. e \in Edge /\ Source(e) = Here
    BY DEF Leaving
  <2>2. Target(e) \in Reach(graph)
    BY <1>1, <1>2, <2>1, ReachIs
  <2> QED
    BY <2>1, <2>2
<1>4. ASSUME NEW e \in Leaving(Here)
      PROVE  /\ Step(flow, e) \in Found(graph)
             /\ ToSet(Step(flow, e).ids) = ToSet(flow.ids) \union {e}
             /\ ToSet(Step(flow, e).path) = ToSet(flow.path) \union {Target(e)}
             /\ Last(Step(flow, e).path) = Target(e)
  <2>1. /\ e \in Edge /\ Source(e) = Last(flow.path) /\ Target(e) \in Reach(graph)
        /\ flow \in Walks(graph, Reach(graph))
    BY <1>1, <1>3 DEF Here, Found
  <2> QED
    <3> DEFINE S == Reach(graph)
    <3>1. /\ e \in Edge /\ Source(e) = Last(flow.path) /\ Target(e) \in S
          /\ flow \in Walks(graph, S)
      BY <2>1
    <3> HIDE DEF S
    <3>2. /\ Step(flow, e) \in Walks(graph, S)
          /\ ToSet(Step(flow, e).ids) = ToSet(flow.ids) \union {e}
          /\ ToSet(Step(flow, e).path) = ToSet(flow.path) \union {Target(e)}
          /\ Last(Step(flow, e).path) = Target(e)
      BY <1>1, <3>1, StepIs
    <3> QED
      BY <3>2 DEF S, Found
<1>5. {e \in Leaving(Here) : ~Returns(e)} \subseteq Edge /\ {e \in Leaving(Here) : Returns(e)} \subseteq Edge
  BY <1>3
<1>6. Forward \in Seq(Edge) /\ ToSet(Forward) = {e \in Leaving(Here) : ~Returns(e)}
  BY <1>1, <1>5, InOrderIs, Zenon DEF Forward
<1> DEFINE ways == {e \in Leaving(Here) : Returns(e)}
           back == InOrder(ways)
<1>7. back \in Seq(Edge) /\ ToSet(back) = ways
  BY <1>1, <1>5, InOrderIs, Zenon
<1>8. \A i \in DOMAIN back : back[i] \in Leaving(Here)
  BY <1>7 DEF ToSet
<1>9. Loops = [i \in DOMAIN back |-> Step(flow, back[i])]
  BY DEF Loops
<1> HIDE DEF back
<1>10. Len(back) \in Nat /\ DOMAIN back = 1 .. Len(back)
  BY <1>7
<1>11. \A i \in DOMAIN back : Step(flow, back[i]) \in Found(graph)
  BY <1>4, <1>8
<1>12. Loops \in [1 .. Len(back) -> Found(graph)] /\ DOMAIN Loops = DOMAIN back
  BY <1>9, <1>10, <1>11
<1>13. Loops \in Seq(Found(graph))
  BY <1>10, <1>12
<1>14. ToSet(Loops) = {Step(flow, back[i]) : i \in DOMAIN back}
  BY <1>9, <1>12 DEF ToSet
<1>15. ToSet(Loops) = {Step(flow, e) : e \in ways}
  <2>1. ways = {back[i] : i \in DOMAIN back}
    BY <1>7 DEF ToSet
  <2> HIDE DEF ways
  <2> QED
    BY <1>14, <2>1
<1> QED
  BY <1>1, <1>2, <1>3, <1>4, <1>6, <1>13, <1>15

LEMMA MappedIs ==
  ASSUME NEW S, NEW T, NEW s \in Seq(S), NEW r, r = [i \in DOMAIN s |-> r[i]],
         \A i \in DOMAIN s : r[i] \in T
  PROVE  r \in Seq(T) /\ Len(r) = Len(s) /\ DOMAIN r = DOMAIN s
<1>1. Len(s) \in Nat /\ DOMAIN s = 1 .. Len(s)
  OBVIOUS
<1>2. r \in [1 .. Len(s) -> T]
  BY <1>1
<1> QED
  BY <1>1, <1>2

-----------------------------------------------------------------------------
(* Types are kept by what does not change.                                 *)
LEMMA InputKept ==
  ASSUME InputTyped, UNCHANGED input, phase' \in Phases, phase # "done"
  PROVE  InputTyped'
BY DEF InputTyped, input

LEMMA WalkKept ==
  ASSUME WalkTyped, UNCHANGED <<input, walkVars>>
  PROVE  WalkTyped'
<1>1. graph' = graph /\ starts' = starts /\ seeded' = seeded /\ flow' = flow
  BY DEF input, walkVars
<1> QED
  BY <1>1 DEF WalkTyped

LEMMA ListsKept ==
  ASSUME ListsTyped, UNCHANGED <<input, candidates, mergeVars>>,
         CandidatesOf(graph, phase') = CandidatesOf(graph, phase)
  PROVE  ListsTyped'
<1>1. graph' = graph /\ candidates' = candidates /\ short' = short /\ merged' = merged
  BY DEF input, mergeVars
<1>2. CandidatesOf(graph', phase') = CandidatesOf(graph, phase)
  BY <1>1
<1> QED
  BY <1>1, <1>2 DEF ListsTyped

LEMMA SearchKept ==
  ASSUME SearchTyped, UNCHANGED <<input, searchVars>>
  PROVE  SearchTyped'
<1>1. graph' = graph /\ queue' = queue /\ visited' = visited /\ prefixes' = prefixes
  BY DEF input, searchVars
<1> QED
  BY <1>1 DEF SearchTyped

(* Before the selection nothing is selected.                               *)
LEMMA NothingSelectedYet ==
  ASSUME SelectTyped, UNCHANGED <<input, selectVars, stored>>, phase \notin SelectionBegun
  PROVE  SelectTyped'
<1>1. /\ graph' = graph /\ heap' = heap /\ selected' = selected /\ stored' = stored
      /\ heap = <<>> /\ selected = <<>>
  BY DEF input, selectVars, SelectTyped
<1>2. DOMAIN heap' = {} /\ selected' \in Seq(DOMAIN candidates') /\ ToSet(selected') = {}
  <2>1. <<>> \in Seq(DOMAIN candidates') /\ DOMAIN <<>> = {}
    OBVIOUS
  <2>2. ToSet(<<>>) = {}
    BY <2>1 DEF ToSet
  <2> QED
    BY <1>1, <2>1, <2>2
<1>3. heap' = <<>> /\ selected' = <<>>
  BY <1>1
<1>4. stored' \in Seq(StoredOf(graph'))
  BY <1>1 DEF SelectTyped
<1>5. \A i \in DOMAIN heap' \union ToSet(selected') : FALSE
  BY <1>2
<1> QED
  BY <1>2, <1>3, <1>4, <1>5, Zenon DEF SelectTyped

(* What both merges make of a short candidate are ways.                    *)
LEMMA FixedIs ==
  ASSUME Typed, phase = "merge", NEW f \in Found(graph)
  PROVE  Fixed(f) \subseteq Found(graph)
<1> DEFINE R == Reach(graph)
           I == EdgesOf(graph)
<1>1. Found(graph) = Ways(graph, I, R)
  BY DEF Found, Walks
<1>2. \A g \in ToSet(candidates) : g \in Ways(graph, I, R)
  <2>1. candidates \in Seq(Found(graph))
    BY DEF Typed, ListsTyped, CandidatesOf
  <2> QED
    BY <1>1, <2>1, ElementsAre
<1>3. f \in Ways(graph, I, R)
  BY <1>1
<1> HIDE DEF R, I
<1>4. ASSUME NEW g \in ToSet(candidates), NEW k \in 1 .. Len(g.path) - 1, g.path[k] = Last(f.path)
      PROVE  Joined(f, Part(g, k, Len(g.path))) \in Ways(graph, I, R)
  <2>1. g \in Ways(graph, I, R) /\ Len(g.path) \in Nat
    BY <1>2, WayIs
  <2>2. k \in Nat /\ 1 <= k /\ k <= Len(g.path) /\ Len(g.path) <= Len(g.path)
    BY <2>1
  <2> DEFINE h == Part(g, k, Len(g.path))
  <2>3. h \in Ways(graph, I, R) /\ Head(h.path) = g.path[k]
    BY <2>1, <2>2, PartIs
  <2> HIDE DEF h
  <2>4. Joined(f, h) \in Ways(graph, I, R)
    BY <1>3, <1>4, <2>3, JoinIs
  <2> QED
    BY <2>4 DEF h
<1>5. ASSUME NEW g \in ToSet(candidates), NEW k \in 2 .. Len(g.path), g.path[k] = Head(f.path)
      PROVE  Joined(Part(g, 1, k), f) \in Ways(graph, I, R)
  <2>1. g \in Ways(graph, I, R) /\ Len(g.path) \in Nat
    BY <1>2, WayIs
  <2>2. k \in Nat /\ 1 \in Nat /\ 1 <= 1 /\ 1 <= k /\ k <= Len(g.path)
    BY <2>1
  <2> DEFINE h == Part(g, 1, k)
  <2>3. h \in Ways(graph, I, R) /\ Last(h.path) = g.path[k]
    BY <2>1, <2>2, PartIs
  <2> HIDE DEF h
  <2>4. Joined(h, f) \in Ways(graph, I, R)
    BY <1>3, <1>5, <2>3, JoinIs
  <2> QED
    BY <2>4 DEF h
<1>6. Continuations(f) \subseteq Ways(graph, I, R)
  BY <1>4 DEF Continuations, LongEnough
<1>7. Beginnings(f) \subseteq Ways(graph, I, R)
  BY <1>5 DEF Beginnings, LongEnough
<1> QED
  BY <1>1, <1>6, <1>7 DEF Fixed, Shortest, R, I

LEMMA FlowIsSet ==
  ASSUME graph \in Inputs, graph.root # Unset, NEW f \in Found(graph)
  PROVE  f # Unset
<1>1. EdgesOf(graph) \subseteq Int /\ Reach(graph) \subseteq Int
  BY GraphIs, ReachIs
<1>2. f.ids \in Seq(EdgesOf(graph)) /\ f.path \in Seq(Reach(graph)) /\ f = [ids |-> f.ids, path |-> f.path]
  BY WayIs DEF Found, Walks
<1>3. \A S, T : S \subseteq T => Seq(S) \subseteq Seq(T)
  OBVIOUS
<1>4. f.ids \in Seq(Int) /\ f.path \in Seq(Int)
  BY <1>1, <1>2, <1>3
<1>5. f \in [ids : Seq(Int), path : Seq(Int)]
  BY <1>2, <1>4
<1> QED
  BY <1>5, GenerationAssumption

(* What starts a walk.                                                     *)
LEMMA PopIs ==
  ASSUME Typed, PopStart
  PROVE  LET e == Last(starts) IN
         /\ e \in Edge \union {Unset} /\ starts' \in Seq(Edge \union {Unset})
         /\ ToSet(starts) = ToSet(starts') \union {e}
         /\ flow' \in Found(graph) /\ flow' # Unset
         /\ e = Unset => Last(flow'.path) = graph.root /\ ToSet(flow'.path) = {graph.root}
                         /\ ToSet(flow'.ids) = {}
         /\ e # Unset => /\ Last(flow'.path) = Target(e) /\ ToSet(flow'.ids) = {e}
                         /\ ToSet(flow'.path) = {Source(e), Target(e)}
<1> DEFINE e == Last(starts)
           R == Reach(graph)
<1>1. /\ graph \in Inputs /\ graph.root # Unset /\ Edge = EdgesOf(graph)
      /\ starts \in Seq(Edge \union {Unset}) /\ starts # <<>> /\ starts' = Front(starts)
      /\ flow' = IF e = Unset THEN Start(graph.root) ELSE Step(Start(Source(e)), e)
      /\ \A x \in ToSet(starts) : x # Unset => graph.edges[x][1] \in R
  BY OfTheGraph DEF Typed, InputTyped, WalkTyped, PopStart
<1>2. /\ e \in Edge \union {Unset} /\ e \in ToSet(starts)
      /\ starts' \in Seq(Edge \union {Unset}) /\ ToSet(starts) = ToSet(starts') \union {e}
  BY <1>1, EndsAre
<1>3. graph.root \in R /\ \A x \in Edge : Source(x) \in R => Target(x) \in R
  BY <1>1, ReachIs
<1> HIDE DEF e, R
<1>4. CASE e = Unset
  <2>1. /\ Start(graph.root) \in Ways(graph, EdgesOf(graph), R) /\ ToSet(Start(graph.root).ids) = {}
        /\ Last(Start(graph.root).path) = graph.root /\ ToSet(Start(graph.root).path) = {graph.root}
    BY <1>3, StartIs
  <2>2. flow' = Start(graph.root)
    BY <1>1, <1>4
  <2>3. flow' # Unset
    BY <1>1, <2>1, <2>2, FlowIsSet DEF Found, Walks, R
  <2> QED
    BY <1>2, <1>4, <2>1, <2>2, <2>3 DEF Found, Walks, R, e
<1>5. CASE e # Unset
  <2>1. e \in Edge /\ Source(e) \in R /\ Target(e) \in R
    BY <1>1, <1>2, <1>3, <1>5 DEF Source
  <2> DEFINE s == Start(Source(e))
  <2>2. /\ s \in Walks(graph, R) /\ ToSet(s.ids) = {}
        /\ Last(s.path) = Source(e) /\ ToSet(s.path) = {Source(e)}
    BY <2>1, StartIs DEF Walks
  <2> HIDE DEF s
  <2>3. /\ Step(s, e) \in Walks(graph, R) /\ ToSet(Step(s, e).ids) = ToSet(s.ids) \union {e}
        /\ ToSet(Step(s, e).path) = ToSet(s.path) \union {Target(e)}
        /\ Last(Step(s, e).path) = Target(e)
    <3>1. /\ graph \in Inputs /\ s \in Walks(graph, R) /\ e \in Edge
          /\ Source(e) = Last(s.path) /\ Target(e) \in R
      BY <1>1, <2>1, <2>2
    <3> QED
      BY <3>1, StepIs
  <2>4. flow' = Step(s, e)
    BY <1>1, <1>5 DEF s
  <2>5. flow' # Unset
    BY <1>1, <2>3, <2>4, FlowIsSet DEF Found, R
  <2> QED
    BY <1>2, <1>5, <2>1, <2>2, <2>3, <2>4, <2>5 DEF Found, R, e
<1> QED
  BY <1>4, <1>5

-----------------------------------------------------------------------------
(* Stage 1.  Taken are the edges that candidates have, or the flow that is *)
(* being walked and that will be one; due are those and the ones that a    *)
(* walk will start with.  Wherever a walk has been, all edges are due.     *)
TakenBy(flows) == UNION {ToSet(f.ids) : f \in ToSet(flows)}
IdsOf(f) == IF f = Unset THEN {} ELSE ToSet(f.ids)
PathOf(f) == IF f = Unset THEN {} ELSE ToSet(f.path)
Taken == TakenBy(candidates) \union IdsOf(flow)
Due == Taken \union ToSet(starts)

Walked(g, due, n) == \A e \in EdgesOf(g) : g.edges[e][1] = n => e \in due
IsEnd(f, n) == f # Unset /\ n = Last(f.path)
Cared(n) == Walked(graph, Due, n) \/ IsEnd(flow, n)

Thorough ==
  phase = "generate" =>
    /\ Unset \in ToSet(starts) \/ Cared(graph.root)
    /\ \A e \in Taken : Cared(graph.edges[e][2])
    /\ \A n \in PathOf(flow) : Cared(n)
    /\ \A e \in ToSet(starts) : e # Unset => Walked(graph, Due, graph.edges[e][1])
    /\ seeded \subseteq Due

EdgesReached(g) == {e \in EdgesOf(g) : g.edges[e][1] \in Reach(g)}

(* With no limit to the length of a flow, no later step loses an edge.     *)
Covered ==
  phase # "generate" /\ graph.root # Unset /\ options.minStates = 1 =>
    EdgesReached(graph) \subseteq TakenBy(candidates)

LEMMA MoreIsWalked ==
  ASSUME NEW g, NEW due, NEW more, due \ {Unset} \subseteq more, Unset \notin EdgesOf(g),
         NEW n, Walked(g, due, n)
  PROVE  Walked(g, more, n)
BY DEF Walked

(* A step that cares for what it takes keeps the walks thorough.           *)
LEMMA WalkGoesOn ==
  ASSUME Thorough, phase = "generate", phase' = phase, graph' = graph,
         Unset \notin EdgesOf(graph),
         Due \ {Unset} \subseteq Due',
         \A n : IsEnd(flow, n) => Walked(graph, Due', n),
         \A e \in Taken' : e \in Taken \/ Cared(graph.edges[e][2])
                           \/ Walked(graph, Due', graph.edges[e][2]) \/ IsEnd(flow', graph.edges[e][2]),
         \A n \in PathOf(flow') : n \in PathOf(flow) \/ Cared(n) \/ IsEnd(flow', n),
         \A e \in ToSet(starts') : e # Unset =>
           e \in ToSet(starts) \/ Walked(graph, Due', graph.edges[e][1]),
         Unset \in ToSet(starts) => Unset \in ToSet(starts') \/ IsEnd(flow', graph.root),
         seeded' \subseteq Due'
  PROVE  Thorough'
<1>1. ASSUME NEW n, Cared(n) PROVE Walked(graph, Due', n)
  BY <1>1, MoreIsWalked DEF Cared
<1>2. ASSUME NEW n, Walked(graph, Due', n) \/ IsEnd(flow', n) PROVE Cared(n)'
  BY <1>2 DEF Cared
<1>3. (Unset \in ToSet(starts) \/ Cared(graph.root))'
  <2>1. Unset \in ToSet(starts) \/ Cared(graph.root)
    BY DEF Thorough
  <2>2. CASE Cared(graph.root)
    <3>1. Cared(graph.root)'
      BY <1>1, <1>2, <2>2
    <3> QED
      BY <3>1
  <2>3. CASE Unset \in ToSet(starts)
    <3>1. CASE IsEnd(flow', graph.root)
      <4>1. Cared(graph.root)'
        BY <1>2, <3>1
      <4> QED
        BY <4>1
    <3> QED
      BY <2>3, <3>1
  <2> QED
    BY <2>1, <2>2, <2>3
<1>4. ASSUME NEW e \in Taken' PROVE Cared(graph.edges[e][2])'
  <2>1. \/ e \in Taken \/ Cared(graph.edges[e][2])
        \/ Walked(graph, Due', graph.edges[e][2]) \/ IsEnd(flow', graph.edges[e][2])
    OBVIOUS
  <2>2. e \in Taken => Cared(graph.edges[e][2])
    BY DEF Thorough
  <2> DEFINE n == graph.edges[e][2]
  <2>3. Walked(graph, Due', n) \/ IsEnd(flow', n)
    BY <1>1, <2>1, <2>2
  <2>4. graph'.edges[e][2] = n
    OBVIOUS
  <2> QED
    BY <2>3, <2>4 DEF Cared
<1>5. ASSUME NEW n \in PathOf(flow') PROVE Cared(n)'
  <2>1. n \in PathOf(flow) => Cared(n)
    BY DEF Thorough
  <2> QED
    BY <1>1, <1>2, <2>1
<1>6. ASSUME NEW e \in ToSet(starts'), e # Unset PROVE Walked(graph, Due', graph.edges[e][1])
  <2>1. e \in ToSet(starts) => Walked(graph, Due, graph.edges[e][1])
    BY <1>6 DEF Thorough
  <2> QED
    BY <1>6, <2>1, MoreIsWalked
<1> QED
  BY <1>3, <1>4, <1>5, <1>6 DEF Thorough

(* When all walks are over, they have taken all there is to take.          *)
LEMMA AllIsTaken ==
  ASSUME Typed, Thorough, phase = "generate", flow = Unset, starts = <<>>
  PROVE  EdgesReached(graph) \subseteq TakenBy(candidates)
<1>1. graph \in Inputs /\ graph.root # Unset
  BY DEF Typed, InputTyped
<1>2. ToSet(starts) = {} /\ Taken = TakenBy(candidates)
  <2>1. starts \in Seq(EdgesOf(graph) \union {Unset})
    BY DEF Typed, WalkTyped
  <2>2. ToSet(starts) = {}
    BY <2>1, ElementsAre
  <2> QED
    BY <2>2 DEF Taken, IdsOf
<1>3. Due = Taken
  BY <1>2 DEF Due
<1>4. \A n : Cared(n) <=> Walked(graph, Taken, n)
  BY <1>3 DEF Cared, IsEnd
<1> DEFINE S == {n \in StatesOf(graph) : Walked(graph, Taken, n)}
<1>5. graph.root \in S
  <2>1. graph.root \in StatesOf(graph)
    BY <1>1, GraphIs, OfTheGraph
  <2>2. Cared(graph.root)
    BY <1>2 DEF Thorough
  <2> QED
    BY <1>4, <2>1, <2>2
<1>6. ASSUME NEW e \in EdgesOf(graph), graph.edges[e][1] \in S PROVE graph.edges[e][2] \in S
  <2>1. e \in Taken
    BY <1>6 DEF Walked
  <2>2. Cared(graph.edges[e][2])
    BY <2>1 DEF Thorough
  <2>3. graph.edges[e][2] \in StatesOf(graph)
    BY DEF StatesOf
  <2> QED
    BY <1>4, <2>2, <2>3
<1>7. Closed(graph, S) /\ S \in SUBSET StatesOf(graph)
  BY <1>6 DEF Closed
<1> HIDE DEF S
<1>8. Reach(graph) \subseteq S
  BY <1>5, <1>7 DEF Reach
<1>9. ASSUME NEW e \in EdgesReached(graph) PROVE e \in Taken
  <2>1. e \in EdgesOf(graph) /\ graph.edges[e][1] \in S
    BY <1>8 DEF EdgesReached
  <2>2. Walked(graph, Taken, graph.edges[e][1])
    BY <2>1 DEF S
  <2> QED
    BY <2>1, <2>2 DEF Walked
<1> QED
  BY <1>2, <1>9

-----------------------------------------------------------------------------
(* The steps of stage 1.                                                   *)
LEMMA PopStartKeeps ==
  ASSUME Typed, Thorough, PopStart
  PROVE  Typed' /\ Thorough'
<1> DEFINE e == Last(starts)
<1>1. /\ phase = "generate" /\ flow = Unset /\ graph' = graph /\ phase' = phase
      /\ candidates' = candidates /\ seeded' = seeded /\ UNCHANGED input
      /\ UNCHANGED <<mergeVars, searchVars, selectVars, stored>>
  BY DEF PopStart, input
<1>2. /\ e \in Edge \union {Unset} /\ starts' \in Seq(Edge \union {Unset})
      /\ ToSet(starts) = ToSet(starts') \union {e}
      /\ flow' \in Found(graph) /\ flow' # Unset
      /\ e = Unset => Last(flow'.path) = graph.root /\ ToSet(flow'.path) = {graph.root}
                      /\ ToSet(flow'.ids) = {}
      /\ e # Unset => /\ Last(flow'.path) = Target(e) /\ ToSet(flow'.ids) = {e}
                      /\ ToSet(flow'.path) = {Source(e), Target(e)}
  BY PopIs
<1> HIDE DEF e
<1>3. Edge = EdgesOf(graph) /\ Unset \notin EdgesOf(graph)
  <2>1. graph \in Inputs
    BY DEF Typed, InputTyped
  <2> QED
    BY <2>1, OfTheGraph, GraphIs
<1>4. Typed'
  <2>1. InputTyped' /\ ListsTyped' /\ SearchTyped' /\ SelectTyped'
    BY <1>1, InputKept, ListsKept, SearchKept, NothingSelectedYet DEF Typed, Phases, SelectionBegun
  <2>2. WalkTyped'
    <3>1. \A x \in ToSet(starts') : x # Unset => graph.edges[x][1] \in Reach(graph)
      BY <1>2 DEF Typed, WalkTyped
    <3>2. seeded \subseteq EdgesOf(graph)
      BY DEF Typed, WalkTyped
    <3> QED
      BY <1>1, <1>2, <1>3, <3>1, <3>2 DEF WalkTyped
  <2> QED
    BY <2>1, <2>2 DEF Typed
<1>5. Thorough'
  <2>1. Taken = TakenBy(candidates) /\ Taken' = TakenBy(candidates) \union ToSet(flow'.ids)
    <3>1. Taken = TakenBy(candidates)
      BY <1>1 DEF Taken, IdsOf
    <3>2. Taken' = TakenBy(candidates') \union IdsOf(flow')
      BY DEF Taken
    <3> QED
      BY <1>1, <1>2, <3>1, <3>2 DEF IdsOf
  <2>2. Due' = Taken' \union ToSet(starts') /\ Due = Taken \union ToSet(starts)
    BY DEF Due
  <2>3. Due \ {Unset} \subseteq Due'
    BY <1>2, <2>1, <2>2
  <2>4. \A n : ~IsEnd(flow, n)
    BY <1>1 DEF IsEnd
  <2>5. \A n : n = Last(flow'.path) => IsEnd(flow', n)
    BY <1>2 DEF IsEnd
  <2>6. ASSUME NEW x \in Taken'
        PROVE  \/ x \in Taken \/ Cared(graph.edges[x][2])
               \/ Walked(graph, Due', graph.edges[x][2]) \/ IsEnd(flow', graph.edges[x][2])
    <3>1. CASE x \notin Taken
      <4>1. e # Unset /\ x = e /\ Last(flow'.path) = Target(e)
        BY <1>2, <2>1, <3>1
      <4> QED
        BY <2>5, <4>1 DEF Target
    <3> QED
      BY <3>1
  <2>7. ASSUME NEW n \in PathOf(flow') PROVE n \in PathOf(flow) \/ Cared(n) \/ IsEnd(flow', n)
    <3>1. n \in ToSet(flow'.path)
      BY <1>2 DEF PathOf
    <3>2. CASE e = Unset
      BY <1>2, <2>5, <3>1, <3>2
    <3>3. CASE e # Unset
      <4>1. n = Source(e) \/ n = Last(flow'.path)
        BY <1>2, <3>1, <3>3
      <4>2. Walked(graph, Due, Source(e))
        BY <1>1, <1>2, <3>3 DEF Thorough, Source
      <4> QED
        BY <2>5, <4>1, <4>2 DEF Cared
    <3> QED
      BY <3>2, <3>3
  <2>8. \A x \in ToSet(starts') : x \in ToSet(starts)
    BY <1>2
  <2>9. Unset \in ToSet(starts) => Unset \in ToSet(starts') \/ IsEnd(flow', graph.root)
    BY <1>2, <2>5
  <2>10. seeded' \subseteq Due'
    <3>1. seeded \subseteq Due /\ seeded \subseteq EdgesOf(graph)
      BY <1>1 DEF Thorough, Typed, WalkTyped
    <3> QED
      BY <1>1, <1>3, <2>3, <3>1
  <2> QED
    BY <1>1, <1>3, <2>3, <2>4, <2>6, <2>7, <2>8, <2>9, <2>10, WalkGoesOn
<1> QED
  BY <1>4, <1>5

LEMMA TakenByBoth ==
  ASSUME NEW S, NEW flows \in Seq(S), NEW more \in Seq(S)
  PROVE  TakenBy(ListedOnce(flows, more)) = TakenBy(flows) \union TakenBy(more)
<1>1. ToSet(ListedOnce(flows, more)) = ToSet(flows) \union ToSet(more)
  BY ListedOnceIs
<1> QED
  BY <1>1 DEF TakenBy

LEMMA WalkOnKeeps ==
  ASSUME Typed, Thorough, WalkOn
  PROVE  Typed' /\ Thorough'
<1> DEFINE R == Reach(graph)
           F == Found(graph)
           first == Head(Forward)
           others == ToSet(Tail(Forward)) \ seeded
           spawned == InOrder(others)
           longer == Step(flow, first)
           full == Len(longer.path) >= options.maxStates
           tail == IF full THEN <<longer>> ELSE <<>>
           more == Loops \o tail
<1>1. /\ phase = "generate" /\ flow # Unset /\ Forward # <<>>
      /\ graph' = graph /\ phase' = phase /\ UNCHANGED input
      /\ UNCHANGED <<mergeVars, searchVars, selectVars, stored>>
      /\ starts' = starts \o Reverse(spawned)
      /\ seeded' = seeded \union ToSet(spawned) \union {first}
      /\ flow' = IF full THEN Start(Target(first)) ELSE longer
      /\ candidates' = ListedOnce(candidates, more)
  BY DEF WalkOn, input
<1>2. /\ graph \in Inputs /\ graph.root # Unset /\ candidates \in Seq(F)
      /\ starts \in Seq(EdgesOf(graph) \union {Unset}) /\ seeded \subseteq EdgesOf(graph)
      /\ \A e \in ToSet(starts) : e # Unset => graph.edges[e][1] \in R
  BY <1>1 DEF Typed, InputTyped, WalkTyped, ListsTyped, CandidatesOf
<1>3. Edge = EdgesOf(graph) /\ Unset \notin EdgesOf(graph)
  BY <1>2, OfTheGraph, GraphIs
<1>4. /\ flow \in F /\ Here \in R /\ Here \in ToSet(flow.path)
      /\ Forward \in Seq(Edge) /\ ToSet(Forward) = {e \in Leaving(Here) : ~Returns(e)}
      /\ \A e \in Leaving(Here) :
           /\ e \in Edge /\ Source(e) = Here /\ Target(e) \in R
           /\ Step(flow, e) \in F
           /\ ToSet(Step(flow, e).ids) = ToSet(flow.ids) \union {e}
           /\ ToSet(Step(flow, e).path) = ToSet(flow.path) \union {Target(e)}
           /\ Last(Step(flow, e).path) = Target(e)
      /\ Loops \in Seq(F)
      /\ ToSet(Loops) = {Step(flow, e) : e \in {e \in Leaving(Here) : Returns(e)}}
  BY <1>1, WalkIs
<1>5. first \in Leaving(Here) /\ ToSet(Forward) = {first} \union ToSet(Tail(Forward))
  <2>1. first \in ToSet(Forward) /\ ToSet(Forward) = {first} \union ToSet(Tail(Forward))
    BY <1>1, <1>4, EndsAre
  <2> QED
    BY <1>4, <2>1
<1>6. /\ spawned \in Seq(Edge) /\ ToSet(spawned) = others /\ others \subseteq Leaving(Here)
      /\ ToSet(Reverse(spawned)) = others /\ Reverse(spawned) \in Seq(Edge)
  <2>1. others \subseteq Leaving(Here) /\ others \subseteq Edge
    BY <1>4, <1>5
  <2>2. spawned \in Seq(Edge) /\ ToSet(spawned) = others
    BY <1>2, <2>1, InOrderIs
  <2> HIDE DEF spawned, others
  <2>3. Reverse(spawned) \in Seq(Edge) /\ ToSet(Reverse(spawned)) = ToSet(spawned)
    BY <2>2, ReversedIs
  <2> QED
    BY <2>1, <2>2, <2>3
<1>7. /\ longer \in F /\ ToSet(longer.ids) = ToSet(flow.ids) \union {first}
      /\ ToSet(longer.path) = ToSet(flow.path) \union {Target(first)}
      /\ Last(longer.path) = Target(first) /\ Target(first) \in R
      /\ first \in Edge /\ Source(first) = Here
  BY <1>4, <1>5
<1>8. /\ Start(Target(first)) \in F /\ ToSet(Start(Target(first)).ids) = {}
      /\ Last(Start(Target(first)).path) = Target(first)
      /\ ToSet(Start(Target(first)).path) = {Target(first)}
  BY <1>7, StartIs DEF Found, Walks
<1> HIDE DEF longer, full, R, F, spawned, first, others
<1>9. /\ flow' \in F /\ flow' # Unset /\ Last(flow'.path) = Target(first)
      /\ ToSet(flow'.path) \subseteq ToSet(flow.path) \union {Target(first)}
  <2>1. /\ flow' \in F /\ Last(flow'.path) = Target(first)
        /\ ToSet(flow'.path) \subseteq ToSet(flow.path) \union {Target(first)}
    BY <1>1, <1>7, <1>8
  <2>2. flow' # Unset
    BY <1>2, <2>1, FlowIsSet DEF F
  <2> QED
    BY <2>1, <2>2
<1>10. tail \in Seq(F) /\ ToSet(tail) = IF full THEN {longer} ELSE {}
  <2>1. <<longer>> \in Seq(F) /\ Len(<<longer>>) = 1 /\ <<longer>>[1] = longer /\ <<>> \in Seq(F)
    BY <1>7
  <2>2. ToSet(<<longer>>) = {<<longer>>[i] : i \in 1 .. Len(<<longer>>)}
    BY <2>1, ElementsAre, Zenon
  <2>3. ToSet(<<>>) = {}
    BY <2>1, ElementsAre
  <2>4. ToSet(<<longer>>) = {longer}
    BY <2>1, <2>2
  <2> QED
    BY <2>1, <2>3, <2>4
<1> HIDE DEF tail
<1>11. more \in Seq(F) /\ ToSet(more) = ToSet(Loops) \union ToSet(tail)
  <2>1. Loops \in Seq(F) /\ tail \in Seq(F)
    BY <1>4, <1>10
  <2>2. Loops \o tail \in Seq(F) /\ ToSet(Loops \o tail) = ToSet(Loops) \union ToSet(tail)
    BY <2>1, JoinedIs, Zenon
  <2> QED
    BY <2>2
<1> HIDE DEF more
<1>12. candidates' \in Seq(F) /\ TakenBy(candidates') = TakenBy(candidates) \union TakenBy(more)
  <2>1. candidates \in Seq(F) /\ more \in Seq(F)
    BY <1>2, <1>11
  <2>2. ListedOnce(candidates, more) \in Seq(F)
    BY <2>1, ListedOnceIs
  <2>3. TakenBy(ListedOnce(candidates, more)) = TakenBy(candidates) \union TakenBy(more)
    BY <2>1, TakenByBoth
  <2> QED
    BY <1>1, <2>2, <2>3
<1>13. starts' \in Seq(Edge \union {Unset}) /\ ToSet(starts') = ToSet(starts) \union others
  <2> DEFINE S == Edge \union {Unset}
  <2>1. Seq(Edge) \subseteq Seq(S)
    OBVIOUS
  <2>2. starts \in Seq(S) /\ Reverse(spawned) \in Seq(S)
    BY <1>2, <1>3, <1>6, <2>1
  <2> HIDE DEF S
  <2>3. /\ starts \o Reverse(spawned) \in Seq(S)
        /\ ToSet(starts \o Reverse(spawned)) = ToSet(starts) \union ToSet(Reverse(spawned))
    BY <2>2, JoinedIs, Zenon
  <2> QED
    BY <1>1, <1>6, <2>3 DEF S
<1>14. Typed'
  <2>1. InputTyped' /\ SearchTyped' /\ SelectTyped'
    BY <1>1, InputKept, SearchKept, NothingSelectedYet DEF Typed, Phases, SelectionBegun
  <2>2. ListsTyped'
    <3>1. short' \in Seq(Found(graph')) /\ merged' \in Seq(Found(graph'))
      BY <1>1 DEF Typed, ListsTyped, mergeVars
    <3>2. candidates' \in Seq(CandidatesOf(graph', phase'))
      BY <1>1, <1>12 DEF CandidatesOf, F
    <3> QED
      BY <3>1, <3>2 DEF ListsTyped
  <2>3. WalkTyped'
    <3>1. ASSUME NEW e \in ToSet(starts'), e # Unset PROVE graph.edges[e][1] \in R
      <4>1. CASE e \in others
        BY <1>4, <1>6, <4>1 DEF Source
      <4> QED
        BY <1>2, <1>13, <3>1, <4>1
    <3>2. seeded' \subseteq EdgesOf(graph)
      BY <1>1, <1>2, <1>3, <1>4, <1>6, <1>7
    <3>3. graph' = graph /\ flow' \in Found(graph) /\ starts' \in Seq(EdgesOf(graph) \union {Unset})
      BY <1>1, <1>3, <1>9, <1>13 DEF F
    <3> QED
      BY <3>1, <3>2, <3>3 DEF WalkTyped, R
  <2> QED
    BY <2>1, <2>2, <2>3 DEF Typed
<1> DEFINE back == {e \in Leaving(Here) : Returns(e)}
<1>15. TakenBy(more) \subseteq ToSet(flow.ids) \union back \union {first} /\ back \subseteq TakenBy(more)
       /\ (full => ToSet(flow.ids) \union {first} \subseteq TakenBy(more))
  <2>1. TakenBy(more) = UNION {ToSet(f.ids) : f \in ToSet(Loops) \union ToSet(tail)}
    BY <1>11 DEF TakenBy
  <2>2. \A f \in ToSet(tail) : full /\ f = longer
    BY <1>10
  <2>3. \A f \in ToSet(Loops) : \E e \in back : f = Step(flow, e)
    BY <1>4
  <2>4. \A e \in back : Step(flow, e) \in ToSet(Loops) /\ ToSet(Step(flow, e).ids) = ToSet(flow.ids) \union {e}
    BY <1>4
  <2>5. full => longer \in ToSet(tail)
    BY <1>10
  <2> HIDE DEF back
  <2>6. \A f \in ToSet(Loops) \union ToSet(tail) :
          ToSet(f.ids) \subseteq ToSet(flow.ids) \union back \union {first}
    BY <1>7, <2>2, <2>3, <2>4
  <2> QED
    BY <1>7, <2>1, <2>4, <2>5, <2>6
<1>16. Taken' = Taken \union back \union {first}
  <2>1. Taken = TakenBy(candidates) \union ToSet(flow.ids)
    BY <1>1 DEF Taken, IdsOf
  <2>2. Taken' = TakenBy(candidates') \union ToSet(flow'.ids)
    BY <1>9 DEF Taken, IdsOf
  <2>3. ToSet(flow'.ids) = IF full THEN {} ELSE ToSet(flow.ids) \union {first}
    BY <1>1, <1>7, <1>8
  <2> HIDE DEF back
  <2> QED
    BY <1>12, <1>15, <2>1, <2>2, <2>3
<1>17. Due = Taken \union ToSet(starts) /\ Due' = Taken' \union ToSet(starts')
  BY DEF Due
<1>18. seeded \subseteq Due /\ \A n \in PathOf(flow) : Cared(n)
  BY <1>1 DEF Thorough
<1>19. Leaving(Here) \subseteq Due'
  <2> SUFFICES ASSUME NEW e \in Leaving(Here) PROVE e \in Due'
    OBVIOUS
  <2>1. e \in back \/ e = first \/ e \in ToSet(Tail(Forward))
    BY <1>4, <1>5
  <2>2. e \in ToSet(Tail(Forward)) => e \in others \/ e \in Due
    BY <1>18 DEF others
  <2> HIDE DEF back
  <2> QED
    BY <1>13, <1>16, <1>17, <2>1, <2>2
<1>20. Walked(graph, Due', Here)
  BY <1>3, <1>19 DEF Walked, Leaving, Source
<1> HIDE DEF back
<1>21. IsEnd(flow', Target(first)) /\ PathOf(flow) = ToSet(flow.path)
       /\ PathOf(flow') = ToSet(flow'.path)
  BY <1>1, <1>9 DEF IsEnd, PathOf
<1>22. Thorough'
  <2>1. Due \ {Unset} \subseteq Due'
    BY <1>13, <1>16, <1>17
  <2>2. \A n : IsEnd(flow, n) => Walked(graph, Due', n)
    BY <1>20 DEF IsEnd, Here
  <2>3. ASSUME NEW e \in Taken'
        PROVE  \/ e \in Taken \/ Cared(graph.edges[e][2])
               \/ Walked(graph, Due', graph.edges[e][2]) \/ IsEnd(flow', graph.edges[e][2])
    <3>1. e \in Taken \/ e \in back \/ e = first
      BY <1>16
    <3>2. e \in back => Cared(graph.edges[e][2])
      BY <1>18, <1>21 DEF back, Returns, Target
    <3> QED
      BY <1>21, <3>1, <3>2 DEF Target
  <2>4. \A n \in PathOf(flow') : n \in PathOf(flow) \/ Cared(n) \/ IsEnd(flow', n)
    BY <1>9, <1>21
  <2>5. ASSUME NEW e \in ToSet(starts'), e # Unset
        PROVE  e \in ToSet(starts) \/ Walked(graph, Due', graph.edges[e][1])
    <3>1. e \in others => graph.edges[e][1] = Here
      BY <1>4, <1>6 DEF Source
    <3> QED
      BY <1>13, <1>20, <3>1
  <2>6. Unset \in ToSet(starts) => Unset \in ToSet(starts') \/ IsEnd(flow', graph.root)
    BY <1>13
  <2>7. seeded' \subseteq Due'
    <3>1. seeded \subseteq Due'
      BY <1>2, <1>3, <1>18, <2>1
    <3> QED
      BY <1>1, <1>6, <1>13, <1>16, <1>17, <3>1
  <2> QED
    BY <1>1, <1>3, <2>1, <2>2, <2>3, <2>4, <2>5, <2>6, <2>7, WalkGoesOn
<1> QED
  BY <1>14, <1>22

LEMMA EndWalkKeeps ==
  ASSUME Typed, Thorough, EndWalk
  PROVE  Typed' /\ Thorough'
<1> DEFINE R == Reach(graph)
           F == Found(graph)
           tail == IF flow.ids # <<>> THEN <<flow>> ELSE <<>>
           more == Loops \o tail
           back == {e \in Leaving(Here) : Returns(e)}
<1>1. /\ phase = "generate" /\ flow # Unset /\ Forward = <<>>
      /\ graph' = graph /\ phase' = phase /\ UNCHANGED input
      /\ UNCHANGED <<mergeVars, searchVars, selectVars, stored>>
      /\ starts' = starts /\ seeded' = seeded /\ flow' = Unset
      /\ candidates' = ListedOnce(candidates, more)
  BY DEF EndWalk, input
<1>2. /\ graph \in Inputs /\ candidates \in Seq(F)
      /\ starts \in Seq(EdgesOf(graph) \union {Unset}) /\ seeded \subseteq EdgesOf(graph)
      /\ \A e \in ToSet(starts) : e # Unset => graph.edges[e][1] \in R
  BY <1>1 DEF Typed, InputTyped, WalkTyped, ListsTyped, CandidatesOf
<1>3. Edge = EdgesOf(graph) /\ Unset \notin EdgesOf(graph)
  BY <1>2, OfTheGraph, GraphIs
<1>4. /\ flow \in F
      /\ Forward \in Seq(Edge) /\ ToSet(Forward) = {e \in Leaving(Here) : ~Returns(e)}
      /\ \A e \in Leaving(Here) :
           Step(flow, e) \in F /\ ToSet(Step(flow, e).ids) = ToSet(flow.ids) \union {e}
      /\ Loops \in Seq(F) /\ ToSet(Loops) = {Step(flow, e) : e \in back}
  BY <1>1, WalkIs
<1>5. back = Leaving(Here)
  <2>1. ToSet(Forward) = {}
    BY <1>1, <1>4, ElementsAre
  <2> QED
    BY <1>4, <2>1
<1>6. tail \in Seq(F) /\ ToSet(tail) = IF flow.ids # <<>> THEN {flow} ELSE {}
  <2>1. <<flow>> \in Seq(F) /\ Len(<<flow>>) = 1 /\ <<flow>>[1] = flow /\ <<>> \in Seq(F)
    BY <1>4
  <2>2. ToSet(<<flow>>) = {<<flow>>[i] : i \in 1 .. Len(<<flow>>)}
    BY <2>1, ElementsAre, Zenon
  <2>3. ToSet(<<>>) = {}
    BY <2>1, ElementsAre
  <2>4. ToSet(<<flow>>) = {flow}
    BY <2>1, <2>2
  <2> QED
    BY <2>1, <2>3, <2>4
<1> HIDE DEF tail, F, R
<1>7. more \in Seq(F) /\ ToSet(more) = ToSet(Loops) \union ToSet(tail)
  <2>1. Loops \in Seq(F) /\ tail \in Seq(F)
    BY <1>4, <1>6
  <2>2. Loops \o tail \in Seq(F) /\ ToSet(Loops \o tail) = ToSet(Loops) \union ToSet(tail)
    BY <2>1, JoinedIs, Zenon
  <2> QED
    BY <2>2
<1> HIDE DEF more
<1>8. candidates' \in Seq(F) /\ TakenBy(candidates') = TakenBy(candidates) \union TakenBy(more)
  <2>1. candidates \in Seq(F) /\ more \in Seq(F)
    BY <1>2, <1>7
  <2>2. ListedOnce(candidates, more) \in Seq(F)
    BY <2>1, ListedOnceIs
  <2>3. TakenBy(ListedOnce(candidates, more)) = TakenBy(candidates) \union TakenBy(more)
    BY <2>1, TakenByBoth
  <2> QED
    BY <1>1, <2>2, <2>3
<1>9. Typed'
  <2>1. InputTyped' /\ SearchTyped' /\ SelectTyped'
    BY <1>1, InputKept, SearchKept, NothingSelectedYet DEF Typed, Phases, SelectionBegun
  <2>2. ListsTyped'
    <3>1. short' \in Seq(Found(graph')) /\ merged' \in Seq(Found(graph'))
      BY <1>1 DEF Typed, ListsTyped, mergeVars
    <3>2. candidates' \in Seq(CandidatesOf(graph', phase'))
      BY <1>1, <1>8 DEF CandidatesOf, F
    <3> QED
      BY <3>1, <3>2 DEF ListsTyped
  <2>3. WalkTyped'
    BY <1>1, <1>2 DEF WalkTyped, R
  <2> QED
    BY <2>1, <2>2, <2>3 DEF Typed
<1>10. TakenBy(more) = back \union (IF back # {} THEN ToSet(flow.ids) ELSE {}) \union ToSet(flow.ids)
  <2>1. TakenBy(more) = UNION {ToSet(f.ids) : f \in ToSet(Loops) \union ToSet(tail)}
    BY <1>7 DEF TakenBy
  <2>2. \A f \in ToSet(tail) : f = flow
    BY <1>6
  <2>3. \A f \in ToSet(Loops) : \E e \in back : f = Step(flow, e)
    BY <1>4
  <2>4. \A e \in back : Step(flow, e) \in ToSet(Loops) /\ ToSet(Step(flow, e).ids) = ToSet(flow.ids) \union {e}
    BY <1>4
  <2>5. ToSet(flow.ids) = {} \/ flow \in ToSet(tail)
    <3>1. flow.ids \in Seq(EdgesOf(graph))
      BY <1>4, WayIs DEF F, Found, Walks
    <3>2. flow.ids = <<>> => ToSet(flow.ids) = {}
      BY <3>1, ElementsAre
    <3> QED
      BY <1>6, <3>2
  <2> HIDE DEF back
  <2>6. \A f \in ToSet(Loops) \union ToSet(tail) : ToSet(f.ids) \subseteq ToSet(flow.ids) \union back
    BY <2>2, <2>3, <2>4
  <2>7. TakenBy(more) \subseteq ToSet(flow.ids) \union back
    BY <2>1, <2>6
  <2>8. back \subseteq TakenBy(more)
    BY <2>1, <2>4
  <2>9. ToSet(flow.ids) \subseteq TakenBy(more)
    BY <2>1, <2>5
  <2> QED
    BY <2>7, <2>8, <2>9
<1>11. Taken' = Taken \union back
  <2>1. Taken = TakenBy(candidates) \union ToSet(flow.ids)
    BY <1>1 DEF Taken, IdsOf
  <2>2. Taken' = TakenBy(candidates')
    BY <1>1 DEF Taken, IdsOf
  <2> HIDE DEF back
  <2> QED
    BY <1>8, <1>10, <2>1, <2>2
<1>12. Due = Taken \union ToSet(starts) /\ Due' = Taken' \union ToSet(starts)
  BY <1>1 DEF Due
<1>13. seeded \subseteq Due /\ \A n \in PathOf(flow) : Cared(n)
  BY <1>1 DEF Thorough
<1>14. Walked(graph, Due', Here)
  <2>1. Leaving(Here) \subseteq Due'
    BY <1>5, <1>11, <1>12
  <2> QED
    BY <1>3, <2>1 DEF Walked, Leaving, Source
<1>15. Thorough'
  <2>1. Due \ {Unset} \subseteq Due' /\ seeded' \subseteq Due'
    BY <1>1, <1>11, <1>12, <1>13
  <2>2. \A n : IsEnd(flow, n) => Walked(graph, Due', n)
    BY <1>14 DEF IsEnd, Here
  <2>3. ASSUME NEW e \in Taken'
        PROVE  \/ e \in Taken \/ Cared(graph.edges[e][2])
               \/ Walked(graph, Due', graph.edges[e][2]) \/ IsEnd(flow', graph.edges[e][2])
    <3>1. e \in Taken \/ e \in back
      BY <1>11
    <3>2. e \in back => Cared(graph.edges[e][2])
      BY <1>1, <1>13 DEF back, Returns, Target, PathOf
    <3> QED
      BY <3>1, <3>2
  <2>4. \A n \in PathOf(flow') : n \in PathOf(flow) \/ Cared(n) \/ IsEnd(flow', n)
    BY <1>1 DEF PathOf
  <2>5. \A e \in ToSet(starts') : e # Unset =>
          e \in ToSet(starts) \/ Walked(graph, Due', graph.edges[e][1])
    BY <1>1
  <2>6. Unset \in ToSet(starts) => Unset \in ToSet(starts') \/ IsEnd(flow', graph.root)
    BY <1>1
  <2> QED
    BY <1>1, <1>3, <2>1, <2>2, <2>3, <2>4, <2>5, <2>6, WalkGoesOn
<1> QED
  BY <1>9, <1>15

(* The merge may throw away short candidates, but none is too short if     *)
(* there is no limit.                                                      *)
LEMMA GenerationEndsKeeps ==
  ASSUME Typed, Thorough, GenerationEnds
  PROVE  Typed' /\ Thorough' /\ Covered'
<1> DEFINE F == Found(graph)
           all == ToSet(candidates)
           long == LongEnough(all)
<1>1. /\ phase = "generate" /\ flow = Unset /\ starts = <<>> /\ phase' = "merge"
      /\ graph' = graph /\ options' = options /\ UNCHANGED <<input, walkVars, searchVars, selectVars, stored>>
      /\ merged' = merged
      /\ candidates' = Only(candidates, long) /\ short' = Only(candidates, all \ long)
  BY DEF GenerationEnds, input
<1>2. graph \in Inputs /\ candidates \in Seq(F) /\ merged \in Seq(F)
  BY <1>1 DEF Typed, InputTyped, ListsTyped, CandidatesOf
<1> HIDE DEF F, long, all
<1>3. candidates' \in Seq(F) /\ short' \in Seq(F) /\ ToSet(candidates') = all \intersect long
  <2>1. /\ Only(candidates, long) \in Seq(F) /\ ToSet(Only(candidates, long)) = ToSet(candidates) \intersect long
        /\ Only(candidates, all \ long) \in Seq(F)
    BY <1>2, OnlyIs, Zenon
  <2> QED
    BY <1>1, <2>1 DEF all
<1>4. Typed'
  <2>1. InputTyped' /\ SearchTyped' /\ SelectTyped' /\ WalkTyped'
    BY <1>1, InputKept, SearchKept, NothingSelectedYet, WalkKept DEF Typed, Phases, SelectionBegun
  <2>2. candidates' \in Seq(CandidatesOf(graph', phase'))
    BY <1>1, <1>3 DEF CandidatesOf, F
  <2>3. short' \in Seq(Found(graph')) /\ merged' \in Seq(Found(graph'))
    BY <1>1, <1>2, <1>3 DEF F
  <2> QED
    BY <2>1, <2>2, <2>3 DEF Typed, ListsTyped
<1>5. Thorough'
  BY <1>1 DEF Thorough
<1>6. ASSUME options.minStates = 1
      PROVE  TakenBy(candidates') = TakenBy(candidates)
  <2>1. \A f \in all : Len(f.path) >= 1
    <3> SUFFICES ASSUME NEW f \in all PROVE Len(f.path) >= 1
      OBVIOUS
    <3>1. f \in F
      BY <1>2, ElementsAre DEF all
    <3>2. Len(f.ids) \in Nat /\ Len(f.path) = Len(f.ids) + 1
      BY <3>1, WayIs DEF F, Found, Walks
    <3> QED
      BY <3>2
  <2>2. long = all
    BY <1>6, <2>1 DEF long, LongEnough
  <2> QED
    BY <1>3, <2>2 DEF TakenBy, all
<1>7. EdgesReached(graph) \subseteq TakenBy(candidates)
  BY <1>1, AllIsTaken
<1>8. Covered'
  BY <1>1, <1>6, <1>7 DEF Covered
<1> QED
  BY <1>4, <1>5, <1>8

-----------------------------------------------------------------------------
(* The search for prefixes.  A walk is as short as can be.                 *)
IsNearest(g, w) ==
  w.ids # <<>> => Last(w.path) \notin WithinIn(g, StartsOf(g), Len(w.ids) - 1)

(* Of two walks in the queue the later one is longer, by one at most.      *)
InLayers(walks) ==
  \A j, k \in 1 .. Len(walks) : j <= k =>
    Len(walks[j].ids) <= Len(walks[k].ids) /\ Len(walks[k].ids) <= Len(walks[j].ids) + 1

(* What is seen is what a search of as many steps sees, and what it does   *)
(* not lead on to has yet to be searched from.                             *)
IsSearched(g, walks, seen) ==
  /\ StartsOf(g) \subseteq seen /\ Ends(walks) \subseteq seen /\ InLayers(walks)
  /\ \A w \in ToSet(walks) : IsNearest(g, w)
  /\ \A e \in EdgesOf(g) : g.edges[e][1] \in seen =>
       g.edges[e][2] \in seen \/ g.edges[e][1] \in Ends(walks)
  /\ walks # <<>> => WithinIn(g, StartsOf(g), Len(Head(walks).ids)) \subseteq seen

Searched ==
  phase = "prefix" =>
    /\ IsSearched(graph, queue, visited)
    /\ \A f \in ToSet(candidates) : Head(f.path) \in visited =>
         Head(f.path) \in StartsOf(graph) \union DOMAIN prefixes

Near == \A n \in DOMAIN prefixes : prefixes[n].ids # <<>> /\ IsNearest(graph, prefixes[n])

(* The selection.  What is left is in the heap, under a gain that it       *)
(* cannot exceed any more.                                                 *)
Selecting ==
  phase = "select" =>
    /\ heap \in [Left -> Nat] /\ Len(selected) < MaxFlows
    /\ \A i \in Left : Gain(i) <= heap[i]
Stores ==
  phase = "done" => UNION {ToSet(r.ids) : r \in ToSet(stored)} = Union(Chosen)

-----------------------------------------------------------------------------
(* Counting.                                                               *)
LEMMA ListsAreFinite ==
  ASSUME NEW S, NEW s \in Seq(S)
  PROVE  IsFiniteSet(ToSet(s))
<1>1. Len(s) \in Nat /\ s \in [1 .. Len(s) -> S] /\ ToSet(s) = {s[i] : i \in 1 .. Len(s)}
  BY ElementsAre
<1>2. s \in Surjection(1 .. Len(s), ToSet(s))
  BY <1>1 DEF Surjection
<1>3. IsFiniteSet(1 .. Len(s))
  BY <1>1, FS_Interval
<1> QED
  BY <1>2, <1>3, FS_Surjection

(* Every list of all elements, once each, is a list of all elements.       *)
LEMMA OrdersAre ==
  ASSUME NEW S, IsFiniteSet(S), NEW order \in SetToSeqs(S)
  PROVE  order \in Seq(S) /\ ToSet(order) = S
<1> DEFINE n == Cardinality(S)
<1>1. n \in Nat
  BY FS_CardinalityType
<1>2. order \in [1 .. n -> S] /\ \A i, j \in 1 .. n : i # j => order[i] # order[j]
  BY DEF SetToSeqs
<1>3. IsFiniteSet(1 .. n) /\ Cardinality(1 .. n) = n
  BY <1>1, FS_Interval
<1> HIDE DEF n
<1>4. order \in Injection(1 .. n, S)
  BY <1>2 DEF Injection, IsInjective
<1>5. order \in Surjection(1 .. n, S)
  BY <1>3, <1>4, FS_Injection DEF n
<1>6. order \in Seq(S) /\ Len(order) = n
  BY <1>1, <1>2
<1>7. ToSet(order) = {order[i] : i \in 1 .. n}
  BY <1>6, ElementsAre
<1> QED
  BY <1>2, <1>5, <1>6, <1>7 DEF Surjection

LEMMA GraphIsFinite ==
  ASSUME graph \in Inputs
  PROVE  /\ IsFiniteSet(State) /\ IsFiniteSet(ValidStarts)
         /\ IsFiniteSet(Edge) /\ Cardinality(Edge) = Len(graph.edges)
<1>1. /\ IsGraph(graph) /\ Len(graph.edges) \in Nat /\ Edge = 1 .. Len(graph.edges)
  BY GraphIs
<1>2. IsFiniteSet(Edge) /\ Cardinality(Edge) = Len(graph.edges)
  BY <1>1, FS_Interval
<1>3. IsFiniteSet(graph.checkpoints)
  BY <1>1 DEF IsGraph
<1> DEFINE from == [e \in Edge |-> Source(e)]
           to == [e \in Edge |-> Target(e)]
           F == {Source(e) : e \in Edge}
           T == {Target(e) : e \in Edge}
<1>4. from \in Surjection(Edge, F) /\ to \in Surjection(Edge, T)
  BY DEF Surjection
<1>5. IsFiniteSet(F) /\ IsFiniteSet(T)
  <2> HIDE DEF from, to, F, T
  <2> QED
    BY <1>2, <1>4, FS_Surjection
<1>6. IsFiniteSet({graph.root}) /\ IsFiniteSet({graph.root} \ {Unset})
  BY FS_Singleton, FS_Difference
<1>7. IsFiniteSet(graph.checkpoints \union {graph.root})
  BY <1>3, <1>6, FS_Union
<1> HIDE DEF F, T
<1>8. IsFiniteSet(graph.checkpoints \union F \union T \union ({graph.root} \ {Unset}))
  BY <1>3, <1>5, <1>6, FS_Union
<1> QED
  BY <1>2, <1>7, <1>8 DEF State, ValidStarts, F, T

LEMMA WithinGrows ==
  ASSUME NEW g, NEW from, NEW k \in Nat, NEW m \in Nat, k <= m
  PROVE  WithinIn(g, from, k) \subseteq WithinIn(g, from, m)
<1> DEFINE N == {n \in Nat : k <= n => WithinIn(g, from, k) \subseteq WithinIn(g, from, n)}
<1>1. 0 \in N
  <2>1. k <= 0 => k = 0
    OBVIOUS
  <2> QED
    BY <2>1
<1>2. ASSUME NEW n \in N PROVE n + 1 \in N
  <2>1. CASE k <= n
    <3>1. WithinIn(g, from, n + 1) = OneMoreIn(g, WithinIn(g, from, n))
      BY WithinIs
    <3>2. \A W : W \subseteq OneMoreIn(g, W)
      BY DEF OneMoreIn
    <3>3. WithinIn(g, from, k) \subseteq WithinIn(g, from, n)
      BY <2>1
    <3>4. WithinIn(g, from, k) \subseteq WithinIn(g, from, n + 1)
      BY <3>1, <3>2, <3>3, Zenon
    <3> QED
      BY <3>4
  <2>2. CASE ~(k <= n)
    <3>1. k <= n + 1 => k = n + 1
      BY <2>2
    <3> QED
      BY <3>1
  <2> QED
    BY <2>1, <2>2
<1>3. N \in SUBSET Nat
  OBVIOUS
<1>4. m \in N
  <2> HIDE DEF N
  <2> QED
    BY <1>1, <1>2, <1>3, NumbersFromZero
<1> QED
  BY <1>4

-----------------------------------------------------------------------------
(* The steps of the merge.                                                 *)
LEMMA MergeShortKeeps ==
  ASSUME Typed, MergeShort
  PROVE  Typed'
<1> DEFINE F == Found(graph)
<1>1. /\ phase = "merge" /\ short # <<>> /\ short' = Tail(short) /\ graph' = graph /\ phase' = phase
      /\ merged' = merged \/ \E f \in Fixed(Head(short)) : merged' = Append(merged, f)
      /\ candidates' = candidates
      /\ UNCHANGED <<input, walkVars, searchVars, selectVars, stored>>
  BY DEF MergeShort, input
<1>2. short \in Seq(F) /\ merged \in Seq(F)
  BY DEF Typed, ListsTyped
<1> HIDE DEF F
<1>3. Head(short) \in F /\ Tail(short) \in Seq(F)
  BY <1>1, <1>2, EndsAre
<1>4. Fixed(Head(short)) \subseteq F
  BY <1>1, <1>3, FixedIs DEF F
<1>5. merged' \in Seq(F)
  BY <1>1, <1>2, <1>4
<1>6. ListsTyped'
  <2>1. candidates' \in Seq(CandidatesOf(graph', phase'))
    BY <1>1 DEF Typed, ListsTyped
  <2> QED
    BY <1>1, <1>3, <1>5, <2>1 DEF ListsTyped, F
<1>7. InputTyped' /\ SearchTyped' /\ SelectTyped' /\ WalkTyped'
  BY <1>1, InputKept, SearchKept, NothingSelectedYet, WalkKept DEF Typed, Phases, SelectionBegun
<1> QED
  BY <1>6, <1>7 DEF Typed

(* A search starts from all starts, which are as near as can be.           *)
LEMMA SearchBegins ==
  ASSUME NEW g, NEW walks, NEW S, NEW order \in Seq(S), ToSet(order) = StartsOf(g),
         walks = [i \in DOMAIN order |-> Start(order[i])]
  PROVE  IsSearched(g, walks, StartsOf(g)) /\ Ends(walks) = StartsOf(g)
<1>1. Len(order) \in Nat /\ DOMAIN order = 1 .. Len(order) /\ DOMAIN walks = DOMAIN order
  OBVIOUS
<1>2. ASSUME NEW n
      PROVE  Start(n).ids = <<>> /\ Last(Start(n).path) = n
  <2> DEFINE T == {n}
  <2>1. n \in T
    OBVIOUS
  <2> HIDE DEF T
  <2> QED
    BY <2>1, StartIs
<1>3. \A i \in DOMAIN walks : walks[i] = Start(order[i])
  BY <1>1
<1>4. ToSet(walks) = {walks[i] : i \in DOMAIN walks} /\ ToSet(order) = {order[i] : i \in DOMAIN walks}
  BY <1>1 DEF ToSet
<1>5. Ends(walks) = ToSet(order)
  BY <1>2, <1>3, <1>4 DEF Ends
<1>6. \A w \in ToSet(walks) : w.ids = <<>>
  BY <1>2, <1>3, <1>4
<1>7. walks \in Seq(ToSet(walks)) /\ Len(walks) = Len(order)
  <2> DEFINE T == ToSet(walks)
  <2>1. \A i \in DOMAIN order : walks[i] \in T
    BY <1>1, <1>4
  <2> HIDE DEF T
  <2> QED
    BY <2>1, MappedIs DEF T
<1>8. InLayers(walks)
  <2> SUFFICES ASSUME NEW i \in 1 .. Len(walks) PROVE Len(walks[i].ids) = 0
    BY DEF InLayers
  <2>1. walks[i] \in ToSet(walks)
    BY <1>1, <1>4, <1>7
  <2>2. walks[i].ids = <<>>
    BY <1>6, <2>1
  <2> QED
    BY <2>2
<1>9. walks # <<>> => WithinIn(g, StartsOf(g), Len(Head(walks).ids)) \subseteq StartsOf(g)
  <2>1. ASSUME walks # <<>> PROVE Len(Head(walks).ids) = 0
    <3>1. Head(walks) \in ToSet(walks)
      BY <1>7, <2>1, EndsAre
    <3>2. Head(walks).ids = <<>>
      BY <1>6, <3>1
    <3> QED
      BY <3>2
  <2>2. WithinIn(g, StartsOf(g), 0) = StartsOf(g)
    BY WithinIs
  <2> QED
    BY <2>1, <2>2
<1> QED
  BY <1>5, <1>6, <1>8, <1>9 DEF IsSearched, IsNearest

LEMMA MergeEndsKeeps ==
  ASSUME Typed, Covered, MergeEnds
  PROVE  Typed' /\ Covered' /\ Searched'
<1> DEFINE F == Found(graph)
           V == StartsOf(graph)
<1>1. /\ phase = "merge" /\ short = <<>> /\ phase' = "prefix" /\ graph' = graph /\ options' = options
      /\ candidates' = candidates \o merged /\ merged' = <<>> /\ visited' = ValidStarts
      /\ short' = short /\ prefixes' = prefixes
      /\ UNCHANGED <<input, walkVars, selectVars, stored>>
  BY DEF MergeEnds, input
<1>2. PICK order \in SetToSeqs(ValidStarts) : queue' = [i \in DOMAIN order |-> Start(order[i])]
  BY DEF MergeEnds
<1>3. graph \in Inputs /\ graph.root # Unset /\ candidates \in Seq(F) /\ merged \in Seq(F) /\ short \in Seq(F)
  BY <1>1 DEF Typed, InputTyped, ListsTyped, CandidatesOf
<1>4. ValidStarts = V /\ V \subseteq StatesOf(graph) /\ IsFiniteSet(V)
  <2>1. ValidStarts = V /\ State = StatesOf(graph)
    BY OfTheGraph
  <2>2. ValidStarts \subseteq State /\ IsFiniteSet(ValidStarts)
    BY <1>3, GraphIs, GraphIsFinite
  <2> QED
    BY <2>1, <2>2
<1> HIDE DEF F
<1>5. order \in Seq(V) /\ ToSet(order) = V
  BY <1>2, <1>4, OrdersAre
<1>6. candidates' \in Seq(F) /\ ToSet(candidates') = ToSet(candidates) \union ToSet(merged)
  <2>1. candidates \o merged \in Seq(F) /\ ToSet(candidates \o merged) = ToSet(candidates) \union ToSet(merged)
    BY <1>3, JoinedIs, Zenon
  <2> QED
    BY <1>1, <2>1
<1>7. queue' \in Seq(Begun(graph))
  <2>1. \A n \in V : Start(n) \in Begun(graph)
    BY <1>4, StartIs DEF Begun, Walks
  <2>2. \A i \in DOMAIN order : order[i] \in V
    BY <1>5
  <2> DEFINE T == Begun(graph)
  <2>3. \A i \in DOMAIN order : queue'[i] \in T
    BY <1>2, <2>1, <2>2
  <2>4. queue' = [i \in DOMAIN order |-> queue'[i]]
    BY <1>2
  <2> HIDE DEF T, V
  <2> QED
    BY <1>5, <2>3, <2>4, MappedIs DEF T
<1>8. Typed'
  <2>1. InputTyped' /\ SelectTyped' /\ WalkTyped'
    BY <1>1, InputKept, NothingSelectedYet, WalkKept DEF Typed, Phases, SelectionBegun
  <2>2. ListsTyped'
    <3>1. candidates' \in Seq(CandidatesOf(graph', phase'))
      BY <1>1, <1>6 DEF CandidatesOf, F
    <3> QED
      BY <1>1, <1>3, <3>1 DEF ListsTyped, F
  <2>3. SearchTyped'
    <3>1. \A n \in DOMAIN prefixes :
            n \in StatesOf(graph) /\ prefixes[n] \in Begun(graph) /\ Last(prefixes[n].path) = n
      BY DEF Typed, SearchTyped
    <3> QED
      BY <1>1, <1>4, <1>7, <3>1 DEF SearchTyped
  <2> QED
    BY <2>1, <2>2, <2>3 DEF Typed
<1>9. Covered'
  <2>1. TakenBy(candidates) \subseteq TakenBy(candidates')
    BY <1>6 DEF TakenBy
  <2> QED
    BY <1>1, <2>1 DEF Covered
<1>10. Searched'
  <2>1. IsSearched(graph, queue', V)
    BY <1>2, <1>5, SearchBegins
  <2>2. IsSearched(graph', queue', visited')
    BY <1>1, <1>4, <2>1
  <2>3. \A f \in ToSet(candidates') : Head(f.path) \in visited' =>
          Head(f.path) \in StartsOf(graph') \union DOMAIN prefixes'
    BY <1>1, <1>4
  <2> QED
    BY <2>2, <2>3 DEF Searched
<1> QED
  BY <1>8, <1>9, <1>10

-----------------------------------------------------------------------------
(* The steps of the search.                                                *)

(* What the head of the queue leads to and was not seen is added.          *)
LEMMA SearchGoesOn ==
  ASSUME NEW g, NEW W, NEW walks \in Seq(W), walks # <<>>, NEW found \in Seq(W), NEW seen,
         \A w \in W : Len(w.ids) \in Nat /\ (w.ids = <<>> <=> Len(w.ids) = 0),
         IsSearched(g, walks, seen),
         \A w \in ToSet(found) : Len(w.ids) = Len(Head(walks).ids) + 1 /\ Last(w.path) \notin seen,
         \A e \in EdgesOf(g) : g.edges[e][1] = Last(Head(walks).path) =>
           g.edges[e][2] \in seen \union Ends(found)
  PROVE  IsSearched(g, Tail(walks) \o found, seen \union Ends(found))
<1> DEFINE h == Head(walks)
           L == Len(h.ids)
           t == Tail(walks)
           q == t \o found
           S == StartsOf(g)
           now == seen \union Ends(found)
           m == Len(t)
           n == Len(found)
<1>1. /\ h \in W /\ h \in ToSet(walks) /\ t \in Seq(W) /\ ToSet(walks) = {h} \union ToSet(t)
      /\ h = walks[1] /\ Len(walks) \in Nat \ {0}
      /\ Len(t) = Len(walks) - 1 /\ \A k \in 1 .. Len(walks) - 1 : t[k] = walks[k + 1]
  BY EndsAre
<1>2. q \in Seq(W) /\ ToSet(q) = ToSet(t) \union ToSet(found) /\ IsBoth(q, t, found)
  <2>1. t \in Seq(W) /\ found \in Seq(W)
    BY <1>1
  <2> QED
    BY <2>1, JoinedIs, Zenon
<1>3. L \in Nat /\ m \in Nat /\ n \in Nat
  <2>1. L \in Nat
    BY <1>1
  <2>2. m \in Nat
    BY <1>1
  <2> QED
    BY <2>1, <2>2
<1>4. /\ S \subseteq seen /\ Ends(walks) \subseteq seen /\ InLayers(walks)
      /\ \A w \in ToSet(walks) : IsNearest(g, w)
      /\ \A e \in EdgesOf(g) : g.edges[e][1] \in seen =>
           g.edges[e][2] \in seen \/ g.edges[e][1] \in Ends(walks)
      /\ WithinIn(g, S, L) \subseteq seen
  BY DEF IsSearched
<1>5. Ends(walks) = {Last(h.path)} \union Ends(t) /\ Ends(q) = Ends(t) \union Ends(found)
  BY <1>1, <1>2 DEF Ends
<1>6. \A w \in ToSet(found) : Len(w.ids) = L + 1 /\ Last(w.path) \notin seen
  OBVIOUS
<1> HIDE DEF q, t, h, L, S, m, n
<1>7. \A j, k \in 1 .. m : j <= k =>
        Len(t[j].ids) <= Len(t[k].ids) /\ Len(t[k].ids) <= Len(t[j].ids) + 1
  <2> SUFFICES ASSUME NEW j \in 1 .. m, NEW k \in 1 .. m, j <= k
               PROVE  Len(t[j].ids) <= Len(t[k].ids) /\ Len(t[k].ids) <= Len(t[j].ids) + 1
    OBVIOUS
  <2>1. t[j] = walks[j + 1] /\ t[k] = walks[k + 1]
    BY <1>1, <1>3 DEF m
  <2>2. j + 1 \in 1 .. Len(walks) /\ k + 1 \in 1 .. Len(walks) /\ j + 1 <= k + 1
    BY <1>1, <1>3 DEF m
  <2> QED
    BY <1>4, <2>1, <2>2 DEF InLayers
<1>8. \A j \in 1 .. m : L <= Len(t[j].ids) /\ Len(t[j].ids) <= L + 1
  <2> SUFFICES ASSUME NEW j \in 1 .. m PROVE L <= Len(t[j].ids) /\ Len(t[j].ids) <= L + 1
    OBVIOUS
  <2>1. t[j] = walks[j + 1]
    BY <1>1, <1>3 DEF m
  <2>2. j + 1 \in 1 .. Len(walks) /\ 1 \in 1 .. Len(walks) /\ 1 <= j + 1
    BY <1>1, <1>3 DEF m
  <2> QED
    BY <1>1, <1>4, <2>1, <2>2 DEF InLayers, L
<1>9. /\ Len(q) = m + n /\ \A i \in 1 .. m : q[i] = t[i]
      /\ \A i \in 1 .. n : q[m + i] = found[i]
  BY <1>2 DEF IsBoth, m, n
<1>10. ASSUME NEW i \in 1 .. Len(q)
       PROVE  (i \in 1 .. m /\ q[i] = t[i]) \/ (i > m /\ Len(q[i].ids) = L + 1)
  <2>1. CASE i <= m
    <3>1. i \in 1 .. m
      BY <1>3, <1>9, <2>1
    <3> QED
      BY <1>9, <3>1
  <2>2. CASE ~(i <= m)
    <3>1. i - m \in 1 .. n /\ m + (i - m) = i /\ i > m
      BY <1>3, <1>9, <2>2
    <3>2. q[i] = found[i - m]
      BY <1>9, <3>1
    <3>3. found[i - m] \in ToSet(found)
      BY <3>1 DEF ToSet, n
    <3> QED
      BY <1>6, <3>1, <3>2, <3>3
  <2> QED
    BY <2>1, <2>2
<1>11. InLayers(q)
  <2> SUFFICES ASSUME NEW j \in 1 .. Len(q), NEW k \in 1 .. Len(q), j <= k
               PROVE  Len(q[j].ids) <= Len(q[k].ids) /\ Len(q[k].ids) <= Len(q[j].ids) + 1
    BY DEF InLayers
  <2>1. j \in Int /\ k \in Int /\ m \in Int
    BY <1>2, <1>3
  <2>2. CASE k \in 1 .. m /\ q[k] = t[k]
    <3>1. j \in 1 .. m
      BY <2>1, <2>2
    <3>2. q[j] = t[j]
      BY <1>9, <3>1
    <3> QED
      BY <1>7, <2>2, <3>1, <3>2
  <2>3. CASE k > m /\ Len(q[k].ids) = L + 1
    <3>1. CASE j \in 1 .. m /\ q[j] = t[j]
      <4>1. q[j] \in W
        BY <1>2
      <4>2. Len(q[j].ids) \in Nat
        BY <4>1
      <4>3. L <= Len(q[j].ids) /\ Len(q[j].ids) <= L + 1
        BY <1>8, <3>1
      <4> QED
        BY <1>3, <2>3, <4>2, <4>3
    <3>2. CASE j > m /\ Len(q[j].ids) = L + 1
      BY <1>3, <2>3, <3>2
    <3> QED
      BY <1>10, <3>1, <3>2
  <2> QED
    BY <1>10, <2>2, <2>3
<1>12. \A w \in ToSet(q) : IsNearest(g, w)
  <2>1. ASSUME NEW w \in ToSet(found) PROVE IsNearest(g, w)
    <3>1. Len(w.ids) - 1 = L /\ Last(w.path) \notin seen
      BY <1>3, <1>6
    <3>2. Last(w.path) \notin WithinIn(g, S, Len(w.ids) - 1)
      BY <1>4, <3>1
    <3> QED
      BY <3>2 DEF IsNearest, S
  <2> QED
    BY <1>1, <1>2, <1>4, <2>1
<1>13. ASSUME NEW e \in EdgesOf(g), g.edges[e][1] \in now
       PROVE  g.edges[e][2] \in now \/ g.edges[e][1] \in Ends(q)
  <2>1. CASE g.edges[e][1] \in Ends(found)
    BY <1>5, <2>1
  <2>2. CASE g.edges[e][1] \in seen
    <3>1. g.edges[e][2] \in seen \/ g.edges[e][1] \in {Last(h.path)} \union Ends(t)
      BY <1>4, <1>5, <2>2
    <3>2. g.edges[e][1] = Last(h.path) => g.edges[e][2] \in now
      BY DEF h
    <3> QED
      BY <1>5, <3>1, <3>2
  <2> QED
    BY <1>13, <2>1, <2>2
<1>14. ASSUME q # <<>> PROVE WithinIn(g, S, Len(Head(q).ids)) \subseteq now
  <2>1. Head(q) = q[1] /\ 1 \in 1 .. Len(q) /\ Head(q) \in W
    BY <1>2, <1>14, EndsAre
  <2> DEFINE k == Len(q[1].ids)
  <2>2. k = L \/ k = L + 1
    <3>1. k \in Nat
      BY <2>1
    <3>2. L <= k /\ k <= L + 1
      BY <1>3, <1>8, <1>10, <2>1
    <3> QED
      BY <1>3, <3>1, <3>2
  <2>3. CASE k = L
    BY <1>4, <2>1, <2>3
  <2>4. CASE k = L + 1
    <3>1. WithinIn(g, S, L + 1) = OneMoreIn(g, WithinIn(g, S, L))
      BY <1>3, WithinIs
    <3>2. ASSUME NEW e \in EdgesOf(g), g.edges[e][1] \in WithinIn(g, S, L)
          PROVE  g.edges[e][2] \in now
      <4>1. g.edges[e][1] \in now
        BY <1>4, <3>2
      <4>2. ASSUME g.edges[e][1] \in Ends(q) PROVE FALSE
        <5>1. PICK w \in ToSet(q) : g.edges[e][1] = Last(w.path)
          BY <4>2 DEF Ends
        <5>2. PICK i \in 1 .. Len(q) : w = q[i]
          BY <1>2, <5>1, ElementsAre
        <5>3. w \in W /\ i \in Nat /\ 1 <= i
          BY <1>2, <5>2
        <5>4. Len(w.ids) \in Nat /\ k <= Len(w.ids)
          <6>1. Len(q[1].ids) <= Len(q[i].ids)
            BY <1>11, <2>1, <5>2, <5>3 DEF InLayers
          <6> QED
            BY <5>2, <5>3, <6>1
        <5>5. w.ids # <<>> /\ Len(w.ids) - 1 \in Nat /\ L <= Len(w.ids) - 1
          <6>1. Len(w.ids) # 0 /\ Len(w.ids) - 1 \in Nat /\ L <= Len(w.ids) - 1
            BY <1>3, <2>4, <5>4
          <6> QED
            BY <5>3, <6>1
        <5>6. Last(w.path) \notin WithinIn(g, S, Len(w.ids) - 1)
          BY <1>12, <5>1, <5>5 DEF IsNearest, S
        <5>7. WithinIn(g, S, L) \subseteq WithinIn(g, S, Len(w.ids) - 1)
          BY <1>3, <5>5, WithinGrows
        <5> QED
          BY <3>2, <5>1, <5>6, <5>7
      <4> QED
        BY <1>13, <4>1, <4>2
    <3>3. WithinIn(g, S, L + 1) \subseteq now
      <4> DEFINE X == WithinIn(g, S, L)
      <4>1. X \subseteq now
        BY <1>4
      <4>2. OneMoreIn(g, X) \subseteq now
        <5>1. \A e \in EdgesOf(g) : g.edges[e][1] \in X => g.edges[e][2] \in now
          BY <3>2
        <5> HIDE DEF X, now
        <5> QED
          BY <4>1, <5>1 DEF OneMoreIn
      <4> QED
        BY <3>1, <4>2
    <3> QED
      BY <2>1, <2>4, <3>3
  <2> QED
    BY <2>2, <2>3, <2>4
<1>15. S \subseteq now /\ Ends(q) \subseteq now
  BY <1>4, <1>5
<1> QED
  BY <1>11, <1>12, <1>13, <1>14, <1>15 DEF IsSearched, S, q, t

LEMMA WaysGrow ==
  ASSUME NEW g, NEW I, NEW S, NEW J, NEW T, I \subseteq J, S \subseteq T, NEW f \in Ways(g, I, S)
  PROVE  f \in Ways(g, J, T)
<1>1. /\ f.ids \in Seq(I) /\ f.path \in Seq(S) /\ f = [ids |-> f.ids, path |-> f.path]
      /\ Len(f.path) = Len(f.ids) + 1 /\ Leads(g, f)
  BY WayIs
<1>2. f.ids \in Seq(J) /\ f.path \in Seq(T)
  BY <1>1
<1> QED
  BY <1>1, <1>2 DEF Ways

(* What a search of one state discovers: each state that it leads to and   *)
(* that was not seen is the end of a walk.                                 *)
LEMMA DiscoveriesAre ==
  ASSUME Typed, queue # <<>>, graph.root # Unset
  PROVE  LET h == Head(queue) IN
         /\ h \in Begun(graph) /\ Discoveries \in Seq(Begun(graph))
         /\ \A w \in ToSet(Discoveries) :
              Len(w.ids) = Len(h.ids) + 1 /\ Last(w.path) \notin visited /\ w.ids # <<>>
         /\ \A e \in EdgesOf(graph) : graph.edges[e][1] = Last(h.path) =>
              graph.edges[e][2] \in visited \union Ends(Discoveries)
<1> DEFINE B == Begun(graph)
           S == StatesOf(graph)
           h == Head(queue)
           out == Leaving(Last(h.path))
           E == {e \in out : /\ Target(e) \notin visited
                             /\ \A d \in out : d < e => Target(d) # Target(e)}
           found == InOrder(E)
           D == [i \in DOMAIN found |-> Step(h, found[i])]
<1>1. graph \in Inputs /\ queue \in Seq(B)
  BY DEF Typed, InputTyped, SearchTyped
<1>2. /\ Edge = EdgesOf(graph) /\ State = S /\ Edge \subseteq Nat
      /\ \A e \in Edge : Target(e) \in S
  BY <1>1, GraphIs, OfTheGraph
<1> HIDE DEF B
<1>3. h \in B
  BY <1>1, EndsAre
<1>4. h \in Walks(graph, S) /\ Head(h.path) \in StartsOf(graph)
  BY <1>3 DEF B, Begun
<1>5. out = {e \in Edge : Source(e) = Last(h.path)}
  BY DEF Leaving
<1>6. E \subseteq Edge
  BY <1>5
<1>7. found \in Seq(Edge) /\ ToSet(found) = E
  BY <1>1, <1>6, InOrderIs, Zenon
<1>8. Discoveries = D
  BY DEF Discoveries
<1> HIDE DEF h, out, S
<1>9. ASSUME NEW e \in E
      PROVE  /\ Step(h, e) \in B /\ Len(Step(h, e).ids) = Len(h.ids) + 1
             /\ Last(Step(h, e).path) = Target(e) /\ Target(e) \notin visited
             /\ Step(h, e).ids # <<>>
  <2>1. e \in Edge /\ Source(e) = Last(h.path) /\ Target(e) \notin visited /\ Target(e) \in S
    BY <1>2, <1>5, <1>6
  <2>2. /\ Step(h, e) \in Walks(graph, S) /\ Len(Step(h, e).ids) = Len(h.ids) + 1
        /\ Head(Step(h, e).path) = Head(h.path) /\ Last(Step(h, e).path) = Target(e)
        /\ Step(h, e).ids # <<>>
    BY <1>1, <1>4, <2>1, StepIs
  <2> QED
    BY <1>4, <2>1, <2>2 DEF B, Begun, S
<1>10. \A i \in DOMAIN found : found[i] \in E
  BY <1>7 DEF ToSet
<1> HIDE DEF E, found
<1>11. \A i \in DOMAIN found : D[i] \in B /\ D[i] = Step(h, found[i])
  BY <1>9, <1>10
<1>12. D \in Seq(B) /\ DOMAIN D = DOMAIN found
  <2>1. D = [i \in DOMAIN found |-> D[i]]
    OBVIOUS
  <2> HIDE DEF D
  <2> QED
    BY <1>7, <1>11, <2>1, MappedIs
<1> HIDE DEF D
<1>13. ToSet(D) = {Step(h, e) : e \in E}
  <2>1. ToSet(D) = {D[i] : i \in DOMAIN found} /\ E = {found[i] : i \in DOMAIN found}
    BY <1>7, <1>12 DEF ToSet
  <2> QED
    BY <1>11, <2>1
<1>14. ASSUME NEW e \in out PROVE Target(e) \in visited \union Ends(D)
  <2> SUFFICES ASSUME Target(e) \notin visited PROVE Target(e) \in Ends(D)
    OBVIOUS
  <2> DEFINE T == {d \in out : Target(d) = Target(e)}
  <2>1. T \subseteq Nat /\ T # {}
    BY <1>2, <1>5
  <2>2. PICK d \in T : \A y \in T : d <= y
    BY <2>1, LeastOf
  <2>3. d \in E
    <3>1. \A y \in out : y \in Nat
      BY <1>2, <1>5
    <3> QED
      BY <2>2, <3>1 DEF E
  <2>4. Step(h, d) \in ToSet(D) /\ Last(Step(h, d).path) = Target(e)
    BY <1>9, <1>13, <2>2, <2>3
  <2> QED
    BY <2>4 DEF Ends
<1>15. ASSUME NEW e \in EdgesOf(graph), graph.edges[e][1] = Last(h.path)
       PROVE  graph.edges[e][2] \in visited \union Ends(D)
  <2>1. e \in out
    BY <1>2, <1>5, <1>15 DEF Source
  <2> QED
    BY <1>14, <2>1 DEF Target
<1>16. \A w \in ToSet(D) : Len(w.ids) = Len(h.ids) + 1 /\ Last(w.path) \notin visited /\ w.ids # <<>>
  BY <1>9, <1>13
<1> QED
  BY <1>3, <1>8, <1>12, <1>15, <1>16 DEF B, h

LEMMA SearchKeeps ==
  ASSUME Typed, Searched, Near, Search
  PROVE  Typed' /\ Searched' /\ Near'
<1> DEFINE B == Begun(graph)
           h == Head(queue)
           D == Discoveries
           new == Ends(D) \intersect Targets
           last(n) == CHOOSE w \in ToSet(D) : Last(w.path) = n
<1>1. /\ phase = "prefix" /\ queue # <<>> /\ graph' = graph /\ phase' = phase /\ candidates' = candidates
      /\ queue' = Tail(queue) \o D /\ visited' = visited \union Ends(D)
      /\ prefixes' = [n \in DOMAIN prefixes \union new |-> IF n \in Ends(D) THEN last(n) ELSE prefixes[n]]
      /\ UNCHANGED <<input, walkVars, candidates, mergeVars, selectVars, stored>>
  BY DEF Search, SearchIsOver, input
<1>2. /\ graph \in Inputs /\ graph.root # Unset /\ queue \in Seq(B) /\ visited \subseteq StatesOf(graph)
      /\ \A n \in DOMAIN prefixes :
           n \in StatesOf(graph) /\ prefixes[n] \in B /\ Last(prefixes[n].path) = n
  BY <1>1 DEF Typed, InputTyped, SearchTyped
<1>3. /\ h \in B /\ D \in Seq(B)
      /\ \A w \in ToSet(D) : Len(w.ids) = Len(h.ids) + 1 /\ Last(w.path) \notin visited /\ w.ids # <<>>
      /\ \A e \in EdgesOf(graph) : graph.edges[e][1] = Last(h.path) =>
           graph.edges[e][2] \in visited \union Ends(D)
  BY <1>1, <1>2, DiscoveriesAre
<1>4. \A w \in B : /\ Len(w.ids) \in Nat /\ (w.ids = <<>> <=> Len(w.ids) = 0)
                   /\ Last(w.path) \in StatesOf(graph)
  <2> SUFFICES ASSUME NEW w \in B
               PROVE  /\ Len(w.ids) \in Nat /\ (w.ids = <<>> <=> Len(w.ids) = 0)
                      /\ Last(w.path) \in StatesOf(graph)
    OBVIOUS
  <2>1. w \in Ways(graph, EdgesOf(graph), StatesOf(graph))
    BY DEF Begun, Walks
  <2>2. w.ids \in Seq(EdgesOf(graph)) /\ Last(w.path) \in StatesOf(graph)
    BY <2>1, WayIs
  <2> QED
    BY <2>2, ElementsAre
<1>5. IsSearched(graph, queue, visited)
  BY <1>1 DEF Searched
<1> HIDE DEF B, D
<1>6. IsSearched(graph, Tail(queue) \o D, visited \union Ends(D))
  <2>1. /\ queue \in Seq(B) /\ queue # <<>> /\ D \in Seq(B)
        /\ \A w \in B : Len(w.ids) \in Nat /\ (w.ids = <<>> <=> Len(w.ids) = 0)
    BY <1>1, <1>2, <1>3, <1>4
  <2>2. \A w \in ToSet(D) : Len(w.ids) = Len(h.ids) + 1 /\ Last(w.path) \notin visited
    BY <1>3
  <2> QED
    BY <1>3, <1>5, <2>1, <2>2, SearchGoesOn
<1>7. Ends(D) \subseteq StatesOf(graph)
  <2>1. ToSet(D) \subseteq B
    BY <1>3, ElementsAre
  <2> QED
    BY <1>4, <2>1 DEF Ends
<1>8. queue' \in Seq(B)
  <2>1. Tail(queue) \in Seq(B)
    BY <1>1, <1>2, EndsAre
  <2>2. Tail(queue) \o D \in Seq(B)
    BY <1>3, <2>1, JoinedIs, Zenon
  <2> QED
    BY <1>1, <2>2
<1>9. ASSUME NEW n \in Ends(D)
      PROVE  last(n) \in B /\ last(n) \in ToSet(D) /\ Last(last(n).path) = n
  <2>1. \E w \in ToSet(D) : Last(w.path) = n
    BY DEF Ends
  <2>2. last(n) \in ToSet(D) /\ Last(last(n).path) = n
    BY <2>1
  <2> HIDE DEF last
  <2>3. ToSet(D) \subseteq B
    BY <1>3, ElementsAre
  <2> QED
    BY <2>2, <2>3
<1> HIDE DEF last
<1>10. ASSUME NEW n \in DOMAIN prefixes'
       PROVE  \/ n \in Ends(D) /\ prefixes'[n] = last(n)
              \/ n \in DOMAIN prefixes /\ n \notin Ends(D) /\ prefixes'[n] = prefixes[n]
  BY <1>1
<1>11. DOMAIN prefixes' = DOMAIN prefixes \union new
  BY <1>1
<1>12. Typed'
  <2>1. InputTyped' /\ SelectTyped' /\ WalkTyped'
    BY <1>1, InputKept, NothingSelectedYet, WalkKept DEF Typed, Phases, SelectionBegun
  <2>2. ListsTyped'
    BY <1>1, ListsKept DEF Typed
  <2>3. visited' \subseteq StatesOf(graph)
    BY <1>1, <1>2, <1>7
  <2>4. \A n \in DOMAIN prefixes' :
          n \in StatesOf(graph) /\ prefixes'[n] \in B /\ Last(prefixes'[n].path) = n
    BY <1>2, <1>7, <1>9, <1>10
  <2>5. SearchTyped'
    BY <1>1, <1>8, <2>3, <2>4 DEF SearchTyped, B
  <2> QED
    BY <2>1, <2>2, <2>5 DEF Typed
<1>13. Searched'
  <2>1. IsSearched(graph', queue', visited')
    BY <1>1, <1>6
  <2>2. ASSUME NEW f \in ToSet(candidates), Head(f.path) \in visited'
        PROVE  Head(f.path) \in StartsOf(graph) \union DOMAIN prefixes'
    <3>1. CASE Head(f.path) \in visited
      <4>1. Head(f.path) \in StartsOf(graph) \union DOMAIN prefixes
        BY <1>1, <3>1 DEF Searched
      <4> QED
        BY <1>11, <4>1
    <3>2. CASE Head(f.path) \in Ends(D)
      <4>1. Head(f.path) \in Targets \/ Head(f.path) \in StartsOf(graph)
        BY OfTheGraph DEF Targets
      <4> QED
        BY <1>11, <3>2, <4>1
    <3> QED
      BY <1>1, <2>2, <3>1, <3>2
  <2> QED
    BY <1>1, <2>1, <2>2 DEF Searched
<1>14. Near'
  <2>1. ASSUME NEW w \in ToSet(D) PROVE w.ids # <<>> /\ IsNearest(graph, w)
    <3>1. ToSet(Tail(queue) \o D) = ToSet(Tail(queue)) \union ToSet(D)
      <4>1. Tail(queue) \in Seq(B)
        BY <1>1, <1>2, EndsAre
      <4> QED
        BY <1>3, <4>1, JoinedIs, Zenon
    <3> QED
      BY <1>3, <1>6, <3>1 DEF IsSearched
  <2>2. ASSUME NEW n \in DOMAIN prefixes' PROVE prefixes'[n].ids # <<>> /\ IsNearest(graph, prefixes'[n])
    BY <1>9, <1>10, <2>1 DEF Near
  <2> QED
    BY <1>1, <2>2 DEF Near
<1> QED
  BY <1>12, <1>13, <1>14

(* What is put before candidates leaves what they take in them.            *)
LEMMA NothingIsLostByPrefixes ==
  ASSUME NEW S, NEW flows \in Seq(S), NEW T, NEW r \in Seq(T), DOMAIN r = DOMAIN flows,
         \A i \in DOMAIN flows : ToSet(flows[i].ids) \subseteq ToSet(r[i].ids)
  PROVE  TakenBy(flows) \subseteq TakenBy(r)
BY DEF TakenBy, ToSet

LEMMA AppendCheckpointsKeeps ==
  ASSUME Typed, Covered, Searched, AppendCheckpoints
  PROVE  Typed' /\ Covered'
<1> DEFINE F == Found(graph)
           B == Begun(graph)
           V == StartsOf(graph)
           S == StatesOf(graph)
           I == EdgesOf(graph)
<1>1. /\ phase = "prefix" /\ SearchIsOver /\ phase' = "login" /\ graph' = graph /\ options' = options
      /\ candidates' = [i \in DOMAIN candidates |-> WithPrefix(candidates[i])]
      /\ UNCHANGED <<input, walkVars, mergeVars, searchVars, selectVars, stored>>
      /\ short' = short /\ merged' = merged
  BY DEF AppendCheckpoints, input, mergeVars
<1>2. /\ graph \in Inputs /\ graph.root # Unset /\ candidates \in Seq(F)
      /\ short \in Seq(F) /\ merged \in Seq(F) /\ visited \subseteq S
      /\ \A n \in DOMAIN prefixes : prefixes[n] \in B /\ Last(prefixes[n].path) = n
  BY <1>1 DEF Typed, InputTyped, ListsTyped, SearchTyped, CandidatesOf
<1>3. /\ IsSearched(graph, queue, visited)
      /\ \A f \in ToSet(candidates) : Head(f.path) \in visited => Head(f.path) \in V \union DOMAIN prefixes
  BY <1>1 DEF Searched
<1>4. Reach(graph) \subseteq S /\ graph.root \in V
  <2>1. Reach(graph) \subseteq S
    BY DEF Reach
  <2>2. graph.root \in V
    BY DEF StartsOf
  <2> QED
    BY <2>1, <2>2
<1>5. ASSUME queue = <<>> PROVE Reach(graph) \subseteq visited
  <2>1. ToSet(queue) = {}
    <3>1. queue \in Seq(B)
      BY DEF Typed, SearchTyped
    <3> QED
      BY <1>5, <3>1, ElementsAre
  <2>2. Ends(queue) = {}
    BY <2>1 DEF Ends
  <2>3. Closed(graph, visited) /\ graph.root \in visited
    BY <1>3, <1>4, <2>2 DEF IsSearched, Closed
  <2> QED
    BY <1>2, <2>3 DEF Reach
<1>6. ASSUME NEW f \in ToSet(candidates)
      PROVE  f \in F /\ Head(f.path) \in V \union DOMAIN prefixes
  <2>1. f \in F
    BY <1>2, ElementsAre
  <2>2. Head(f.path) \in Reach(graph)
    BY <2>1, WayIs DEF Found, Walks
  <2>3. CASE queue = <<>>
    BY <1>3, <1>5, <2>1, <2>2, <2>3
  <2>4. CASE DOMAIN prefixes = Targets
    <3>1. Head(f.path) \in Targets \/ Head(f.path) \in V
      BY OfTheGraph DEF Targets
    <3> QED
      BY <2>1, <2>4, <3>1
  <2> QED
    BY <1>1, <2>3, <2>4 DEF SearchIsOver
<1>7. ASSUME NEW f \in ToSet(candidates)
      PROVE  WithPrefix(f) \in B /\ ToSet(f.ids) \subseteq ToSet(WithPrefix(f).ids)
  <2>1. f \in Ways(graph, I, S)
    BY <1>4, <1>6, WaysGrow DEF Found, Walks
  <2>2. CASE Head(f.path) \in DOMAIN prefixes
    <3> DEFINE p == prefixes[Head(f.path)]
    <3>1. p \in Ways(graph, I, S) /\ Last(p.path) = Head(f.path) /\ Head(p.path) \in V
      BY <1>2, <2>2 DEF Begun, Walks
    <3>2. WithPrefix(f) = Joined(p, f)
      BY <2>2 DEF WithPrefix
    <3> HIDE DEF p, I, S
    <3>3. /\ Joined(p, f) \in Ways(graph, I, S)
          /\ ToSet(Joined(p, f).ids) = ToSet(p.ids) \union ToSet(f.ids)
          /\ Head(Joined(p, f).path) = Head(p.path)
      <4>1. p \in Ways(graph, I, S) /\ f \in Ways(graph, I, S) /\ Last(p.path) = Head(f.path)
        BY <2>1, <3>1
      <4> QED
        BY <4>1, JoinIs
    <3> QED
      BY <3>1, <3>2, <3>3 DEF Begun, Walks, I, S
  <2>3. CASE Head(f.path) \notin DOMAIN prefixes
    <3>1. WithPrefix(f) = f
      BY <2>3 DEF WithPrefix
    <3>2. Head(f.path) \in V
      BY <1>6, <2>3
    <3> QED
      BY <2>1, <3>1, <3>2 DEF Begun, Walks
  <2> QED
    BY <2>2, <2>3
<1> HIDE DEF F, B
<1>8. \A i \in DOMAIN candidates : candidates[i] \in ToSet(candidates)
  BY DEF ToSet
<1>9. candidates' \in Seq(B) /\ DOMAIN candidates' = DOMAIN candidates
  <2>1. \A i \in DOMAIN candidates : candidates'[i] \in B
    BY <1>1, <1>7, <1>8
  <2>2. candidates' = [i \in DOMAIN candidates |-> candidates'[i]]
    BY <1>1
  <2> QED
    BY <1>2, <2>1, <2>2, MappedIs
<1>10. TakenBy(candidates) \subseteq TakenBy(candidates')
  <2>1. \A i \in DOMAIN candidates : ToSet(candidates[i].ids) \subseteq ToSet(candidates'[i].ids)
    BY <1>1, <1>7, <1>8
  <2> QED
    BY <1>2, <1>9, <2>1, NothingIsLostByPrefixes
<1>11. Typed'
  <2>1. InputTyped' /\ SelectTyped' /\ WalkTyped' /\ SearchTyped'
    BY <1>1, InputKept, NothingSelectedYet, WalkKept, SearchKept DEF Typed, Phases, SelectionBegun
  <2>2. candidates' \in Seq(CandidatesOf(graph', phase'))
    BY <1>1, <1>9 DEF CandidatesOf, B
  <2> QED
    BY <1>1, <1>2, <2>1, <2>2 DEF Typed, ListsTyped, F
<1>12. Covered'
  BY <1>1, <1>10 DEF Covered
<1> QED
  BY <1>11, <1>12

(* The navigate transition leads from the login page to where it should.   *)
LEMMA NavigateIs ==
  ASSUME graph \in Inputs, NEW n \in State
  PROVE  /\ Navigate(n) \in Int \ {0}
         /\ FromIn(graph, Navigate(n)) = graph.login /\ ToIn(graph, Navigate(n)) = n
<1> DEFINE known == {e \in graph.navigates : Source(e) = graph.login /\ Target(e) = n}
<1>1. /\ graph.navigates \subseteq Edge /\ n \in Nat \ {0}
      /\ \A e \in Edge : e \in Nat \ {0} /\ FromIn(graph, e) = Source(e) /\ ToIn(graph, e) = Target(e)
  BY GraphIs DEF IsGraph, Edge
<1>2. CASE known = {}
  <2>1. Navigate(n) = -n /\ -n \in Int \ {0} /\ ~(-n > 0) /\ -(-n) = n
    BY <1>1, <1>2 DEF Navigate
  <2> QED
    BY <2>1 DEF FromIn, ToIn
<1>3. CASE known # {}
  <2>1. Navigate(n) \in known
    BY <1>3 DEF Navigate
  <2>2. Navigate(n) \in Edge /\ Source(Navigate(n)) = graph.login /\ Target(Navigate(n)) = n
    BY <1>1, <2>1
  <2> HIDE DEF known
  <2> QED
    BY <1>1, <2>2
<1> QED
  BY <1>2, <1>3

LEMMA WithLoginIs ==
  ASSUME graph \in Inputs, NEW f \in Begun(graph)
  PROVE  WithLogin(f) \in Complete(graph) /\ ToSet(f.ids) \subseteq ToSet(WithLogin(f).ids)
<1> DEFINE n == Head(f.path)
           I == Int \ {0}
           S == StatesOf(graph) \union {graph.login}
<1>1. /\ f \in Ways(graph, EdgesOf(graph), StatesOf(graph)) /\ n \in StartsOf(graph)
      /\ f.ids \in Seq(EdgesOf(graph)) /\ n \in StatesOf(graph) /\ Len(f.ids) \in Nat
  BY WayIs DEF Begun, Walks
<1>2. EdgesOf(graph) \subseteq I /\ \A e \in EdgesOf(graph) : e > 0
  BY GraphIs
<1>3. f \in Ways(graph, I, S)
  BY <1>1, <1>2, WaysGrow
<1>4. \A i \in 1 .. Len(f.ids) : f.ids[i] > 0
  BY <1>1, <1>2
<1>5. CASE graph.login = Unset
  BY <1>5 DEF WithLogin, Complete
<1>6. CASE graph.login # Unset /\ n = graph.login
  <2>1. WithLogin(f) = f
    BY <1>6 DEF WithLogin
  <2>2. \A i \in 2 .. Len(f.ids) : f.ids[i] > 0
    BY <1>1, <1>4
  <2> QED
    BY <1>3, <1>6, <2>1, <2>2 DEF Complete
<1>7. CASE graph.login # Unset /\ n # graph.login
  <2> DEFINE id == Navigate(n)
             one == <<id>>
             two == <<graph.login, n>>
             p == [ids |-> one, path |-> two]
  <2>1. id \in I /\ FromIn(graph, id) = graph.login /\ ToIn(graph, id) = n
    BY <1>1, NavigateIs, OfTheGraph
  <2> HIDE DEF id
  <2>2. /\ one \in Seq(I) /\ two \in Seq(S) /\ Len(one) = 1 /\ Len(two) = 2 /\ one[1] = id
        /\ two[1] = graph.login /\ two[2] = n /\ two # <<>> /\ 1 + 1 = 2
    BY <1>1, <2>1
  <2>3. Last(two) = n /\ Head(two) = graph.login
    BY <2>2 DEF Last
  <2> HIDE DEF one, two, S, I, n
  <2>4. \A i \in 1 .. Len(one) : FromIn(graph, one[i]) = two[i] /\ ToIn(graph, one[i]) = two[i + 1]
    <3>1. 1 .. Len(one) = {1}
      BY <2>2
    <3> QED
      BY <2>1, <2>2, <3>1
  <2>5. Len(two) = Len(one) + 1
    BY <2>2
  <2>6. p \in Ways(graph, I, S)
    BY <2>2, <2>4, <2>5, IsAWay
  <2>7. p.ids = one /\ p.path = two
    OBVIOUS
  <2> HIDE DEF p
  <2>8. Last(p.path) = Head(f.path) /\ Head(p.path) = graph.login
    BY <2>3, <2>7 DEF n
  <2>9. /\ Joined(p, f) \in Ways(graph, I, S) /\ IsBoth(Joined(p, f).ids, p.ids, f.ids)
        /\ ToSet(Joined(p, f).ids) = ToSet(p.ids) \union ToSet(f.ids)
        /\ Head(Joined(p, f).path) = Head(p.path)
    <3>1. p \in Ways(graph, I, S) /\ f \in Ways(graph, I, S) /\ Last(p.path) = Head(f.path)
      BY <1>3, <2>6, <2>8
    <3> QED
      BY <3>1, JoinIs
  <2>10. WithLogin(f) = Joined(p, f)
    BY <1>7 DEF WithLogin, p, one, two, id, n
  <2> DEFINE all == Joined(p, f).ids
  <2>11. IsBoth(all, one, f.ids)
    BY <2>7, <2>9
  <2> HIDE DEF all
  <2>13. \A i \in 2 .. Len(all) : all[i] > 0
    <3> SUFFICES ASSUME NEW i \in 2 .. Len(all) PROVE all[i] > 0
      OBVIOUS
    <3>1. Len(all) = 1 + Len(f.ids) /\ \A k \in 1 .. Len(f.ids) : all[1 + k] = f.ids[k]
      BY <2>2, <2>11 DEF IsBoth
    <3>2. i - 1 \in 1 .. Len(f.ids) /\ 1 + (i - 1) = i
      BY <1>1, <3>1
    <3>3. all[i] = f.ids[i - 1]
      BY <3>1, <3>2
    <3> QED
      BY <1>4, <3>2, <3>3
  <2> QED
    BY <1>7, <2>8, <2>9, <2>10, <2>13 DEF Complete, I, S, all
<1> QED
  BY <1>5, <1>6, <1>7

-----------------------------------------------------------------------------
(* The selection.                                                          *)
LEMMA TopExists ==
  ASSUME NEW n \in Nat, NEW h
  PROVE  \A D \in SUBSET (1 .. n) : D # {} /\ (\A i \in D : h[i] \in Nat) =>
           \E i \in D : \A j \in D : h[i] > h[j] \/ (h[i] = h[j] /\ i <= j)
<1> DEFINE HasTop(D) == \E i \in D : \A j \in D : h[i] > h[j] \/ (h[i] = h[j] /\ i <= j)
           N == {m \in Nat : \A D \in SUBSET (1 .. m) :
                               D # {} /\ (\A i \in D : h[i] \in Nat) => HasTop(D)}
<1>1. 0 \in N
  <2>1. 1 .. 0 = {}
    OBVIOUS
  <2> HIDE DEF HasTop
  <2> QED
    BY <2>1
<1>2. ASSUME NEW m \in N PROVE m + 1 \in N
  <2> SUFFICES ASSUME NEW D \in SUBSET (1 .. m + 1), D # {}, \A i \in D : h[i] \in Nat
               PROVE  HasTop(D)
    OBVIOUS
  <2> DEFINE C == D \ {m + 1}
  <2>1. C \in SUBSET (1 .. m) /\ m \in Nat
    OBVIOUS
  <2>2. CASE C = {}
    <3>1. D = {m + 1}
      BY <2>2
    <3> QED
      BY <3>1
  <2>3. CASE C # {}
    <3>1. HasTop(C)
      BY <2>1, <2>3
    <3>2. PICK i \in C : \A j \in C : h[i] > h[j] \/ (h[i] = h[j] /\ i <= j)
      BY <3>1
    <3>3. i \in D /\ i \in Nat /\ i <= m /\ h[i] \in Nat /\ \A j \in D : j \in Nat /\ h[j] \in Nat
      BY <2>1
    <3>4. CASE m + 1 \in D /\ h[m + 1] > h[i]
      <4>1. \A j \in D : h[m + 1] > h[j] \/ (h[m + 1] = h[j] /\ m + 1 <= j)
        <5> SUFFICES ASSUME NEW j \in D PROVE h[m + 1] > h[j] \/ (h[m + 1] = h[j] /\ m + 1 <= j)
          OBVIOUS
        <5>1. CASE j = m + 1
          BY <2>1, <3>3, <3>4, <5>1
        <5>2. CASE j # m + 1
          <6>1. j \in C
            BY <5>2
          <6>2. h[i] > h[j] \/ h[i] = h[j]
            BY <3>2, <6>1
          <6> QED
            BY <3>3, <3>4, <6>2
        <5> QED
          BY <5>1, <5>2
      <4> QED
        BY <3>4, <4>1
    <3>5. CASE ~(m + 1 \in D /\ h[m + 1] > h[i])
      <4>1. \A j \in D : h[i] > h[j] \/ (h[i] = h[j] /\ i <= j)
        <5> SUFFICES ASSUME NEW j \in D PROVE h[i] > h[j] \/ (h[i] = h[j] /\ i <= j)
          OBVIOUS
        <5>1. CASE j = m + 1
          <6>1. ~(h[j] > h[i]) /\ i <= j
            BY <2>1, <3>3, <3>5, <5>1
          <6> QED
            BY <3>3, <6>1
        <5>2. CASE j # m + 1
          <6>1. j \in C
            BY <5>2
          <6> QED
            BY <3>2, <6>1
        <5> QED
          BY <5>1, <5>2
      <4> QED
        BY <3>3, <4>1
    <3> QED
      BY <3>4, <3>5
  <2> QED
    BY <2>2, <2>3
<1>3. N \in SUBSET Nat
  OBVIOUS
<1>4. n \in N
  <2> HIDE DEF N
  <2> QED
    BY <1>1, <1>2, <1>3, NumbersFromZero
<1> QED
  BY <1>4

LEMMA TopIs ==
  ASSUME ListsTyped, SelectTyped, DOMAIN heap # {}
  PROVE  /\ Top \in DOMAIN heap /\ heap[Top] \in Nat
         /\ \A j \in DOMAIN heap : heap[j] \in Nat /\ heap[j] <= heap[Top]
<1> DEFINE n == Len(candidates)
           D == DOMAIN heap
           IsTop(i) == \A j \in D : heap[i] > heap[j] \/ (heap[i] = heap[j] /\ i <= j)
<1>1. n \in Nat /\ D \in SUBSET (1 .. n) /\ D # {} /\ \A i \in D : heap[i] \in Nat
  BY DEF ListsTyped, SelectTyped
<1>2. \E i \in D : IsTop(i)
  <2> HIDE DEF n, D
  <2> QED
    BY <1>1, TopExists
<1>3. Top = CHOOSE i \in D : IsTop(i)
  BY DEF Top
<1> HIDE DEF IsTop, D
<1>4. Top \in D /\ IsTop(Top)
  BY <1>2, <1>3
<1> HIDE DEF n
<1>5. \A j \in D : heap[Top] > heap[j] \/ heap[Top] = heap[j]
  BY <1>4 DEF IsTop
<1> DEFINE t == Top
<1> HIDE DEF t
<1>6. t \in D /\ \A j \in D : heap[t] > heap[j] \/ heap[t] = heap[j]
  BY <1>4, <1>5 DEF t
<1>7. heap[t] \in Nat /\ \A j \in D : heap[j] \in Nat /\ heap[j] <= heap[t]
  BY <1>1, <1>6
<1> QED
  BY <1>6, <1>7 DEF t, D

(* The more is covered, the less a candidate gains.                        *)
LEMMA GainFalls ==
  ASSUME NEW S, NEW ids \in Seq(S), NEW X, NEW Y, X \subseteq Y
  PROVE  /\ Cardinality(ToSet(ids) \ Y) \in Nat /\ Cardinality(ToSet(ids) \ X) \in Nat
         /\ Cardinality(ToSet(ids) \ Y) <= Cardinality(ToSet(ids) \ X)
         /\ Cardinality(ToSet(ids) \ Y) = 0 => ToSet(ids) \subseteq Y
<1> DEFINE A == ToSet(ids) \ X
           B == ToSet(ids) \ Y
<1>1. IsFiniteSet(ToSet(ids))
  BY ListsAreFinite
<1>2. IsFiniteSet(A) /\ IsFiniteSet(B) /\ B \in SUBSET A
  BY <1>1, FS_Difference
<1>3. Cardinality(A) \in Nat /\ Cardinality(B) \in Nat
  BY <1>2, FS_CardinalityType
<1>4. Cardinality(B) <= Cardinality(A)
  BY <1>2, FS_Subset
<1>5. Cardinality(B) = 0 => B = {}
  BY <1>2, FS_EmptySet
<1> QED
  BY <1>3, <1>4, <1>5

LEMMA CompleteIs ==
  ASSUME graph \in Inputs, NEW f \in Complete(graph)
  PROVE  /\ f.ids \in Seq(Int \ {0}) /\ Len(f.ids) \in Nat
         /\ f \in Ways(graph, Int \ {0}, StatesOf(graph) \union {graph.login})
         /\ graph.login = Unset => ToSet(f.ids) \subseteq EdgesOf(graph)
<1> DEFINE I == Int \ {0}
           S == StatesOf(graph) \union {graph.login}
<1>1. EdgesOf(graph) \subseteq I
  BY GraphIs
<1>2. CASE graph.login = Unset
  <2>1. f \in Ways(graph, EdgesOf(graph), StatesOf(graph))
    BY <1>2 DEF Complete, Begun, Walks
  <2>2. f \in Ways(graph, I, S)
    BY <1>1, <2>1, WaysGrow
  <2>3. ToSet(f.ids) \subseteq EdgesOf(graph)
    BY <2>1, WayIs
  <2> HIDE DEF I, S
  <2>4. f.ids \in Seq(I) /\ Len(f.ids) \in Nat
    BY <2>2, WayIs
  <2> QED
    BY <2>2, <2>3, <2>4 DEF I, S
<1>3. CASE graph.login # Unset
  <2>1. f \in Ways(graph, I, S)
    BY <1>3 DEF Complete
  <2> HIDE DEF I, S
  <2>2. f.ids \in Seq(I) /\ Len(f.ids) \in Nat
    BY <2>1, WayIs
  <2> QED
    BY <1>3, <2>1, <2>2 DEF I, S
<1> QED
  BY <1>2, <1>3

LEMMA AppendLoginKeeps ==
  ASSUME Typed, Covered, AppendLogin
  PROVE  Typed' /\ Covered' /\ Selecting'
<1> DEFINE B == Begun(graph)
           C == Complete(graph)
<1>1. /\ phase = "login" /\ phase' = "select" /\ graph' = graph /\ options' = options
      /\ candidates' = [i \in DOMAIN candidates |-> WithLogin(candidates[i])]
      /\ heap' = [i \in {i \in DOMAIN candidates' : Len(candidates'[i].ids) >= options.minStates} |->
                   Cardinality(ToSet(candidates'[i].ids))]
      /\ UNCHANGED <<input, walkVars, mergeVars, searchVars, selected, stored>>
      /\ short' = short /\ merged' = merged /\ selected' = selected /\ stored' = stored
  BY DEF AppendLogin, input, mergeVars
<1>2. /\ graph \in Inputs /\ graph.root # Unset /\ options \in Options /\ candidates \in Seq(B)
      /\ selected = <<>> /\ stored \in Seq(StoredOf(graph))
      /\ short \in Seq(Found(graph)) /\ merged \in Seq(Found(graph))
  BY <1>1 DEF Typed, InputTyped, ListsTyped, SelectTyped, CandidatesOf, SelectionBegun
<1>3. options.minStates \in Nat \ {0} /\ MaxFlows \in Nat \ {0}
  BY <1>2, OptionsAre
<1>4. \A f \in B : WithLogin(f) \in C /\ ToSet(f.ids) \subseteq ToSet(WithLogin(f).ids)
  BY <1>2, WithLoginIs
<1> HIDE DEF B, C
<1>5. \A i \in DOMAIN candidates : candidates[i] \in B
  BY <1>2
<1>6. candidates' \in Seq(C) /\ DOMAIN candidates' = DOMAIN candidates
  <2>1. \A i \in DOMAIN candidates : candidates'[i] \in C
    BY <1>1, <1>4, <1>5
  <2>2. candidates' = [i \in DOMAIN candidates |-> candidates'[i]]
    BY <1>1
  <2> QED
    BY <1>2, <2>1, <2>2, MappedIs
<1>7. TakenBy(candidates) \subseteq TakenBy(candidates')
  <2>1. \A i \in DOMAIN candidates : ToSet(candidates[i].ids) \subseteq ToSet(candidates'[i].ids)
    BY <1>1, <1>4, <1>5
  <2> QED
    BY <1>2, <1>6, <2>1, NothingIsLostByPrefixes
<1> DEFINE E == {i \in DOMAIN candidates' : Len(candidates'[i].ids) >= options.minStates}
<1>8. ASSUME NEW i \in E
      PROVE  /\ heap'[i] = Cardinality(ToSet(candidates'[i].ids) \ {}) /\ heap'[i] \in Nat
             /\ candidates'[i].ids # <<>>
  <2>1. candidates'[i] \in C
    BY <1>6
  <2>2. candidates'[i].ids \in Seq(Int \ {0})
    BY <1>2, <2>1, CompleteIs DEF C
  <2>3. heap'[i] = Cardinality(ToSet(candidates'[i].ids))
    BY <1>1
  <2>4. ToSet(candidates'[i].ids) \ {} = ToSet(candidates'[i].ids)
    OBVIOUS
  <2>5. Cardinality(ToSet(candidates'[i].ids) \ {}) \in Nat
    BY <2>2, GainFalls
  <2>6. candidates'[i].ids # <<>>
    <3>1. Len(candidates'[i].ids) >= options.minStates
      OBVIOUS
    <3>2. Len(candidates'[i].ids) # 0
      BY <1>3, <3>1
    <3> QED
      BY <2>2, <3>2, ElementsAre
  <2> QED
    BY <2>3, <2>4, <2>5, <2>6
<1>9. DOMAIN heap' = E /\ heap' = [i \in E |-> heap'[i]]
  BY <1>1
<1>10. ToSet(selected') = {} /\ selected' \in Seq(DOMAIN candidates') /\ Len(selected') = 0
  <2>1. <<>> \in Seq(DOMAIN candidates') /\ Len(<<>>) = 0
    OBVIOUS
  <2>2. ToSet(<<>>) = {}
    BY <2>1, ElementsAre
  <2> QED
    BY <1>1, <1>2, <2>1, <2>2
<1>11. Left' = E /\ Eligible' = E
  BY <1>1, <1>10 DEF Left, Eligible
<1>12. Union(Chosen') = {}
  BY <1>10 DEF Chosen, Union
<1>13. E \subseteq DOMAIN candidates'
  OBVIOUS
<1>14. ASSUME NEW i \in E PROVE Gain(i)' = heap'[i]
  BY <1>8, <1>12 DEF Gain
<1> HIDE DEF E
<1>15. Typed'
  <2>1. InputTyped' /\ WalkTyped' /\ SearchTyped'
    BY <1>1, InputKept, WalkKept, SearchKept DEF Typed, Phases
  <2>2. ListsTyped'
    <3>1. candidates' \in Seq(CandidatesOf(graph', phase'))
      BY <1>1, <1>6 DEF CandidatesOf, C
    <3> QED
      BY <1>1, <1>2, <3>1 DEF ListsTyped
  <2>3. SelectTyped'
    <3>1. phase' \in SelectionBegun
      BY <1>1 DEF SelectionBegun
    <3>2. stored' \in Seq(StoredOf(graph'))
      BY <1>1, <1>2
    <3> QED
      BY <1>8, <1>9, <1>10, <1>13, <3>1, <3>2 DEF SelectTyped
  <2> QED
    BY <2>1, <2>2, <2>3 DEF Typed
<1>16. Covered'
  BY <1>1, <1>7 DEF Covered
<1>17. Selecting'
  <2>1. heap' \in [Left' -> Nat]
    BY <1>8, <1>9, <1>11
  <2>2. Len(selected') < MaxFlows'
    BY <1>1, <1>3, <1>10 DEF MaxFlows
  <2>3. \A i \in Left' : Gain(i)' <= heap'[i]
    BY <1>8, <1>11, <1>14
  <2> QED
    BY <2>1, <2>2, <2>3 DEF Selecting
<1> QED
  BY <1>15, <1>16, <1>17

(* What is filed is at least what can be gained.                           *)
LEMMA TopGains ==
  ASSUME Typed, Selecting, phase = "select", heap # <<>>
  PROVE  /\ DOMAIN heap = Left /\ Top \in Left /\ heap[Top] \in Nat
         /\ \A i \in Left : /\ i \in DOMAIN candidates /\ heap[i] \in Nat /\ Gain(i) \in Nat
                            /\ Gain(i) <= heap[i] /\ heap[i] <= heap[Top]
<1>1. heap \in [Left -> Nat] /\ \A i \in Left : Gain(i) <= heap[i]
  BY DEF Selecting
<1>2. DOMAIN heap = Left /\ DOMAIN heap # {}
  <2>1. Left = {} => heap = <<>>
    BY <1>1
  <2> QED
    BY <1>1, <2>1
<1>3. /\ Top \in DOMAIN heap /\ heap[Top] \in Nat
      /\ \A j \in DOMAIN heap : heap[j] \in Nat /\ heap[j] <= heap[Top]
  BY <1>2, TopIs DEF Typed
<1>4. ASSUME NEW i \in Left PROVE i \in DOMAIN candidates /\ Gain(i) \in Nat
  <2>1. i \in DOMAIN candidates
    BY DEF Left, Eligible
  <2>2. graph \in Inputs /\ graph.root # Unset /\ candidates \in Seq(Complete(graph))
    BY DEF Typed, InputTyped, ListsTyped, CandidatesOf
  <2>3. candidates[i] \in Complete(graph)
    BY <2>1, <2>2
  <2>4. candidates[i].ids \in Seq(Int \ {0})
    BY <2>2, <2>3, CompleteIs
  <2>5. Cardinality(ToSet(candidates[i].ids) \ Union(Chosen)) \in Nat
    BY <2>4, GainFalls
  <2> QED
    BY <2>1, <2>5 DEF Gain
<1> QED
  BY <1>1, <1>2, <1>3, <1>4

LEMMA PopStaleKeeps ==
  ASSUME Typed, Selecting, PopStale
  PROVE  Typed' /\ Selecting'
<1>1. /\ phase = "select" /\ heap # <<>> /\ heap' = [heap EXCEPT ![Top] = Gain(Top)]
      /\ graph' = graph /\ options' = options /\ phase' = phase /\ candidates' = candidates
      /\ selected' = selected /\ stored' = stored
      /\ UNCHANGED <<input, walkVars, candidates, mergeVars, searchVars>>
  BY DEF PopStale, input
<1>2. /\ DOMAIN heap = Left /\ Top \in Left /\ heap[Top] \in Nat
      /\ \A i \in Left : /\ i \in DOMAIN candidates /\ heap[i] \in Nat /\ Gain(i) \in Nat
                         /\ Gain(i) <= heap[i] /\ heap[i] <= heap[Top]
  BY <1>1, TopGains
<1>3. Left' = Left
  BY <1>1 DEF Left, Eligible
<1>4. \A i : Gain(i)' = Gain(i)
  BY <1>1 DEF Gain, Chosen
<1> DEFINE t == Top
           gain(i) == Gain(i)
           left == Left
<1>5. heap' = [heap EXCEPT ![t] = gain(t)] /\ DOMAIN heap = left /\ t \in left
      /\ heap \in [left -> Nat] /\ \A i \in left : gain(i) \in Nat /\ gain(i) <= heap[i]
  BY <1>1, <1>2 DEF Selecting
<1> HIDE DEF t, gain, left
<1>6. heap' \in [left -> Nat] /\ DOMAIN heap' = DOMAIN heap /\ \A i \in left : gain(i) <= heap'[i]
  BY <1>5
<1>7. Selecting'
  <2>1. heap' \in [Left' -> Nat]
    BY <1>3, <1>6 DEF left
  <2>2. Len(selected') < MaxFlows'
    BY <1>1 DEF Selecting, MaxFlows
  <2>3. \A i \in Left' : Gain(i)' <= heap'[i]
    BY <1>3, <1>4, <1>6 DEF left, gain
  <2> QED
    BY <2>1, <2>2, <2>3 DEF Selecting
<1>8. SelectTyped'
  <2>1. SelectTyped /\ phase' \in SelectionBegun
    BY <1>1 DEF Typed, SelectionBegun
  <2>2. DOMAIN heap' = DOMAIN heap /\ \A i \in DOMAIN heap' : heap'[i] \in Nat
    BY <1>5, <1>6
  <2> QED
    BY <1>1, <2>1, <2>2 DEF SelectTyped
<1>9. InputTyped' /\ WalkTyped' /\ SearchTyped' /\ ListsTyped'
  BY <1>1, InputKept, WalkKept, SearchKept, ListsKept DEF Typed, Phases
<1> QED
  BY <1>7, <1>8, <1>9 DEF Typed

LEMMA SelectionEndsKeeps ==
  ASSUME Typed, Selecting, SelectionEnds
  PROVE  Typed' /\ StopsForAReason'
<1>1. /\ phase = "select" /\ phase' = "store"
      /\ graph' = graph /\ options' = options /\ candidates' = candidates
      /\ heap' = heap /\ selected' = selected /\ stored' = stored
      /\ UNCHANGED <<input, walkVars, candidates, mergeVars, searchVars>>
  BY DEF SelectionEnds, input, selectVars
<1>2. heap \in [Left -> Nat] /\ Len(selected) < MaxFlows
  BY <1>1 DEF Selecting
<1>3. Left = {} \/ (AtLeast(Len(selected)) /\ \A i \in Left : Gain(i) = 0)
  <2>1. CASE heap = <<>>
    <3>1. DOMAIN heap = {}
      BY <2>1
    <3> QED
      BY <1>2, <3>1
  <2>2. CASE heap # <<>> /\ heap[Top] = 0 /\ AtLeast(Len(selected))
    <3>1. \A i \in Left : Gain(i) \in Nat /\ Gain(i) <= heap[i] /\ heap[i] <= heap[Top] /\ heap[i] \in Nat
      BY <1>1, <2>2, TopGains
    <3>2. \A i \in Left : Gain(i) = 0
      BY <2>2, <3>1
    <3> QED
      BY <2>2, <3>2
  <2> QED
    BY <2>1, <2>2 DEF SelectionEnds
<1>4. StopsForAReason'
  <2>1. Left' = Left /\ AtLeast(Len(selected))' = AtLeast(Len(selected)) /\ MaxFlows' = MaxFlows
    BY <1>1 DEF Left, Eligible, AtLeast, MaxFlows
  <2>2. \A i : Gain(i)' = Gain(i)
    BY <1>1 DEF Gain, Chosen
  <2>3. selected \in Seq(DOMAIN candidates) /\ options \in Options
    BY DEF Typed, SelectTyped, InputTyped
  <2>4. Len(selected) \in Nat /\ MaxFlows \in Nat
    BY <2>3, OptionsAre
  <2>5. Len(selected') <= MaxFlows'
    BY <1>1, <1>2, <2>1, <2>4
  <2>6. Left' = {} \/ (AtLeast(Len(selected))' /\ \A i \in Left' : Gain(i)' = 0)
    BY <1>3, <2>1, <2>2
  <2> QED
    BY <2>5, <2>6 DEF StopsForAReason
<1>5. SelectTyped'
  BY <1>1 DEF Typed, SelectTyped, SelectionBegun
<1>6. InputTyped' /\ WalkTyped' /\ SearchTyped' /\ ListsTyped'
  BY <1>1, InputKept, WalkKept, SearchKept, ListsKept DEF Typed, Phases, CandidatesOf
<1> QED
  BY <1>4, <1>5, <1>6 DEF Typed

LEMMA SelectTopKeeps ==
  ASSUME Typed, Selecting, SelectTop
  PROVE  Typed' /\ Selecting' /\ StopsForAReason'
<1> DEFINE t == Top
           flows == Chosen \union {candidates[Top]}
           left == Left \ {Top}
<1>1. /\ phase = "select" /\ heap # <<>>
      /\ selected' = Append(selected, t) /\ heap' = [i \in DOMAIN heap \ {t} |-> heap[i]]
      /\ phase' = IF Enough(Len(selected'), flows) THEN "store" ELSE "select"
      /\ graph' = graph /\ options' = options /\ candidates' = candidates /\ stored' = stored
      /\ UNCHANGED <<input, walkVars, candidates, mergeVars, searchVars>>
  BY DEF SelectTop, input
<1>2. /\ DOMAIN heap = Left /\ t \in Left /\ t \in DOMAIN candidates
      /\ \A i \in Left : /\ i \in DOMAIN candidates /\ heap[i] \in Nat /\ Gain(i) \in Nat
                         /\ Gain(i) <= heap[i]
  BY <1>1, TopGains
<1>3. /\ selected \in Seq(DOMAIN candidates) /\ Len(selected) < MaxFlows /\ options \in Options
      /\ graph \in Inputs /\ graph.root # Unset /\ candidates \in Seq(Complete(graph))
      /\ stored \in Seq(StoredOf(graph))
  BY <1>1 DEF Selecting, Typed, SelectTyped, InputTyped, ListsTyped, CandidatesOf
<1>4. MaxFlows \in Nat /\ MaxFlows' = MaxFlows
  BY <1>1, <1>3, OptionsAre DEF MaxFlows
<1> DEFINE dom == DOMAIN candidates
<1> HIDE DEF t, dom
<1>5. /\ selected' \in Seq(dom) /\ ToSet(selected') = ToSet(selected) \union {t}
      /\ Len(selected') = Len(selected) + 1 /\ Len(selected) \in Nat
  <2>1. selected \in Seq(dom) /\ t \in dom
    BY <1>2, <1>3 DEF dom
  <2>2. /\ Append(selected, t) \in Seq(dom) /\ ToSet(Append(selected, t)) = ToSet(selected) \union {t}
        /\ Len(Append(selected, t)) = Len(selected) + 1
    BY <2>1, AppendedIs
  <2> QED
    BY <1>1, <2>1, <2>2
<1>6. Left' = left
  BY <1>1, <1>5 DEF Left, Eligible, t
<1>7. Chosen' = flows
  BY <1>1, <1>5 DEF Chosen, t
<1>8. Union(Chosen) \subseteq Union(Chosen')
  BY <1>7 DEF Union
<1>9. ASSUME NEW i \in left PROVE i \in Left /\ heap'[i] = heap[i] /\ Gain(i)' <= heap'[i] /\ heap'[i] \in Nat
  <2>1. i \in Left /\ i \in DOMAIN candidates /\ heap'[i] = heap[i] /\ heap[i] \in Nat
    BY <1>1, <1>2 DEF t
  <2>2. candidates[i] \in Complete(graph)
    BY <1>3, <2>1
  <2>3. candidates[i].ids \in Seq(Int \ {0})
    BY <1>3, <2>2, CompleteIs
  <2>4. /\ Cardinality(ToSet(candidates[i].ids) \ Union(Chosen')) <=
             Cardinality(ToSet(candidates[i].ids) \ Union(Chosen))
        /\ Cardinality(ToSet(candidates[i].ids) \ Union(Chosen')) \in Nat
    BY <1>8, <2>3, GainFalls
  <2>5. Gain(i)' <= Gain(i) /\ Gain(i)' \in Nat
    BY <1>1, <2>4 DEF Gain
  <2>6. Gain(i) <= heap[i] /\ Gain(i) \in Nat
    BY <1>2, <2>1
  <2> QED
    BY <2>1, <2>5, <2>6
<1>10. heap' \in [left -> Nat] /\ DOMAIN heap' = left
  <2>1. DOMAIN heap \ {t} = left
    BY <1>2 DEF t
  <2>2. heap' = [i \in left |-> heap[i]]
    BY <1>1, <2>1
  <2>3. \A i \in left : heap[i] \in Nat
    BY <1>2
  <2> HIDE DEF left
  <2> QED
    BY <2>2, <2>3
<1> HIDE DEF left, flows
<1>11. Selecting'
  <2>1. ASSUME phase' = "select" PROVE Len(selected') < MaxFlows'
    <3>1. ~Enough(Len(selected'), flows)
      BY <1>1, <2>1
    <3>2. ~(Len(selected') >= MaxFlows)
      BY <3>1 DEF Enough
    <3> QED
      BY <1>4, <1>5, <3>2
  <2>2. heap' \in [Left' -> Nat] /\ \A i \in Left' : Gain(i)' <= heap'[i]
    BY <1>6, <1>9, <1>10
  <2> QED
    BY <2>1, <2>2 DEF Selecting
<1>12. StopsForAReason'
  <2>1. Len(selected') <= MaxFlows'
    BY <1>3, <1>4, <1>5
  <2>2. ASSUME phase' \in {"store", "done"}
        PROVE  \/ Len(selected') = MaxFlows'
               \/ /\ AtLeast(Len(selected))'
                  /\ (IF options.threshold # Unset THEN Converged(Chosen) ELSE options.minFlows # Unset)'
    <3>1. Enough(Len(selected'), flows)
      BY <1>1, <2>2
    <3>2. \/ Len(selected') >= MaxFlows
          \/ /\ AtLeast(Len(selected'))
             /\ IF options.threshold # Unset THEN Converged(flows) ELSE options.minFlows # Unset
      BY <3>1 DEF Enough
    <3>3. CASE Len(selected') >= MaxFlows
      BY <1>4, <1>5, <2>1, <3>3
    <3>4. CASE /\ AtLeast(Len(selected'))
               /\ IF options.threshold # Unset THEN Converged(flows) ELSE options.minFlows # Unset
      <4>1. AtLeast(Len(selected))'
        BY <1>1, <3>4 DEF AtLeast
      <4>2. (IF options.threshold # Unset THEN Converged(Chosen) ELSE options.minFlows # Unset)'
        BY <1>1, <1>7, <3>4 DEF Converged
      <4> QED
        BY <4>1, <4>2
    <3> QED
      BY <3>2, <3>3, <3>4
  <2> QED
    BY <2>1, <2>2 DEF StopsForAReason
<1>13. phase' \in Phases /\ phase' \in SelectionBegun /\ CandidatesOf(graph, phase') = CandidatesOf(graph, phase)
  BY <1>1 DEF Phases, SelectionBegun, CandidatesOf
<1>14. SelectTyped'
  <2>1. \A i \in Left : candidates[i].ids # <<>>
    BY <1>2 DEF Typed, SelectTyped
  <2>2. \A i \in ToSet(selected) : candidates[i].ids # <<>>
    BY DEF Typed, SelectTyped
  <2>3. \A i \in DOMAIN heap' : i \in DOMAIN candidates' /\ heap'[i] \in Nat /\ candidates'[i].ids # <<>>
    BY <1>1, <1>2, <1>9, <1>10, <2>1
  <2>4. \A i \in ToSet(selected') : candidates'[i].ids # <<>>
    BY <1>1, <1>2, <1>5, <2>1, <2>2
  <2>5. selected' \in Seq(DOMAIN candidates') /\ stored' \in Seq(StoredOf(graph'))
    BY <1>1, <1>3, <1>5 DEF dom
  <2> QED
    BY <1>13, <2>3, <2>4, <2>5 DEF SelectTyped
<1>15. InputTyped' /\ WalkTyped' /\ SearchTyped' /\ ListsTyped'
  BY <1>1, <1>13, InputKept, WalkKept, SearchKept, ListsKept DEF Typed
<1> QED
  BY <1>11, <1>12, <1>14, <1>15 DEF Typed

LEMMA StoreKeeps ==
  ASSUME Typed, StopsForAReason, Store
  PROVE  Typed' /\ StopsForAReason' /\ Stores'
<1> DEFINE Row(i) == [checkpoint |-> Head(candidates[i].path), ids |-> candidates[i].ids]
           C == Complete(graph)
           T == StoredOf(graph)
<1>1. /\ phase = "store" /\ phase' = "done" /\ stored' = [k \in DOMAIN selected |-> Row(selected[k])]
      /\ graph' = graph /\ options' = options /\ candidates' = candidates
      /\ heap' = heap /\ selected' = selected
      /\ UNCHANGED <<input, walkVars, candidates, mergeVars, searchVars>>
  BY DEF Store, input, selectVars
<1>2. /\ candidates \in Seq(C) /\ selected \in Seq(DOMAIN candidates)
      /\ \A i \in ToSet(selected) : candidates[i].ids # <<>>
  BY <1>1 DEF Typed, ListsTyped, SelectTyped, CandidatesOf
<1>3. \A k \in DOMAIN selected : selected[k] \in DOMAIN candidates /\ selected[k] \in ToSet(selected)
  BY <1>2 DEF ToSet
<1>4. \A k \in DOMAIN selected : Row(selected[k]) \in T
  <2> SUFFICES ASSUME NEW k \in DOMAIN selected PROVE Row(selected[k]) \in T
    OBVIOUS
  <2>1. candidates[selected[k]] \in C /\ candidates[selected[k]].ids # <<>>
    BY <1>2, <1>3
  <2> QED
    BY <2>1 DEF StoredOf
<1> HIDE DEF C, T, Row
<1>5. stored' \in Seq(T) /\ DOMAIN stored' = DOMAIN selected
  <2> DEFINE dom == DOMAIN candidates
  <2>1. selected \in Seq(dom)
    BY <1>2
  <2>2. \A k \in DOMAIN selected : stored'[k] \in T
    BY <1>1, <1>4
  <2>3. stored' = [k \in DOMAIN selected |-> stored'[k]]
    BY <1>1
  <2> HIDE DEF dom
  <2> QED
    BY <2>1, <2>2, <2>3, MappedIs
<1>6. \A k \in DOMAIN selected : stored'[k].ids = candidates[selected[k]].ids
  BY <1>1 DEF Row
<1>7. Stores'
  <2>1. UNION {ToSet(r.ids) : r \in ToSet(stored')} = UNION {ToSet(candidates[selected[k]].ids) : k \in DOMAIN selected}
    BY <1>5, <1>6 DEF ToSet
  <2>2. Union(Chosen) = UNION {ToSet(candidates[selected[k]].ids) : k \in DOMAIN selected}
    BY DEF Union, Chosen, ToSet
  <2>3. Union(Chosen') = Union(Chosen)
    BY <1>1 DEF Chosen
  <2> QED
    BY <2>1, <2>2, <2>3 DEF Stores
<1>8. StopsForAReason'
  BY <1>1 DEF StopsForAReason, MaxFlows, Left, Eligible, AtLeast, Converged, Gain, Chosen
<1>9. SelectTyped'
  BY <1>1, <1>5 DEF Typed, SelectTyped, SelectionBegun, T
<1>10. InputTyped' /\ WalkTyped' /\ SearchTyped' /\ ListsTyped'
  BY <1>1, InputKept, WalkKept, SearchKept, ListsKept DEF Typed, Phases, CandidatesOf
<1> QED
  BY <1>7, <1>8, <1>9, <1>10 DEF Typed

-----------------------------------------------------------------------------
(* All that holds of every state together.                                 *)
IInv ==
  /\ Typed /\ Thorough /\ Covered
  /\ Searched /\ Near /\ Selecting /\ StopsForAReason /\ Stores

LEMMA InitIsFine == Init => IInv
<1> SUFFICES ASSUME Init PROVE IInv
  OBVIOUS
<1>1. /\ graph \in Inputs /\ options \in Options
      /\ phase = IF graph.root = Unset THEN "done" ELSE "generate"
      /\ starts = <<Unset>> /\ flow = Unset /\ seeded = {}
      /\ candidates = <<>> /\ short = <<>> /\ merged = <<>>
      /\ queue = <<>> /\ visited = {} /\ prefixes = <<>>
      /\ heap = <<>> /\ selected = <<>> /\ stored = <<>>
  BY DEF Init
<1>2. \A S : <<>> \in Seq(S)
  OBVIOUS
<1>3. ToSet(<<>>) = {} /\ DOMAIN <<>> = {} /\ Len(<<>>) = 0
  BY DEF ToSet
<1>4. <<Unset>> \in Seq(EdgesOf(graph) \union {Unset}) /\ ToSet(<<Unset>>) = {Unset}
  <2> DEFINE S == EdgesOf(graph) \union {Unset}
  <2>1. <<Unset>> \in Seq(S) /\ Len(<<Unset>>) = 1 /\ <<Unset>>[1] = Unset
    OBVIOUS
  <2>2. ToSet(<<Unset>>) = {<<Unset>>[i] : i \in 1 .. Len(<<Unset>>)}
    BY <2>1, ElementsAre, Zenon
  <2> QED
    BY <2>1, <2>2
<1>5. InputTyped
  BY <1>1 DEF InputTyped, Phases
<1>6. WalkTyped
  BY <1>1, <1>4 DEF WalkTyped
<1>7. ListsTyped
  BY <1>1, <1>2 DEF ListsTyped
<1>8. SearchTyped
  BY <1>1, <1>2, <1>3 DEF SearchTyped
<1>9. SelectTyped
  <2>1. DOMAIN heap = {} /\ ToSet(selected) = {}
    BY <1>1, <1>3
  <2>2. selected \in Seq(DOMAIN candidates) /\ stored \in Seq(StoredOf(graph))
    BY <1>1, <1>2, Zenon
  <2> QED
    BY <1>1, <2>1, <2>2 DEF SelectTyped
<1>10. Typed
  BY <1>5, <1>6, <1>7, <1>8, <1>9 DEF Typed
<1>11. Taken = {} /\ PathOf(flow) = {}
  BY <1>1, <1>3 DEF Taken, TakenBy, IdsOf, PathOf
<1>12. Thorough
  <2>1. Unset \in ToSet(starts) /\ \A e \in ToSet(starts) : e = Unset
    BY <1>1, <1>4
  <2> QED
    BY <1>1, <1>11, <2>1 DEF Thorough
<1>13. Covered /\ Searched /\ Selecting
  BY <1>1 DEF Covered, Searched, Selecting
<1>14. Near
  BY <1>1, <1>3 DEF Near
<1>15. StopsForAReason
  <2>1. Left = {}
    BY <1>1, <1>3 DEF Left, Eligible
  <2>2. Len(selected) = 0 /\ MaxFlows \in Nat
    BY <1>1, <1>3, OptionsAre
  <2> QED
    BY <2>1, <2>2 DEF StopsForAReason
<1>16. Stores
  BY <1>1, <1>3 DEF Stores, Union, Chosen
<1> QED
  BY <1>10, <1>12, <1>13, <1>14, <1>15, <1>16 DEF IInv

(* What a phase does not touch stays as it is.                             *)
LEMMA NearKept ==
  ASSUME Near, graph' = graph, prefixes' = prefixes
  PROVE  Near'
BY DEF Near

LEMMA CoveredKept ==
  ASSUME Covered, graph' = graph, options' = options, candidates' = candidates,
         phase # "generate"
  PROVE  Covered'
BY DEF Covered

LEMMA NotYet ==
  /\ phase' # "generate" => Thorough'
  /\ phase' = "generate" => Covered'
  /\ phase' # "prefix" => Searched'
  /\ phase' # "select" => Selecting'
  /\ phase' \notin {"store", "done"} => StopsForAReason'
  /\ phase' # "done" => Stores'
BY DEF Thorough, Covered, Searched, Selecting, StopsForAReason, Stores

LEMMA StepKeeps == IInv /\ [Next]_vars => IInv'
<1> SUFFICES ASSUME IInv, [Next]_vars PROVE IInv'
  OBVIOUS
<1> USE DEF IInv
<1>1. CASE PopStart
  <2>1. phase' = "generate" /\ graph' = graph /\ prefixes' = prefixes
    BY <1>1 DEF PopStart, input, searchVars
  <2> QED
    BY <1>1, <2>1, PopStartKeeps, NearKept, NotYet
<1>2. CASE WalkOn
  <2>1. phase' = "generate" /\ graph' = graph /\ prefixes' = prefixes
    BY <1>2 DEF WalkOn, input, searchVars
  <2> QED
    BY <1>2, <2>1, WalkOnKeeps, NearKept, NotYet
<1>3. CASE EndWalk
  <2>1. phase' = "generate" /\ graph' = graph /\ prefixes' = prefixes
    BY <1>3 DEF EndWalk, input, searchVars
  <2> QED
    BY <1>3, <2>1, EndWalkKeeps, NearKept, NotYet
<1>4. CASE GenerationEnds
  <2>1. phase' = "merge" /\ graph' = graph /\ prefixes' = prefixes
    BY <1>4 DEF GenerationEnds, input, searchVars
  <2> QED
    BY <1>4, <2>1, GenerationEndsKeeps, NearKept, NotYet
<1>5. CASE MergeShort
  <2>1. /\ phase = "merge" /\ phase' = "merge" /\ graph' = graph /\ prefixes' = prefixes
        /\ options' = options /\ candidates' = candidates
    BY <1>5 DEF MergeShort, input, searchVars
  <2> QED
    BY <1>5, <2>1, MergeShortKeeps, CoveredKept, NearKept, NotYet
<1>6. CASE MergeEnds
  <2>1. phase' = "prefix" /\ graph' = graph /\ prefixes' = prefixes
    BY <1>6 DEF MergeEnds, input
  <2> QED
    BY <1>6, <2>1, MergeEndsKeeps, NearKept, NotYet
<1>7. CASE Search
  <2>1. /\ phase = "prefix" /\ phase' = "prefix" /\ graph' = graph
        /\ options' = options /\ candidates' = candidates
    BY <1>7 DEF Search, input
  <2> QED
    BY <1>7, <2>1, SearchKeeps, CoveredKept, NotYet
<1>8. CASE AppendCheckpoints
  <2>1. phase' = "login" /\ graph' = graph /\ prefixes' = prefixes
    BY <1>8 DEF AppendCheckpoints, input, searchVars
  <2> QED
    BY <1>8, <2>1, AppendCheckpointsKeeps, NearKept, NotYet
<1>9. CASE AppendLogin
  <2>1. phase' = "select" /\ graph' = graph /\ prefixes' = prefixes
    BY <1>9 DEF AppendLogin, input, searchVars
  <2> QED
    BY <1>9, <2>1, AppendLoginKeeps, NearKept, NotYet
<1>10. CASE PopStale
  <2>1. /\ phase = "select" /\ phase' = "select" /\ graph' = graph /\ prefixes' = prefixes
        /\ options' = options /\ candidates' = candidates
    BY <1>10 DEF PopStale, input, searchVars
  <2> QED
    BY <1>10, <2>1, PopStaleKeeps, CoveredKept, NearKept, NotYet
<1>11. CASE SelectionEnds
  <2>1. /\ phase = "select" /\ phase' = "store" /\ graph' = graph /\ prefixes' = prefixes
        /\ options' = options /\ candidates' = candidates
    BY <1>11 DEF SelectionEnds, input, searchVars
  <2> QED
    BY <1>11, <2>1, SelectionEndsKeeps, CoveredKept, NearKept, NotYet
<1>12. CASE SelectTop
  <2>1. /\ phase = "select" /\ phase' \in {"select", "store"} /\ graph' = graph /\ prefixes' = prefixes
        /\ options' = options /\ candidates' = candidates
    BY <1>12 DEF SelectTop, input, searchVars
  <2> QED
    BY <1>12, <2>1, SelectTopKeeps, CoveredKept, NearKept, NotYet
<1>13. CASE Store
  <2>1. /\ phase = "store" /\ phase' = "done" /\ graph' = graph /\ prefixes' = prefixes
        /\ options' = options /\ candidates' = candidates
    BY <1>13 DEF Store, input, searchVars
  <2> QED
    BY <1>13, <2>1, StoreKeeps, CoveredKept, NearKept, NotYet
<1>14. CASE UNCHANGED vars
  <2>1. /\ graph' = graph /\ options' = options /\ phase' = phase /\ candidates' = candidates
        /\ UNCHANGED <<input, walkVars, candidates, mergeVars, searchVars>>
        /\ starts' = starts /\ flow' = flow /\ seeded' = seeded
        /\ queue' = queue /\ visited' = visited /\ prefixes' = prefixes
        /\ heap' = heap /\ selected' = selected /\ stored' = stored
    BY <1>14 DEF vars, input, walkVars, searchVars, selectVars
  <2>2. Typed'
    <3>1. InputTyped' /\ SelectTyped'
      BY <2>1 DEF Typed, InputTyped, SelectTyped
    <3>2. WalkTyped' /\ SearchTyped' /\ ListsTyped'
      BY <2>1, WalkKept, SearchKept, ListsKept DEF Typed
    <3> QED
      BY <3>1, <3>2 DEF Typed
  <2>3. Thorough'
    BY <2>1 DEF Thorough, Cared, Due, Taken
  <2>4. Searched' /\ Near' /\ Covered'
    BY <2>1 DEF Searched, Near, Covered
  <2>5. Selecting'
    BY <2>1 DEF Selecting, Left, Eligible, Gain, Chosen, MaxFlows
  <2>6. StopsForAReason' /\ Stores'
    BY <2>1 DEF StopsForAReason, Stores, MaxFlows, Left, Eligible, AtLeast, Converged, Gain, Chosen
  <2> QED
    BY <2>2, <2>3, <2>4, <2>5, <2>6
<1> QED
  BY <1>1, <1>2, <1>3, <1>4, <1>5, <1>6, <1>7, <1>8, <1>9, <1>10, <1>11, <1>12, <1>13, <1>14 DEF Next

LEMMA AlwaysFine == Spec => []IInv
<1>1. Init => IInv
  BY InitIsFine
<1>2. IInv /\ [Next]_vars => IInv'
  BY StepKeeps
<1> QED
  BY <1>1, <1>2, PTL DEF Spec

-----------------------------------------------------------------------------
(* What follows for the flows.                                             *)
LEMMA WayIsFlow ==
  ASSUME NEW g, NEW f \in Ways(g, Int \ {0}, State \union {graph.login})
  PROVE  IsFlow(f)
<1> DEFINE I == Int \ {0}
           S == State \union {graph.login}
<1>1. f \in Ways(g, I, S)
  OBVIOUS
<1> HIDE DEF S
<1>2. /\ f.path # <<>> /\ Len(f.path) = Len(f.ids) + 1 /\ f.ids \in Seq(I)
      /\ ToSet(f.path) \subseteq S
  <2> HIDE DEF I
  <2> QED
    BY <1>1, WayIs
<1>3. \A i \in DOMAIN f.ids : f.ids[i] \in Int \ {0}
  BY <1>2
<1> QED
  BY <1>2, <1>3 DEF IsFlow, S

LEMMA FlowsAreTyped ==
  ASSUME Typed
  PROVE  TypeOK
<1> DEFINE I == Int \ {0}
           S == State \union {graph.login}
           Flows == Ways(graph, I, S)
<1>1. graph \in Inputs /\ State = StatesOf(graph) /\ Edge = EdgesOf(graph) /\ EdgesOf(graph) \subseteq I
  <2>1. graph \in Inputs
    BY DEF Typed, InputTyped
  <2> QED
    BY <2>1, GraphIs, OfTheGraph
<1>2. Reach(graph) \subseteq S /\ StatesOf(graph) \subseteq S
  BY <1>1 DEF Reach
<1>3. \A f \in Flows : IsFlow(f)
  BY WayIsFlow
<1> HIDE DEF I, S
<1>4. \A f \in Found(graph) : f \in Flows
  BY <1>1, <1>2, WaysGrow DEF Found, Walks
<1>5. \A f \in Begun(graph) : f \in Flows
  BY <1>1, <1>2, WaysGrow DEF Begun, Walks
<1>6. \A f \in Complete(graph) : f \in Flows /\ f.ids \in Seq(Int)
  <2> SUFFICES ASSUME NEW f \in Complete(graph) PROVE f \in Flows /\ f.ids \in Seq(Int)
    OBVIOUS
  <2>1. f \in Ways(graph, I, StatesOf(graph) \union {graph.login}) /\ f.ids \in Seq(I)
    BY <1>1, CompleteIs DEF I
  <2>2. StatesOf(graph) \union {graph.login} = S
    BY <1>1 DEF S
  <2>3. Seq(I) \subseteq Seq(Int)
    BY DEF I
  <2> QED
    BY <2>1, <2>2, <2>3
<1> HIDE DEF Flows
<1>7. \A p : \A f \in CandidatesOf(graph, p) : f \in Flows
  BY <1>4, <1>5, <1>6 DEF CandidatesOf
<1>8. \A f \in ToSet(candidates) \union ToSet(short) \union ToSet(merged) : IsFlow(f)
  <2>1. ToSet(candidates) \subseteq CandidatesOf(graph, phase)
    BY ElementsAre DEF Typed, ListsTyped
  <2>2. ToSet(short) \subseteq Found(graph) /\ ToSet(merged) \subseteq Found(graph)
    BY ElementsAre DEF Typed, ListsTyped
  <2> QED
    BY <1>3, <1>4, <1>7, <2>1, <2>2
<1>9. \A w \in ToSet(queue) \union {prefixes[n] : n \in DOMAIN prefixes} : IsFlow(w)
  <2>1. ToSet(queue) \subseteq Begun(graph)
    BY ElementsAre DEF Typed, SearchTyped
  <2>2. \A n \in DOMAIN prefixes : prefixes[n] \in Begun(graph)
    BY DEF Typed, SearchTyped
  <2> QED
    BY <1>3, <1>5, <2>1, <2>2
<1>10. flow # Unset => IsFlow(flow)
  BY <1>3, <1>4 DEF Typed, WalkTyped
<1>11. phase \in Phases /\ seeded \subseteq Edge
  BY <1>1 DEF Typed, InputTyped, WalkTyped
<1>12. ToSet(starts) \subseteq Edge \union {Unset}
  BY <1>1, ElementsAre DEF Typed, WalkTyped
<1>13. visited \subseteq State /\ DOMAIN prefixes \subseteq State
  BY <1>1 DEF Typed, SearchTyped
<1>14. /\ DOMAIN heap \subseteq DOMAIN candidates /\ \A i \in DOMAIN heap : heap[i] \in Nat
  BY DEF Typed, SelectTyped
<1>15. ToSet(selected) \subseteq DOMAIN candidates
  <2> DEFINE dom == DOMAIN candidates
  <2>1. selected \in Seq(dom)
    BY DEF Typed, SelectTyped
  <2> HIDE DEF dom
  <2>2. ToSet(selected) \subseteq dom
    BY <2>1, ElementsAre
  <2> QED
    BY <2>2 DEF dom
<1>16. \A r \in ToSet(stored) : r.ids \in Seq(Int)
  <2>1. ToSet(stored) \subseteq StoredOf(graph)
    BY ElementsAre DEF Typed, SelectTyped
  <2> QED
    BY <1>6, <2>1 DEF StoredOf
<1> QED
  BY <1>8, <1>9, <1>10, <1>11, <1>12, <1>13, <1>14, <1>15, <1>16 DEF TypeOK, Phases

LEMMA PrefixesAreShortest ==
  ASSUME Typed, Near
  PROVE  PrefixIsShortest
<1> SUFFICES ASSUME NEW n \in DOMAIN prefixes
             PROVE  /\ Head(prefixes[n].path) \in ValidStarts /\ Last(prefixes[n].path) = n
                    /\ n \notin Within(ValidStarts, Len(prefixes[n].ids) - 1)
  BY DEF PrefixIsShortest
<1>1. prefixes[n] \in Begun(graph) /\ Last(prefixes[n].path) = n
  BY DEF Typed, SearchTyped
<1>2. prefixes[n].ids # <<>> /\ IsNearest(graph, prefixes[n])
  BY DEF Near
<1>3. n \notin WithinIn(graph, StartsOf(graph), Len(prefixes[n].ids) - 1)
  BY <1>1, <1>2 DEF IsNearest
<1> QED
  BY <1>1, <1>3, OfTheGraph DEF Begun

LEMMA StoredFlowsReplay ==
  ASSUME Typed
  PROVE  StoredIsReplayable
<1>1. graph \in Inputs
  BY DEF Typed, InputTyped
<1>2. ToSet(stored) \subseteq StoredOf(graph)
  BY ElementsAre DEF Typed, SelectTyped
<1> SUFFICES ASSUME NEW r \in ToSet(stored)
             PROVE  /\ r.ids # <<>> /\ From(Head(r.ids)) = r.checkpoint
                    /\ \A i \in 1 .. Len(r.ids) - 1 : To(r.ids[i]) = From(r.ids[i + 1])
                    /\ r.checkpoint \in (IF graph.login = Unset THEN ValidStarts ELSE {graph.login})
                    /\ r.checkpoint = graph.login => \A i \in 2 .. Len(r.ids) : r.ids[i] > 0
  BY DEF StoredIsReplayable
<1>3. PICK f \in Complete(graph) : f.ids # <<>> /\ r = [checkpoint |-> Head(f.path), ids |-> f.ids]
  BY <1>2 DEF StoredOf
<1>4. r.ids = f.ids /\ r.checkpoint = Head(f.path)
  BY <1>3
<1> DEFINE I == Int \ {0}
           S == StatesOf(graph) \union {graph.login}
<1>5. f \in Ways(graph, I, S)
  BY <1>1, CompleteIs
<1> HIDE DEF I, S
<1>6. f.ids \in Seq(I) /\ Leads(graph, f) /\ Head(f.path) = f.path[1] /\ Len(f.ids) \in Nat
  BY <1>5, WayIs
<1>7. \A id : From(id) = FromIn(graph, id) /\ To(id) = ToIn(graph, id)
  BY DEF From, To, FromIn, ToIn, Source, Target
<1>8. From(Head(f.ids)) = Head(f.path)
  <2>1. Head(f.ids) = f.ids[1] /\ 1 \in 1 .. Len(f.ids)
    BY <1>3, <1>6, EndsAre
  <2>2. FromIn(graph, f.ids[1]) = f.path[1]
    BY <1>6, <2>1 DEF Leads
  <2> QED
    BY <1>6, <1>7, <2>1, <2>2
<1>9. ASSUME NEW i \in 1 .. Len(f.ids) - 1 PROVE To(f.ids[i]) = From(f.ids[i + 1])
  <2>1. i \in 1 .. Len(f.ids) /\ i + 1 \in 1 .. Len(f.ids)
    BY <1>6
  <2>2. ToIn(graph, f.ids[i]) = f.path[i + 1] /\ FromIn(graph, f.ids[i + 1]) = f.path[i + 1]
    BY <1>6, <2>1 DEF Leads
  <2> QED
    BY <1>7, <2>2
<1>10. /\ Head(f.path) \in (IF graph.login = Unset THEN ValidStarts ELSE {graph.login})
       /\ Head(f.path) = graph.login => \A i \in 2 .. Len(f.ids) : f.ids[i] > 0
  <2>1. CASE graph.login = Unset
    <3>1. f \in Begun(graph)
      BY <2>1 DEF Complete
    <3>2. f.ids \in Seq(EdgesOf(graph)) /\ Head(f.path) \in ValidStarts
      BY <3>1, WayIs, OfTheGraph DEF Begun, Walks
    <3>3. \A e \in EdgesOf(graph) : e > 0
      BY <1>1, GraphIs
    <3>4. \A i \in 2 .. Len(f.ids) : f.ids[i] \in EdgesOf(graph)
      BY <3>2
    <3> QED
      BY <2>1, <3>2, <3>3, <3>4
  <2>2. CASE graph.login # Unset
    BY <2>2 DEF Complete
  <2> QED
    BY <2>1, <2>2
<1> QED
  BY <1>3, <1>4, <1>8, <1>9, <1>10

-----------------------------------------------------------------------------
(* What follows for their coverage.                                        *)
LEMMA ReachableIsReached ==
  ASSUME graph \in Inputs, graph.root # Unset
  PROVE  ReachableEdges \subseteq EdgesReached(graph)
<1>1. Cardinality(State) \in Nat
  BY GraphIsFinite, FS_CardinalityType
<1> DEFINE k == Cardinality(State)
           R == Reach(graph)
<1>2. Closed(graph, R) /\ {graph.root} \subseteq R
  BY ReachIs, OfTheGraph DEF Closed, Source, Target
<1> HIDE DEF k, R
<1>3. WithinIn(graph, {graph.root}, k) \subseteq R
  BY <1>1, <1>2, ClosedKeeps DEF k
<1>4. Reachable(graph.root) \subseteq R
  BY <1>3, OfTheGraph DEF Reachable, k
<1> QED
  BY <1>4 DEF ReachableEdges, EdgesReached, R, Edge, EdgesOf, Source

LEMMA NothingIsMissedByWalks ==
  ASSUME Typed, Thorough
  PROVE  NothingIsMissed
<1> SUFFICES ASSUME phase = "generate", flow = Unset, starts = <<>>
             PROVE  ReachableEdges \subseteq UNION {ToSet(f.ids) : f \in ToSet(candidates)}
  BY DEF NothingIsMissed
<1>1. graph \in Inputs /\ graph.root # Unset
  BY DEF Typed, InputTyped
<1>2. EdgesReached(graph) \subseteq TakenBy(candidates)
  BY AllIsTaken
<1>3. ReachableEdges \subseteq TakenBy(candidates)
  BY <1>1, <1>2, ReachableIsReached
<1> QED
  BY <1>3 DEF TakenBy

(* Coverage that is counted to be complete is complete.                    *)
LEMMA CountedIsCovered ==
  ASSUME graph \in Inputs, graph.login = Unset, options.threshold = 100,
         Union(Chosen) \subseteq Edge, Converged(Chosen)
  PROVE  Edge \subseteq Union(Chosen)
<1> DEFINE U == Union(Chosen)
           n == Len(graph.edges)
<1>1. IsFiniteSet(Edge) /\ Cardinality(Edge) = n /\ n \in Nat
  BY GraphIsFinite, GraphIs
<1>2. U \in SUBSET Edge
  OBVIOUS
<1> HIDE DEF U, n
<1>3. IsFiniteSet(U) /\ Cardinality(U) <= n /\ (n = Cardinality(U) => Edge = U)
  BY <1>1, <1>2, FS_Subset
<1>4. Cardinality(U) \in Nat
  BY <1>3, FS_CardinalityType
<1>5. 100 * Cardinality(U) >= 100 * n
  BY DEF Converged, U, n
<1>6. n = Cardinality(U)
  BY <1>1, <1>3, <1>4, <1>5
<1> QED
  BY <1>3, <1>6 DEF U

LEMMA CoverageIsKept ==
  ASSUME Typed, Covered, StopsForAReason, Stores
  PROVE  CoverageIsComplete
<1> SUFFICES ASSUME phase = "done", graph.root # Unset, options.minStates = 1, Len(selected) < MaxFlows,
                    \/ options.threshold = Unset /\ options.minFlows = Unset
                    \/ options.threshold = 100 /\ graph.login = Unset
             PROVE  ReachableEdges \subseteq Union(Chosen)
  BY DEF CoverageIsComplete, Stores
<1>1. graph \in Inputs /\ options \in Options /\ candidates \in Seq(Complete(graph))
      /\ selected \in Seq(DOMAIN candidates)
  BY DEF Typed, InputTyped, ListsTyped, SelectTyped, CandidatesOf
<1>2. Unset \notin Int
  BY GenerationAssumption
<1>3. Len(selected) \in Nat /\ MaxFlows \in Nat
  BY <1>1, OptionsAre
<1>4. ReachableEdges \subseteq TakenBy(candidates)
  BY <1>1, ReachableIsReached DEF Covered
<1>5. ASSUME NEW i \in DOMAIN candidates, NEW e \in ToSet(candidates[i].ids),
             i \in ToSet(selected) \/ (i \in Left => Gain(i) = 0)
      PROVE  e \in Union(Chosen)
  <2>1. candidates[i].ids \in Seq(Int \ {0})
    BY <1>1, CompleteIs
  <2>2. CASE i \in ToSet(selected)
    BY <2>2 DEF Union, Chosen
  <2>3. CASE i \notin ToSet(selected)
    <3>1. Len(candidates[i].ids) >= 1
      <4>1. Len(candidates[i].ids) \in Nat /\ Len(candidates[i].ids) # 0
        BY <2>1, ElementsAre
      <4> QED
        BY <4>1
    <3>2. i \in Left
      BY <2>3, <3>1 DEF Left, Eligible
    <3>3. Cardinality(ToSet(candidates[i].ids) \ Union(Chosen)) = 0
      BY <1>5, <2>3, <3>2 DEF Gain
    <3> QED
      BY <2>1, <3>3, GainFalls
  <2> QED
    BY <2>2, <2>3
<1>6. ASSUME \A i \in Left : Gain(i) = 0 PROVE TakenBy(candidates) \subseteq Union(Chosen)
  BY <1>5, <1>6 DEF TakenBy, ToSet
<1>7. ASSUME options.threshold = 100, graph.login = Unset, Converged(Chosen)
      PROVE  ReachableEdges \subseteq Union(Chosen)
  <2>1. ASSUME NEW i \in ToSet(selected) PROVE ToSet(candidates[i].ids) \subseteq Edge
    <3> DEFINE dom == DOMAIN candidates
    <3>1. selected \in Seq(dom)
      BY <1>1
    <3> HIDE DEF dom
    <3>2. i \in dom
      BY <3>1, ElementsAre
    <3>3. candidates[i] \in Complete(graph)
      BY <1>1, <3>2 DEF dom
    <3> QED
      BY <1>1, <1>7, <3>3, CompleteIs, OfTheGraph
  <2>2. Union(Chosen) \subseteq Edge
    BY <2>1 DEF Union, Chosen
  <2>3. Edge \subseteq Union(Chosen)
    BY <1>1, <1>7, <2>2, CountedIsCovered
  <2> QED
    BY <2>3 DEF ReachableEdges
<1>8. /\ Len(selected) # MaxFlows
      /\ \/ Left = {}
         \/ IF options.threshold # Unset THEN Converged(Chosen) ELSE options.minFlows # Unset
         \/ \A i \in Left : Gain(i) = 0
  <2>1. Len(selected) # MaxFlows
    BY <1>3
  <2> QED
    BY <2>1 DEF StopsForAReason
<1>9. CASE \A i \in Left : Gain(i) = 0
  BY <1>4, <1>6, <1>9
<1>10. CASE IF options.threshold # Unset THEN Converged(Chosen) ELSE options.minFlows # Unset
  <2>1. options.threshold = 100 => options.threshold # Unset
    BY <1>2
  <2> QED
    BY <1>7, <1>10, <2>1
<1> QED
  BY <1>8, <1>9, <1>10

-----------------------------------------------------------------------------
(* THEOREM: for every graph, every setting and every order in which sets   *)
(* are gone through, the walks take every transition the root leads to,    *)
(* the selection stops only for a reason, and the stored flows cover what  *)
(* they can if nothing limits them (generate_candidate_tfs, select_tfs).   *)
THEOREM NothingIsLeftUncovered == Spec => []FlowsCover
<1>1. IInv => FlowsCover
  BY NothingIsMissedByWalks, CoverageIsKept DEF IInv, FlowsCover
<1> QED
  BY <1>1, AlwaysFine, PTL

(* THEOREM: candidates, what merging and prefixing make of them, and the   *)
(* rows are ways through the graph, from a state that it is possible to    *)
(* begin at, and the prefixes are as short as can be.                      *)
THEOREM StoredFlowsAreWays == Spec => []FlowsReplay
<1>1. IInv => FlowsReplay
  BY FlowsAreTyped, PrefixesAreShortest, StoredFlowsReplay DEF IInv, FlowsReplay
<1> QED
  BY <1>1, AlwaysFine, PTL

(* THEOREM: select_tfs never prefers a candidate to one that would gain    *)
(* more, though all it has are gains as they were some choices ago.        *)
THEOREM GreedIsRight == Spec => SelectionIsGreedy
<1> DEFINE A == Len(selected') > Len(selected) => \A i \in Left : Gain(i) <= Gain(Last(selected'))
<1>1. IInv /\ [Next]_vars => [A]_vars
  <2> SUFFICES ASSUME IInv, Next, Len(selected') > Len(selected)
               PROVE  \A i \in Left : Gain(i) <= Gain(Last(selected'))
    OBVIOUS
  <2>1. Typed /\ Selecting /\ selected \in Seq(DOMAIN candidates)
    BY DEF IInv, Typed, SelectTyped
  <2>2. selected' # selected
    BY <2>1
  <2>3. SelectTop
    BY <2>2 DEF Next, PopStart, WalkOn, EndWalk, GenerationEnds, MergeShort, MergeEnds, Search,
                AppendCheckpoints, AppendLogin, PopStale, SelectionEnds, Store, selectVars
  <2>4. phase = "select" /\ heap # <<>> /\ selected' = Append(selected, Top) /\ Gain(Top) = heap[Top]
    BY <2>3 DEF SelectTop
  <2>5. /\ Top \in Left
        /\ \A i \in Left : /\ i \in DOMAIN candidates /\ heap[i] \in Nat /\ Gain(i) \in Nat
                           /\ Gain(i) <= heap[i] /\ heap[i] <= heap[Top]
    BY <2>1, <2>4, TopGains
  <2>6. Last(selected') = Top
    <3> DEFINE dom == DOMAIN candidates
               t == Top
    <3>1. selected \in Seq(dom) /\ t \in dom
      BY <2>1, <2>5
    <3>2. selected' = Append(selected, t)
      BY <2>4
    <3> HIDE DEF dom, t
    <3>3. /\ selected' \in Seq(dom) /\ Len(selected') = Len(selected) + 1 /\ Len(selected) \in Nat
          /\ selected'[Len(selected) + 1] = t
      BY <3>1, <3>2, AppendedIs
    <3>4. selected' # <<>>
      BY <3>3
    <3>5. Last(selected') = selected'[Len(selected')]
      BY <3>3, <3>4, EndsAre
    <3> QED
      BY <3>3, <3>5 DEF t
  <2>7. \A i \in Left : Gain(i) \in Nat /\ heap[i] \in Nat /\ heap[Top] \in Nat
                        /\ Gain(i) <= heap[i] /\ heap[i] <= heap[Top] /\ Gain(Top) = heap[Top]
    BY <2>4, <2>5
  <2>8. \A i \in Left : Gain(i) <= Gain(Top)
    BY <2>7
  <2> QED
    BY <2>6, <2>8
<1> HIDE DEF A
<1>2. Spec => [][A]_vars
  BY <1>1, AlwaysFine, PTL DEF Spec
<1> QED
  BY <1>2 DEF SelectionIsGreedy, A
=============================================================================
