-------------------------- MODULE SemanticBankProofs --------------------------
(***************************************************************************)
(* Theorems about SemanticBank, for any states and profiles, any number of *)
(* sessions, and pages and banks of any size: verdicts rest on all there   *)
(* was to compare with, duplicates have originals, and what was found out  *)
(* is not forgotten.                                                       *)
(***************************************************************************)
EXTENDS SemanticBank, WellFoundedInduction, TLAPS

Pc == {"idle", "get", "page", "store", "done"}
Status == {"none", "pending", "exploring", "explored"}

Local == [pc : Pc, state : State \union {None}, skip : Nat, seen : 0 .. MaxSize + 1,
          best : State \union {None}, confidence : 0 .. Top, reason : Reason]

Typed ==
  /\ profiles \in Seq(State) /\ \A i, j \in DOMAIN profiles : profiles[i] = profiles[j] => i = j
  /\ status \in [Session -> [State -> Status]]
  /\ penalty \in [Session -> [State -> 0 .. Top]]
  /\ original \in [Session -> [State -> State \union {None}]]
  /\ current \in [Session -> State \union {None}] /\ todo \in [Session -> SUBSET State]
  /\ at \in [Session -> Local] /\ failures \in Nat
  /\ known \in [Session -> SUBSET State] /\ failed \in [Session -> SUBSET State]

(* The states that suit h, of all that there are.                          *)
Suited(h, visits) == {k \in State : k # h /\ visits[k] \in {"exploring", "explored"}}

Ran(list) == {list[i] : i \in DOMAIN list}

(* The list of those that suit: the states of S among the first n          *)
(* profiles, in their order.                                               *)
Picks(f, ps, S, n) ==
  f = [i \in 0 .. n |-> IF i = 0 THEN <<>>
                        ELSE IF ps[i] \in S THEN Append(f[i - 1], ps[i]) ELSE f[i - 1]]

Picked(ps, S) == (CHOOSE f : Picks(f, ps, S, Len(ps)))[Len(ps)]

(* A registration knows what it has compared: its best match is one that   *)
(* suits, and its verdict is that on the best match.                       *)
Matched(l, suitable) ==
  /\ l.pc # "idle" => l.state \in State
  /\ l.best = None => l.confidence = 0
  /\ l.best # None => l.best \in suitable /\ l.confidence = Confidence[l.state][l.best]
  /\ l.pc = "idle" => l = Idle
  /\ l.pc = "get" => l = Registering(l.state)
  /\ l.pc = "page" => l.seen = l.skip /\ l.skip <= MaxSize
  /\ l.pc = "store" => l.reason \notin {"none", "already_registered", "comparison_error"}
  /\ l.pc = "done" => l.reason # "none"
  /\ l.pc \in {"store", "done"} =>
       /\ l.reason \in {"confident_equivalence", "high_similarity_equivalence"} =>
            l.best # None /\ Equivalent(l.state, l.best)
       /\ l.reason = "no_equivalence" => l.confidence < Bar
       /\ l.reason \in {"already_registered", "comparison_error", "empty_or_unusable_profile"} =>
            l.confidence = 0

(* What it has read of the list of those that suit, of which some were     *)
(* there when it began: whatever came in front since, they do not come     *)
(* before what is read.                                                    *)
Read(l, list, there) ==
  /\ l.pc = "page" =>
       /\ l.skip <= Len(list) /\ there \subseteq Ran(list)
       /\ \A i \in 1 .. l.skip : list[i] \in there => Confidence[l.state][list[i]] <= l.confidence
  /\ l.pc \in {"store", "done"} /\ l.reason = "no_equivalence" =>
       /\ there \subseteq Ran(list)
       /\ \A i \in DOMAIN list :
            i <= MaxSize /\ list[i] \in there => Confidence[l.state][list[i]] < Bar

(* What is explored is in the bank, or about to be.                        *)
Explored(l, state, visits, bank, failing) ==
  /\ \A h \in State : visits[h] = "exploring" <=> h = state
  /\ \A h \in State \ failing : visits[h] \in {"exploring", "explored"} =>
       h \in bank \/ (h = state /\ h = l.state /\ l.pc \in {"get", "page", "store"})
  /\ l.pc = "done" /\ l.reason # "comparison_error" => l.state \in bank

(* A penalty stands for a comparison that was the first and the last one.  *)
Penalized(l, penalties, bank) ==
  /\ \A h \in State : penalties[h] > 0 => h \in bank
  /\ \/ l.pc \in {"page", "store"}
     \/ l.pc = "done" /\ l.reason \notin {"already_registered", "comparison_error"}
     => penalties[l.state] = 0

(* What holds of the state that a session explores, or meets.              *)
Fits(l, state, visits, penalties, originals, ps, there, failing) ==
  /\ Matched(l, Suited(l.state, visits))
  /\ Read(l, Picked(ps, Suited(l.state, visits)), there)
  /\ there \subseteq Ran(ps)
  /\ Explored(l, state, visits, Ran(ps), failing)
  /\ Penalized(l, penalties, Ran(ps))
  /\ \A h \in State : penalties[h] = Top =>
       LET k == originals[h]
       IN  /\ k # None /\ (k = state \/ visits[k] \in {"exploring", "explored"})
           /\ Equivalent(h, k)

SessionFits(s) ==
  Fits(at[s], current[s], status[s], penalty[s], original[s], profiles, known[s], failed[s])

Sound == Typed /\ \A s \in Session : SessionFits(s)

-----------------------------------------------------------------------------
(* Induction, over sets of numbers.                                        *)

LEMMA LeastNumber ==
  ASSUME NEW S \in SUBSET Nat, S # {}
  PROVE  \E n \in S : \A m \in S : n <= m
<1> DEFINE Below == OpToRel(<, Nat)
<1>1. IsWellFoundedOn(Below, Nat)
  BY NatLessThanWellFounded, Zenon
<1>2. PICK n \in S : \A m \in S : ~(<<m, n>> \in Below)
  <2> HIDE DEF Below
  <2> QED
    BY <1>1, WFMin, Zenon
<1>3. \A m \in S : ~(m < n)
  BY <1>2 DEF OpToRel
<1> QED
  BY <1>3

LEMMA SetInduction ==
  ASSUME NEW S \in SUBSET Nat, NEW b \in S, \A n \in S : n + 1 \in S
  PROVE  \A n \in Nat : n >= b => n \in S
<1> DEFINE T == {n \in Nat : n >= b /\ n \notin S}
<1> SUFFICES ASSUME T # {} PROVE FALSE
  OBVIOUS
<1>b. b \in Nat
  OBVIOUS
<1>2. PICK n \in T : \A m \in T : n <= m
  <2>1. T \in SUBSET Nat
    OBVIOUS
  <2> HIDE DEF T
  <2> QED
    BY <2>1, LeastNumber
<1>3. \A m \in T : ~(m < n)
  BY <1>2
<1>4. n # b
  OBVIOUS
<1>5. n - 1 \in Nat /\ n - 1 >= b
  BY <1>b, <1>4
<1>6. n - 1 \in S
  BY <1>3, <1>5
<1>7. (n - 1) + 1 = n
  BY <1>5
<1> QED
  BY <1>6, <1>7

-----------------------------------------------------------------------------
(* The list of the profiles that suit.                                     *)

LEMMA PicksExist ==
  ASSUME NEW ps, NEW S
  PROVE  \A n \in Nat : \E f : Picks(f, ps, S, n)
<1> DEFINE T == {n \in Nat : \E f : Picks(f, ps, S, n)}
<1>1. 0 \in T
  <2> DEFINE f == [i \in 0 .. 0 |-> <<>>]
  <2>1. f = [i \in 0 .. 0 |-> IF i = 0 THEN <<>>
                              ELSE IF ps[i] \in S THEN Append(f[i - 1], ps[i]) ELSE f[i - 1]]
    OBVIOUS
  <2> QED
    BY <2>1 DEF Picks
<1>2. ASSUME NEW n \in T PROVE n + 1 \in T
  <2>1. PICK f : Picks(f, ps, S, n)
    OBVIOUS
  <2> DEFINE g == [i \in 0 .. n + 1 |->
                     IF i = n + 1
                     THEN IF ps[n + 1] \in S THEN Append(f[n], ps[n + 1]) ELSE f[n]
                     ELSE f[i]]
  <2>2. ASSUME NEW i \in 0 .. n + 1
        PROVE  g[i] = IF i = 0 THEN <<>>
                      ELSE IF ps[i] \in S THEN Append(g[i - 1], ps[i]) ELSE g[i - 1]
    <3>1. CASE i = n + 1
      <4>1. i # 0 /\ i - 1 = n /\ n \in 0 .. n + 1 /\ n # n + 1
        BY <3>1
      <4>2. g[i - 1] = f[n]
        BY <3>1, <4>1
      <4> QED
        BY <3>1, <4>1, <4>2
    <3>2. CASE i = 0
      BY <2>1, <3>2 DEF Picks
    <3>3. CASE i # 0 /\ i # n + 1
      <4>1. i \in 0 .. n /\ i - 1 \in 0 .. n
        BY <3>3
      <4>2. g[i] = f[i] /\ g[i - 1] = f[i - 1]
        BY <4>1
      <4>3. f[i] = IF ps[i] \in S THEN Append(f[i - 1], ps[i]) ELSE f[i - 1]
        BY <2>1, <3>3, <4>1 DEF Picks
      <4> QED
        BY <3>3, <4>2, <4>3
    <3> QED
      BY <3>1, <3>2, <3>3
  <2>3. Picks(g, ps, S, n + 1)
    BY <2>2 DEF Picks
  <2> QED
    BY <2>3
<1>3. T \in SUBSET Nat
  OBVIOUS
<1> HIDE DEF T
<1>4. \A n \in Nat : n >= 0 => n \in T
  BY <1>1, <1>2, <1>3, SetInduction
<1> QED
  BY <1>4 DEF T

LEMMA PickedIs ==
  ASSUME NEW ps \in Seq(State), NEW S
  PROVE  \E f : Picks(f, ps, S, Len(ps)) /\ Picked(ps, S) = f[Len(ps)]
<1>1. Len(ps) \in Nat
  OBVIOUS
<1>2. \E f : Picks(f, ps, S, Len(ps))
  BY <1>1, PicksExist
<1> DEFINE g == CHOOSE f : Picks(f, ps, S, Len(ps))
<1>3. Picks(g, ps, S, Len(ps))
  BY <1>2
<1>4. Picked(ps, S) = g[Len(ps)]
  BY DEF Picked
<1> QED
  BY <1>3, <1>4

LEMMA ComparableIs ==
  ASSUME Typed, NEW s \in Session, NEW h
  PROVE  Comparable(s, h) = Picked(profiles, Suited(h, status[s]))
<1> DEFINE ps == profiles
           S == Suited(h, status[s])
           n == Len(ps)
           F(f) == [i \in 0 .. n |->
                      IF i = 0 THEN <<>>
                      ELSE IF Suits(s, h, ps[i]) THEN Append(f[i - 1], ps[i]) ELSE f[i - 1]]
<1>1. ps \in Seq(State) /\ \A i \in 1 .. n : ps[i] \in State
  BY DEF Typed
<1>2. \A i \in 1 .. n : Suits(s, h, ps[i]) <=> ps[i] \in S
  BY <1>1 DEF Suited, Suits
<1>3. ASSUME NEW f
      PROVE  f = F(f) <=> Picks(f, ps, S, n)
  <2>1. F(f) = [i \in 0 .. n |-> IF i = 0 THEN <<>>
                                 ELSE IF ps[i] \in S THEN Append(f[i - 1], ps[i]) ELSE f[i - 1]]
    <3>1. \A i \in 0 .. n : i = 0 \/ i \in 1 .. n
      OBVIOUS
    <3> QED
      BY <1>2, <3>1
  <2> QED
    BY <2>1 DEF Picks
<1>4. Comparable(s, h) = (CHOOSE f : f = F(f))[n]
  BY DEF Comparable
<1> HIDE DEF F
<1>5. (CHOOSE f : f = F(f)) = CHOOSE f : Picks(f, ps, S, n)
  BY <1>3
<1> QED
  BY <1>4, <1>5 DEF Picked

LEMMA PickedType ==
  ASSUME NEW ps \in Seq(State), NEW S
  PROVE  Picked(ps, S) \in Seq(State) /\ Ran(Picked(ps, S)) = Ran(ps) \intersect S
<1>1. PICK f : Picks(f, ps, S, Len(ps)) /\ Picked(ps, S) = f[Len(ps)]
  BY PickedIs
<1> DEFINE n == Len(ps)
           First(i) == {ps[j] : j \in 1 .. i}
           T == {i \in Nat : i <= n => f[i] \in Seq(State) /\ Ran(f[i]) = First(i) \intersect S}
<1>n. n \in Nat /\ \A i \in 1 .. n : ps[i] \in State
  OBVIOUS
<1>p. Picks(f, ps, S, n)
  BY <1>1
<1>r. First(n) = Ran(ps)
  BY DEF Ran
<1> HIDE DEF n
<1>2. 0 \in T
  <2>1. f[0] = <<>>
    BY <1>p, <1>n DEF Picks
  <2>2. <<>> \in Seq(State) /\ Ran(<<>>) = {} /\ First(0) = {}
    BY DEF Ran
  <2> QED
    BY <2>1, <2>2
<1>3. ASSUME NEW i \in T PROVE i + 1 \in T
  <2> SUFFICES ASSUME i + 1 <= n
               PROVE  f[i + 1] \in Seq(State) /\ Ran(f[i + 1]) = First(i + 1) \intersect S
    OBVIOUS
  <2>1. i + 1 \in 0 .. n /\ i + 1 # 0 /\ (i + 1) - 1 = i /\ i + 1 \in 1 .. n
    BY <1>n
  <2>2. f[i + 1] = IF ps[i + 1] \in S THEN Append(f[i], ps[i + 1]) ELSE f[i]
    BY <1>p, <2>1 DEF Picks
  <2>3. f[i] \in Seq(State) /\ Ran(f[i]) = First(i) \intersect S
    BY <1>n, <2>1
  <2>4. First(i + 1) = First(i) \union {ps[i + 1]}
    <3>1. 1 .. i + 1 = (1 .. i) \union {i + 1}
      OBVIOUS
    <3> QED
      BY <3>1
  <2>5. ps[i + 1] \in State
    BY <1>n, <2>1
  <2> HIDE DEF First
  <2>6. CASE ps[i + 1] \in S
    <3> DEFINE q == f[i]
               x == ps[i + 1]
    <3>1. Append(q, x) \in Seq(State) /\ Ran(Append(q, x)) = Ran(q) \union {x}
      <4>1. q \in Seq(State) /\ x \in State
        BY <2>3, <2>5
      <4> HIDE DEF q, x
      <4>2. /\ Append(q, x) \in Seq(State) /\ Len(q) \in Nat
            /\ DOMAIN Append(q, x) = 1 .. Len(q) + 1 /\ DOMAIN q = 1 .. Len(q)
            /\ \A j \in 1 .. Len(q) : Append(q, x)[j] = q[j]
            /\ Append(q, x)[Len(q) + 1] = x
        BY <4>1
      <4> QED
        BY <4>2 DEF Ran
    <3> QED
      BY <2>2, <2>3, <2>4, <2>6, <3>1
  <2>7. CASE ps[i + 1] \notin S
    BY <2>2, <2>3, <2>4, <2>7
  <2> QED
    BY <2>6, <2>7
<1>4. T \in SUBSET Nat
  OBVIOUS
<1> HIDE DEF T
<1>5. \A i \in Nat : i >= 0 => i \in T
  BY <1>2, <1>3, <1>4, SetInduction
<1>6. n \in T
  BY <1>5, <1>n
<1>7. f[n] \in Seq(State) /\ Ran(f[n]) = First(n) \intersect S
  BY <1>6, <1>n DEF T
<1> QED
  BY <1>1, <1>7, <1>r DEF n

(* A new profile comes first, and moves the others on.                     *)
LEMMA PickedMore ==
  ASSUME NEW ps \in Seq(State), NEW S, NEW x \in State
  PROVE  Picked(<<x>> \o ps, S) = IF x \in S THEN <<x>> \o Picked(ps, S) ELSE Picked(ps, S)
<1> DEFINE qs == <<x>> \o ps
           n == Len(ps)
<1>n. /\ qs \in Seq(State) /\ Len(qs) = n + 1 /\ n \in Nat /\ qs[1] = x
      /\ \A i \in 1 .. n : qs[i + 1] = ps[i] /\ ps[i] \in State
  OBVIOUS
<1> HIDE DEF qs
<1>1. PICK f : Picks(f, ps, S, Len(ps)) /\ Picked(ps, S) = f[Len(ps)]
  BY PickedIs
<1>2. PICK g : Picks(g, qs, S, Len(qs)) /\ Picked(qs, S) = g[Len(qs)]
  BY <1>n, PickedIs
<1> HIDE DEF n
<1>f. Picks(f, ps, S, n) /\ Picks(g, qs, S, n + 1)
  BY <1>1, <1>2, <1>n DEF n
<1> DEFINE Moved(i) == IF x \in S THEN <<x>> \o f[i] ELSE f[i]
           T == {i \in Nat : i <= n => g[i + 1] = Moved(i) /\ f[i] \in Seq(State)}
<1>3. 0 \in T
  <2>1. f[0] = <<>> /\ g[0] = <<>>
    BY <1>f, <1>n DEF Picks
  <2>2. g[1] = IF x \in S THEN Append(<<>>, x) ELSE <<>>
    <3>1. 1 \in 0 .. n + 1 /\ 1 # 0 /\ 1 - 1 = 0
      BY <1>n
    <3>2. g[1] = IF qs[1] \in S THEN Append(g[0], qs[1]) ELSE g[0]
      BY <1>f, <3>1 DEF Picks
    <3> QED
      BY <1>n, <2>1, <3>2
  <2>3. Append(<<>>, x) = <<x>> /\ <<x>> \o <<>> = <<x>> /\ <<>> \in Seq(State) /\ 0 + 1 = 1
    OBVIOUS
  <2> QED
    BY <2>1, <2>2, <2>3
<1>4. ASSUME NEW i \in T PROVE i + 1 \in T
  <2> SUFFICES ASSUME i + 1 <= n PROVE g[(i + 1) + 1] = Moved(i + 1) /\ f[i + 1] \in Seq(State)
    OBVIOUS
  <2>1. /\ i + 1 \in 0 .. n /\ i + 1 # 0 /\ (i + 1) - 1 = i /\ i + 1 \in 1 .. n /\ i <= n
        /\ i + 2 \in 0 .. n + 1 /\ i + 2 # 0 /\ (i + 2) - 1 = i + 1 /\ (i + 1) + 1 = i + 2
    BY <1>n
  <2>2. f[i + 1] = IF ps[i + 1] \in S THEN Append(f[i], ps[i + 1]) ELSE f[i]
    BY <1>f, <2>1 DEF Picks
  <2>3. g[i + 2] = IF qs[i + 2] \in S THEN Append(g[i + 1], qs[i + 2]) ELSE g[i + 1]
    BY <1>f, <2>1 DEF Picks
  <2>4. qs[i + 2] = ps[i + 1] /\ ps[i + 1] \in State
    BY <1>n, <2>1
  <2>5. g[i + 1] = Moved(i) /\ f[i] \in Seq(State)
    BY <2>1
  <2>6. <<x>> \o Append(f[i], ps[i + 1]) = Append(<<x>> \o f[i], ps[i + 1])
    <3> DEFINE q == f[i]
               y == ps[i + 1]
    <3>1. q \in Seq(State) /\ y \in State
      BY <2>4, <2>5
    <3> HIDE DEF q, y
    <3>2. <<x>> \o Append(q, y) = Append(<<x>> \o q, y)
      BY <3>1
    <3> QED
      BY <3>2 DEF q, y
  <2>7. f[i + 1] \in Seq(State)
    BY <2>2, <2>4, <2>5
  <2>8. g[i + 2] = Moved(i + 1)
    <3>1. CASE ps[i + 1] \in S
      <4>1. f[i + 1] = Append(f[i], ps[i + 1]) /\ g[i + 2] = Append(g[i + 1], ps[i + 1])
        BY <2>2, <2>3, <2>4, <3>1
      <4> QED
        BY <2>5, <2>6, <4>1
    <3>2. CASE ps[i + 1] \notin S
      <4>1. f[i + 1] = f[i] /\ g[i + 2] = g[i + 1]
        BY <2>2, <2>3, <2>4, <3>2
      <4> QED
        BY <2>5, <4>1
    <3> QED
      BY <3>1, <3>2
  <2> HIDE DEF Moved
  <2> QED
    BY <2>1, <2>7, <2>8
<1>5. T \in SUBSET Nat
  OBVIOUS
<1> HIDE DEF T
<1>6. \A i \in Nat : i >= 0 => i \in T
  BY <1>3, <1>4, <1>5, SetInduction
<1>7. n \in T
  BY <1>6, <1>n
<1>8. g[n + 1] = Moved(n)
  BY <1>7, <1>n DEF T
<1>9. Picked(qs, S) = g[n + 1] /\ Picked(ps, S) = f[n]
  BY <1>1, <1>2, <1>n DEF n
<1> QED
  BY <1>8, <1>9 DEF qs
-----------------------------------------------------------------------------
(* Comparing.                                                              *)

(* What a registration that was b has compared of a list.                  *)
Compares(l, b, list, there, n, suitable) ==
  /\ l \in Local /\ l.state \in State
  /\ l.state = b.state /\ l.skip = b.skip /\ l.pc = b.pc /\ l.reason = b.reason
  /\ l.seen = IF n <= MaxSize THEN n ELSE MaxSize + 1
  /\ l.best = None => l.confidence = 0
  /\ l.best # None => l.best \in suitable /\ l.confidence = Confidence[l.state][l.best]
  /\ \A i \in 1 .. n : i <= MaxSize /\ list[i] \in there => Confidence[l.state][list[i]] <= l.confidence

LEMMA BankFacts ==
  /\ Top \in Nat /\ Bar \in 1 .. Top /\ MaxSize \in Nat \ {0} /\ Batch \in Nat \ {0}
  /\ \A h, k \in State : Confidence[h][k] \in 0 .. Top
  /\ None \notin State /\ Initial \in State
  /\ Links \in [State -> SUBSET State]
<1>1. Confidence \in [State -> [State -> 0 .. Top]]
  BY SemanticBankAssumption, Zenon DEF SemanticBankAssumption
<1>2. \A h, k \in State : Confidence[h][k] \in 0 .. Top
  BY <1>1
<1> QED
  BY <1>2, SemanticBankAssumption, Zenon DEF SemanticBankAssumption

LEMMA CompareOne ==
  ASSUME NEW list \in Seq(State), NEW there, NEW suitable, Ran(list) \subseteq suitable,
         NEW n \in Nat, n + 1 \in 1 .. Len(list), NEW l, NEW b, Compares(l, b, list, there, n, suitable)
  PROVE  Compares(Compare(l, list[n + 1]), b, list, there, n + 1, suitable)
<1> DEFINE k == list[n + 1]
           m == Compare(l, k)
           c == Confidence[l.state][k]
<1>1. k \in State /\ k \in suitable
  BY DEF Ran
<1>2. /\ l \in Local /\ l.state \in State /\ l.seen \in 0 .. MaxSize + 1
      /\ l.confidence \in 0 .. Top /\ MaxSize \in Nat /\ Top \in Nat
  BY BankFacts DEF Compares, Local
<1>3. c \in 0 .. Top
  BY <1>1, <1>2, BankFacts
<1>4. l.seen = IF n <= MaxSize THEN n ELSE MaxSize + 1
  BY DEF Compares
<1>b. l.state = b.state /\ l.skip = b.skip /\ l.pc = b.pc /\ l.reason = b.reason
  BY DEF Compares
<1>5. /\ l.best = None => l.confidence = 0
      /\ l.best # None => l.best \in suitable /\ l.confidence = Confidence[l.state][l.best]
      /\ \A i \in 1 .. n : i <= MaxSize /\ list[i] \in there =>
           Confidence[l.state][list[i]] <= l.confidence
  BY DEF Compares
<1> HIDE DEF k
<1>6. CASE l.seen >= MaxSize
  <2>1. m = [l EXCEPT !.seen = MaxSize + 1]
    BY <1>6 DEF Compare
  <2>2. /\ m \in Local /\ m.state = l.state /\ m.skip = l.skip /\ m.pc = l.pc
        /\ m.reason = l.reason /\ m.seen = MaxSize + 1 /\ m.best = l.best
        /\ m.confidence = l.confidence
    BY <1>2, <2>1 DEF Local
  <2> HIDE DEF m
  <2>3. n + 1 > MaxSize
    BY <1>2, <1>4, <1>6
  <2>4. \A i \in 1 .. n + 1 : i <= MaxSize => i \in 1 .. n
    BY <1>2, <2>3
  <2> QED
    BY <1>2, <1>5, <1>b, <2>2, <2>3, <2>4 DEF Compares, m, k
<1>7. CASE l.seen < MaxSize
  <2>1. n + 1 <= MaxSize /\ l.seen = n
    BY <1>2, <1>4, <1>7
  <2>2. CASE c > l.confidence
    <3>1. m = [l EXCEPT !.seen = @ + 1, !.best = k, !.confidence = c]
      BY <1>2, <1>7, <2>2 DEF Compare
    <3>2. k # None
      BY <1>1, BankFacts
    <3>3. /\ m \in Local /\ m.state = l.state /\ m.skip = l.skip /\ m.pc = l.pc
          /\ m.reason = l.reason /\ m.seen = n + 1 /\ m.best = k /\ m.confidence = c
      <4> HIDE DEF c, m
      <4>1. l.seen + 1 = n + 1 /\ n + 1 \in 0 .. MaxSize + 1
        BY <1>2, <2>1
      <4>2. m = [l EXCEPT !.seen = n + 1, !.best = k, !.confidence = c]
        BY <3>1, <4>1
      <4>3. k \in State \union {None} /\ c \in 0 .. Top
        BY <1>1, <1>3
      <4>4. m \in Local
        BY <1>2, <4>1, <4>2, <4>3 DEF Local
      <4> QED
        BY <1>2, <4>2, <4>4 DEF Local
    <3> HIDE DEF m
    <3>4. \A i \in 1 .. n + 1 : list[i] \in there => Confidence[l.state][list[i]] <= c
      <4>1. \A i \in 1 .. n + 1 : i \in 1 .. n \/ i = n + 1
        OBVIOUS
      <4>2. \A i \in 1 .. n : list[i] \in there => Confidence[l.state][list[i]] <= l.confidence
        BY <1>2, <1>5, <2>1
      <4>3. \A i \in 1 .. n : list[i] \in State
        OBVIOUS
      <4>4. \A i \in 1 .. n : Confidence[l.state][list[i]] \in 0 .. Top
        BY <1>2, <4>3, BankFacts
      <4>5. \A i \in 1 .. n : list[i] \in there => Confidence[l.state][list[i]] <= c
        BY <1>2, <1>3, <2>2, <4>2, <4>4
      <4> QED
        BY <1>3, <4>1, <4>5 DEF k
    <3> QED
      BY <1>1, <1>2, <1>b, <2>1, <3>2, <3>3, <3>4 DEF Compares, m, k
  <2>3. CASE ~(c > l.confidence)
    <3>1. m = [l EXCEPT !.seen = @ + 1]
      BY <1>2, <1>7, <2>3 DEF Compare
    <3>2. /\ m \in Local /\ m.state = l.state /\ m.skip = l.skip /\ m.pc = l.pc
          /\ m.reason = l.reason /\ m.seen = n + 1 /\ m.best = l.best
          /\ m.confidence = l.confidence
      BY <1>2, <2>1, <3>1 DEF Local
    <3> HIDE DEF m
    <3>3. c <= l.confidence
      BY <1>2, <1>3, <2>3
    <3>4. \A i \in 1 .. n + 1 : i <= MaxSize /\ list[i] \in there =>
            Confidence[l.state][list[i]] <= l.confidence
      <4>1. \A i \in 1 .. n + 1 : i \in 1 .. n \/ i = n + 1
        OBVIOUS
      <4> QED
        BY <1>5, <3>3, <4>1 DEF k
    <3> QED
      BY <1>2, <1>5, <1>b, <2>1, <3>2, <3>4 DEF Compares, m, k
  <2> QED
    BY <2>2, <2>3
<1> QED
  BY <1>2, <1>6, <1>7

After(f, l, list, last) ==
  f = [n \in l.skip .. last |-> IF n = l.skip THEN l ELSE Compare(f[n - 1], list[n])]

LEMMA AfterExists ==
  ASSUME NEW l, l.skip \in Nat, NEW list
  PROVE  \A n \in Nat : n >= l.skip => \E f : After(f, l, list, n)
<1> DEFINE b == l.skip
           T == {n \in Nat : n >= b /\ \E f : After(f, l, list, n)}
<1>1. b \in T
  <2>b. b \in Nat
    OBVIOUS
  <2> DEFINE f == [i \in b .. b |-> l]
  <2>1. f = [i \in b .. b |-> IF i = b THEN l ELSE Compare(f[i - 1], list[i])]
    OBVIOUS
  <2>2. After(f, l, list, b)
    BY <2>1 DEF After
  <2> QED
    BY <2>2, <2>b
<1>2. ASSUME NEW n \in T PROVE n + 1 \in T
  <2>1. PICK f : After(f, l, list, n)
    OBVIOUS
  <2>n. n \in Nat /\ b \in Nat /\ n >= b
    OBVIOUS
  <2> HIDE DEF T
  <2> DEFINE g == [i \in b .. n + 1 |-> IF i = n + 1 THEN Compare(f[n], list[n + 1]) ELSE f[i]]
  <2>2. ASSUME NEW i \in b .. n + 1
        PROVE  g[i] = IF i = b THEN l ELSE Compare(g[i - 1], list[i])
    <3>1. CASE i = n + 1
      <4>1. i # b /\ i - 1 = n /\ n \in b .. n + 1 /\ n # n + 1
        BY <2>n, <3>1
      <4>2. g[i - 1] = f[n]
        BY <3>1, <4>1
      <4> QED
        BY <3>1, <4>1, <4>2
    <3>2. CASE i # n + 1
      <4>1. i \in b .. n
        BY <2>n, <3>2
      <4>2. g[i] = f[i]
        BY <3>2
      <4>3. f[i] = IF i = b THEN l ELSE Compare(f[i - 1], list[i])
        BY <2>1, <4>1 DEF After
      <4>4. i # b => g[i - 1] = f[i - 1]
        BY <2>n, <4>1
      <4> QED
        BY <4>2, <4>3, <4>4
    <3> QED
      BY <3>1, <3>2
  <2>3. After(g, l, list, n + 1)
    BY <2>2 DEF After
  <2> QED
    BY <2>3, <2>n DEF T
<1>3. T \in SUBSET Nat
  OBVIOUS
<1> HIDE DEF T
<1>4. \A n \in Nat : n >= b => n \in T
  BY <1>1, <1>2, <1>3, SetInduction
<1> QED
  BY <1>4 DEF T

LEMMA CompareAllIs ==
  ASSUME NEW list \in Seq(State), NEW there, NEW suitable, Ran(list) \subseteq suitable,
         NEW l, l.skip \in Nat, Compares(l, l, list, there, l.skip, suitable),
         NEW last \in Nat, l.skip <= last, last <= Len(list)
  PROVE  Compares(CompareAll(l, list, last), l, list, there, last, suitable)
<1> DEFINE b == l.skip
<1>1. CompareAll(l, list, last) = (CHOOSE f : After(f, l, list, last))[last]
  BY DEF CompareAll, After
<1>2. \E f : After(f, l, list, last)
  BY AfterExists
<1> DEFINE g == CHOOSE f : After(f, l, list, last)
<1>3. After(g, l, list, last)
  BY <1>2
<1> DEFINE T == {n \in Nat : n >= b /\ (n <= last => Compares(g[n], l, list, there, n, suitable))}
<1>4. /\ b \in Nat /\ b <= last /\ Len(list) \in Nat
      /\ CompareAll(l, list, last) = g[last]
  BY <1>1
<1>5. g[b] = l /\ \A n \in b .. last : n # b => g[n] = Compare(g[n - 1], list[n])
  <2>1. g = [n \in b .. last |-> IF n = b THEN l ELSE Compare(g[n - 1], list[n])]
    BY <1>3 DEF After
  <2> HIDE DEF g
  <2>2. ASSUME NEW n \in b .. last
        PROVE  g[n] = IF n = b THEN l ELSE Compare(g[n - 1], list[n])
    BY <2>1
  <2>3. b \in b .. last
    BY <1>4
  <2> QED
    BY <2>2, <2>3
<1> HIDE DEF g
<1>6. b \in T
  BY <1>4, <1>5
<1>7. ASSUME NEW n \in T PROVE n + 1 \in T
  <2> SUFFICES ASSUME n + 1 <= last PROVE Compares(g[n + 1], l, list, there, n + 1, suitable)
    BY <1>4
  <2>1. /\ n \in Nat /\ n + 1 \in b .. last /\ n + 1 # b /\ (n + 1) - 1 = n
        /\ n + 1 \in 1 .. Len(list) /\ Compares(g[n], l, list, there, n, suitable)
    BY <1>4
  <2>2. g[n + 1] = Compare(g[n], list[n + 1])
    BY <1>5, <2>1
  <2> HIDE DEF T
  <2> QED
    BY <2>1, <2>2, CompareOne
<1>8. T \in SUBSET Nat
  OBVIOUS
<1> HIDE DEF T
<1>9. \A n \in Nat : n >= b => n \in T
  BY <1>6, <1>7, <1>8, SetInduction
<1>10. last \in T
  BY <1>4, <1>9
<1> QED
  BY <1>4, <1>10 DEF T

-----------------------------------------------------------------------------
(* What a session knows does not depend on what the others add.            *)

LEMMA RanMore ==
  ASSUME NEW ps \in Seq(State), NEW x \in State
  PROVE  Ran(<<x>> \o ps) = Ran(ps) \union {x}
<1> DEFINE n == Len(ps)
           qs == <<x>> \o ps
<1>1. /\ n \in Nat /\ DOMAIN ps = 1 .. n /\ DOMAIN qs = 1 .. n + 1 /\ qs[1] = x
      /\ \A i \in 1 .. n : qs[i + 1] = ps[i]
  OBVIOUS
<1> HIDE DEF n, qs
<1>2. \A i \in 1 .. n : i + 1 \in 1 .. n + 1
  BY <1>1
<1>3. 1 \in 1 .. n + 1 /\ \A i \in 1 .. n + 1 : i = 1 \/ (i - 1 \in 1 .. n /\ (i - 1) + 1 = i)
  BY <1>1
<1>4. Ran(ps) \union {x} \subseteq Ran(qs)
  <2>1. x \in Ran(qs)
    BY <1>1, <1>3 DEF Ran
  <2>2. ASSUME NEW i \in 1 .. n PROVE ps[i] \in Ran(qs)
    <3>1. i + 1 \in DOMAIN qs /\ qs[i + 1] = ps[i]
      BY <1>1, <1>2
    <3> QED
      BY <3>1 DEF Ran
  <2>3. \A y \in Ran(ps) : \E i \in 1 .. n : y = ps[i]
    BY <1>1 DEF Ran
  <2> QED
    BY <2>1, <2>2, <2>3
<1>5. ASSUME NEW y \in Ran(qs) PROVE y \in Ran(ps) \union {x}
  <2>1. PICK i \in 1 .. n + 1 : y = qs[i]
    BY <1>1 DEF Ran
  <2>2. CASE i = 1
    BY <1>1, <2>1, <2>2
  <2>3. CASE i # 1
    <3>1. i - 1 \in 1 .. n /\ (i - 1) + 1 = i
      BY <1>3, <2>3
    <3>2. y = ps[i - 1] /\ i - 1 \in DOMAIN ps
      BY <1>1, <2>1, <3>1
    <3> QED
      BY <3>2 DEF Ran
  <2> QED
    BY <2>2, <2>3
<1> QED
  BY <1>4, <1>5 DEF qs

LEMMA ReadMore ==
  ASSUME NEW l \in Local, NEW list \in Seq(State), NEW there, NEW x \in State, x \notin there,
         Read(l, list, there)
  PROVE  Read(l, <<x>> \o list, there)
<1> DEFINE n == Len(list)
           more == <<x>> \o list
<1>1. /\ n \in Nat /\ DOMAIN list = 1 .. n /\ DOMAIN more = 1 .. n + 1 /\ Len(more) = n + 1
      /\ more[1] = x
      /\ \A i \in 1 .. n + 1 : i # 1 => i - 1 \in 1 .. n /\ more[i] = list[i - 1]
  OBVIOUS
<1>2. Ran(list) \subseteq Ran(more)
  BY RanMore
<1>3. l.skip \in Nat /\ MaxSize \in Nat
  BY BankFacts DEF Local
<1> HIDE DEF n, more
<1>4. ASSUME l.pc = "page"
      PROVE  /\ l.skip <= Len(more) /\ there \subseteq Ran(more)
             /\ \A i \in 1 .. l.skip : more[i] \in there => Confidence[l.state][more[i]] <= l.confidence
  <2>1. /\ l.skip <= n /\ there \subseteq Ran(list)
        /\ \A i \in 1 .. l.skip : list[i] \in there => Confidence[l.state][list[i]] <= l.confidence
    BY <1>4 DEF Read, n
  <2>2. ASSUME NEW i \in 1 .. l.skip, more[i] \in there
        PROVE  Confidence[l.state][more[i]] <= l.confidence
    <3>1. i # 1 /\ i \in 1 .. n + 1
      BY <1>1, <1>3, <2>1, <2>2
    <3>2. i - 1 \in 1 .. l.skip
      BY <1>3, <3>1
    <3> QED
      BY <1>1, <2>1, <2>2, <3>1, <3>2
  <2> QED
    BY <1>1, <1>2, <1>3, <2>1, <2>2
<1>5. ASSUME l.pc \in {"store", "done"}, l.reason = "no_equivalence"
      PROVE  /\ there \subseteq Ran(more)
             /\ \A i \in DOMAIN more :
                  i <= MaxSize /\ more[i] \in there => Confidence[l.state][more[i]] < Bar
  <2>1. /\ there \subseteq Ran(list)
        /\ \A i \in 1 .. n :
             i <= MaxSize /\ list[i] \in there => Confidence[l.state][list[i]] < Bar
    BY <1>1, <1>5 DEF Read
  <2>2. ASSUME NEW i \in 1 .. n + 1, i <= MaxSize, more[i] \in there
        PROVE  Confidence[l.state][more[i]] < Bar
    <3>1. i # 1
      BY <1>1, <2>2
    <3>2. i - 1 \in 1 .. n /\ i - 1 <= MaxSize /\ more[i] = list[i - 1]
      BY <1>1, <1>3, <2>2, <3>1
    <3> QED
      BY <2>1, <2>2, <3>2
  <2> QED
    BY <1>1, <1>2, <2>1, <2>2
<1> QED
  BY <1>4, <1>5 DEF Read, more

LEMMA OneMore ==
  ASSUME NEW l \in Local, NEW state, NEW visits, NEW penalties, NEW originals,
         NEW ps \in Seq(State), NEW there, NEW failing, NEW x \in State, x \notin Ran(ps),
         Fits(l, state, visits, penalties, originals, ps, there, failing)
  PROVE  Fits(l, state, visits, penalties, originals, <<x>> \o ps, there, failing)
<1> DEFINE S == Suited(l.state, visits)
           list == Picked(ps, S)
           more == Picked(<<x>> \o ps, S)
<1>1. Ran(<<x>> \o ps) = Ran(ps) \union {x}
  BY RanMore
<1>2. list \in Seq(State) /\ Ran(list) = Ran(ps) \intersect S
  BY PickedType
<1>3. more = IF x \in S THEN <<x>> \o list ELSE list
  BY PickedMore
<1>f. /\ Matched(l, S) /\ Read(l, list, there)
      /\ there \subseteq Ran(ps)
      /\ Explored(l, state, visits, Ran(ps), failing) /\ Penalized(l, penalties, Ran(ps))
  BY DEF Fits
<1> HIDE DEF S, list, more
<1>4. Read(l, more, there)
  <2>1. CASE l.pc \in {"page", "store", "done"}
    BY <1>2, <1>3, <1>f, <2>1, ReadMore
  <2>2. CASE l.pc \notin {"page", "store", "done"}
    BY <2>2 DEF Read
  <2> QED
    BY <2>1, <2>2
<1>5. Explored(l, state, visits, Ran(ps) \union {x}, failing)
  BY <1>f DEF Explored
<1>6. Penalized(l, penalties, Ran(ps) \union {x})
  BY <1>f DEF Penalized
<1> QED
  BY <1>1, <1>4, <1>5, <1>6, <1>f DEF Fits, S, more

(* A step of one session leaves to the others what is theirs.              *)
Alone(s) ==
  \A t \in Session \ {s} :
    /\ at'[t] = at[t] /\ current'[t] = current[t] /\ status'[t] = status[t]
    /\ penalty'[t] = penalty[t] /\ original'[t] = original[t]
    /\ known'[t] = known[t] /\ failed'[t] = failed[t]

Fronted ==
  \/ profiles' = profiles
  \/ \E x \in State : x \notin Ran(profiles) /\ profiles' = <<x>> \o profiles

LEMMA OthersFit ==
  ASSUME Sound, NEW s \in Session, Alone(s), Fronted, Typed', SessionFits(s)'
  PROVE  Sound'
<1> SUFFICES ASSUME NEW t \in Session, t # s PROVE SessionFits(t)'
  BY DEF Sound
<1> DEFINE F(ps) == Fits(at[t], current[t], status[t], penalty[t], original[t], ps,
                         known[t], failed[t])
<1>1. SessionFits(t)' <=> F(profiles')
  BY DEF SessionFits, Alone
<1>2. F(profiles) /\ at[t] \in Local /\ profiles \in Seq(State)
  BY DEF Sound, SessionFits, Typed
<1>3. ASSUME NEW x \in State, x \notin Ran(profiles) PROVE F(<<x>> \o profiles)
  BY <1>2, <1>3, OneMore
<1> HIDE DEF F
<1> QED
  BY <1>1, <1>2, <1>3 DEF Fronted

LEMMA BankIs ==
  ASSUME Typed
  PROVE  /\ Bank = Ran(profiles) /\ profiles \in Seq(State) /\ Ran(profiles) \subseteq State
         /\ \A s \in Session : \A h : /\ Comparable(s, h) = Picked(profiles, Suited(h, status[s]))
                                  /\ Listed(s, h) = Ran(Comparable(s, h))
<1>1. Bank = Ran(profiles)
  BY DEF Bank, Ran
<1>2. profiles \in Seq(State)
  BY DEF Typed
<1>3. Ran(profiles) \subseteq State
  BY <1>2 DEF Ran
<1> QED
  BY <1>1, <1>2, <1>3, ComparableIs DEF Listed, Ran

LEMMA Starts ==
  /\ Idle \in Local
  /\ \A h \in State : Registering(h) \in Local
<1>1. MaxSize \in Nat /\ Top \in Nat
  BY BankFacts
<1>2. Idle \in Local
  BY <1>1 DEF Idle, Local, Pc, Reason
<1>3. ASSUME NEW h \in State PROVE Registering(h) \in Local
  <2>1. Registering(h) = [Idle EXCEPT !.pc = "get", !.state = h]
    BY DEF Registering
  <2>2. "get" \in Pc /\ h \in State \union {None}
    BY DEF Pc
  <2> QED
    BY <1>2, <2>1, <2>2 DEF Local
<1> QED
  BY <1>2, <1>3

LEMMA InitSound == Init => Sound
<1> SUFFICES ASSUME Init PROVE Sound
  OBVIOUS
<1> USE DEF Init
<1>1. Typed
  <2>1. profiles \in Seq(State) /\ DOMAIN profiles = {}
    OBVIOUS
  <2>2. /\ status \in [Session -> [State -> Status]]
        /\ penalty \in [Session -> [State -> 0 .. Top]]
        /\ original \in [Session -> [State -> State \union {None}]]
        /\ current \in [Session -> State \union {None}] /\ todo \in [Session -> SUBSET State]
        /\ known \in [Session -> SUBSET State] /\ failed \in [Session -> SUBSET State]
    BY BankFacts DEF Status
  <2>3. at \in [Session -> Local]
    BY BankFacts, Starts
  <2>4. failures \in Nat
    BY SemanticBankAssumption, Zenon DEF SemanticBankAssumption
  <2> QED
    BY <2>1, <2>2, <2>3, <2>4 DEF Typed
<1>2. ASSUME NEW s \in Session PROVE SessionFits(s)
  <2> DEFINE l == Registering(Initial)
  <2>1. /\ at[s] = l /\ current[s] = None /\ status[s] = [h \in State |-> "none"]
        /\ penalty[s] = [h \in State |-> 0]
    OBVIOUS
  <2>2. /\ l.pc = "get" /\ l.state = Initial /\ l.best = None /\ l.confidence = 0
    BY DEF Registering, Idle
  <2>3. Initial \in State /\ None \notin State /\ Top # 0
    BY BankFacts
  <2> HIDE DEF l
  <2>4. /\ Matched(l, Suited(l.state, status[s])) /\ Read(l, Picked(profiles, Suited(l.state, status[s])), known[s])
        /\ Explored(l, None, status[s], Ran(profiles), failed[s])
        /\ Penalized(l, penalty[s], Ran(profiles))
    BY <2>1, <2>2, <2>3 DEF Matched, Read, Explored, Penalized, l
  <2> QED
    BY <2>1, <2>2, <2>3, <2>4 DEF SessionFits, Fits
<1> QED
  BY <1>1, <1>2 DEF Sound

LEMMA Fresh ==
  ASSUME NEW l, l = Idle \/ \E h \in State : l = Registering(h), NEW S, NEW list, NEW there
  PROVE  /\ Matched(l, S) /\ Read(l, list, there) /\ l.pc \in {"idle", "get"} /\ l \in Local
         /\ l = Idle => l.pc = "idle" /\ l.state = None
         /\ \A h \in State : l = Registering(h) => l.pc = "get" /\ l.state = h
<1>1. CASE l = Idle
  <2>1. /\ l.pc = "idle" /\ l.state = None /\ l.best = None /\ l.confidence = 0
    BY <1>1 DEF Idle
  <2>2. \A h \in State : Registering(h).pc = "get"
    BY DEF Registering, Idle
  <2> QED
    BY <1>1, <2>1, <2>2, Starts DEF Matched, Read
<1>2. CASE \E h \in State : l = Registering(h)
  <2>1. PICK h \in State : l = Registering(h)
    BY <1>2
  <2>2. /\ l.pc = "get" /\ l.state = h /\ l.best = None /\ l.confidence = 0
    BY <2>1 DEF Registering, Idle
  <2>3. Idle.pc = "idle"
    BY DEF Idle
  <2>4. \A k \in State : l = Registering(k) => l.state = k
    BY DEF Registering, Idle
  <2> QED
    BY <2>1, <2>2, <2>3, <2>4, Starts DEF Matched, Read
<1> QED
  BY <1>1, <1>2

(* What is known of the session that takes a step.                         *)
LEMMA Known ==
  ASSUME Sound, NEW s \in Session
  PROVE  /\ at[s] \in Local /\ (at[s].pc # "idle" => at[s].state \in State)
         /\ status[s] \in [State -> Status] /\ penalty[s] \in [State -> 0 .. Top]
         /\ original[s] \in [State -> State \union {None}]
         /\ current[s] \in State \union {None} /\ known[s] \in SUBSET State
         /\ failed[s] \in SUBSET State /\ todo[s] \in SUBSET State
         /\ profiles \in Seq(State) /\ Bank = Ran(profiles)
         /\ Matched(at[s], Suited(at[s].state, status[s]))
         /\ Read(at[s], Comparable(s, at[s].state), known[s])
         /\ Comparable(s, at[s].state) = Picked(profiles, Suited(at[s].state, status[s]))
         /\ Comparable(s, at[s].state) \in Seq(State)
         /\ Ran(Comparable(s, at[s].state)) = Ran(profiles) \intersect Suited(at[s].state, status[s])
         /\ Listed(s, at[s].state) = Ran(Comparable(s, at[s].state))
         /\ known[s] \subseteq Ran(profiles)
         /\ Explored(at[s], current[s], status[s], Ran(profiles), failed[s])
         /\ Penalized(at[s], penalty[s], Ran(profiles))
<1>1. Typed /\ SessionFits(s)
  BY DEF Sound
<1>2. /\ at[s] \in Local
      /\ status[s] \in [State -> Status] /\ penalty[s] \in [State -> 0 .. Top]
      /\ original[s] \in [State -> State \union {None}]
      /\ current[s] \in State \union {None} /\ known[s] \in SUBSET State
      /\ failed[s] \in SUBSET State /\ todo[s] \in SUBSET State
      /\ profiles \in Seq(State)
  BY <1>1 DEF Typed
<1>3. /\ Matched(at[s], Suited(at[s].state, status[s]))
      /\ Read(at[s], Picked(profiles, Suited(at[s].state, status[s])), known[s])
      /\ known[s] \subseteq Ran(profiles)
      /\ Explored(at[s], current[s], status[s], Ran(profiles), failed[s])
      /\ Penalized(at[s], penalty[s], Ran(profiles))
  BY <1>1 DEF SessionFits, Fits
<1>4. at[s].pc # "idle" => at[s].state \in State
  BY <1>3 DEF Matched
<1>5. /\ Bank = Ran(profiles)
      /\ Comparable(s, at[s].state) = Picked(profiles, Suited(at[s].state, status[s]))
      /\ Listed(s, at[s].state) = Ran(Comparable(s, at[s].state))
  BY <1>1, BankIs
<1>6. /\ Comparable(s, at[s].state) \in Seq(State)
      /\ Ran(Comparable(s, at[s].state)) = Ran(profiles) \intersect Suited(at[s].state, status[s])
  BY <1>2, <1>5, PickedType
<1> QED
  BY <1>2, <1>3, <1>4, <1>5, <1>6

(* Duplicates have originals, to one session.                              *)
Originals(s) ==
  \A h \in State : penalty[s][h] = Top =>
    LET k == original[s][h]
    IN  /\ k # None /\ (k = current[s] \/ status[s][k] \in {"exploring", "explored"})
        /\ Equivalent(h, k)

LEMMA KnownOriginals ==
  ASSUME Sound, NEW s \in Session
  PROVE  Originals(s)
BY DEF Sound, SessionFits, Fits, Originals

LEMMA SoundGet ==
  ASSUME Sound, NEW s \in Session, Get(s)
  PROVE  Sound'
<1> DEFINE l == at[s]
           h == l.state
           S == Suited(h, status[s])
           m == at'[s]
<1>k. /\ l \in Local /\ l.pc = "get" /\ h \in State /\ Matched(l, S)
      /\ Ran(Picked(profiles, S)) = Ran(profiles) \intersect S
      /\ known'[s] = Ran(Picked(profiles, S)) /\ Picked(profiles, S) \in Seq(State)
      /\ Explored(l, current[s], status[s], Ran(profiles), failed[s])
      /\ Penalized(l, penalty[s], Ran(profiles)) /\ Bank = Ran(profiles)
      /\ known[s] \in SUBSET State
  BY Known DEF Get, Sound, Typed
<1>l. l = Registering(h) /\ l.skip = 0 /\ l.seen = 0 /\ l.best = None /\ l.confidence = 0
  BY <1>k DEF Matched, Registering, Idle
<1>u. UNCHANGED <<graph, session, failures, failed>>
  BY DEF Get
<1>1. m \in Local /\ at' = [at EXCEPT ![s] = m] /\
      \/ /\ h \in Bank /\ m = [l EXCEPT !.pc = "done", !.reason = "already_registered"]
      \/ /\ h \notin Bank /\ m = [l EXCEPT !.pc = "store", !.reason = "empty_or_unusable_profile"]
      \/ /\ h \notin Bank /\ m = [l EXCEPT !.pc = "page"]
  <2>1. at \in [Session -> Local]
    BY DEF Sound, Typed
  <2>2. /\ [l EXCEPT !.pc = "done", !.reason = "already_registered"] \in Local
        /\ [l EXCEPT !.pc = "store", !.reason = "empty_or_unusable_profile"] \in Local
        /\ [l EXCEPT !.pc = "page"] \in Local
    BY <1>k DEF Local, Pc, Reason
  <2> QED
    BY <2>1, <2>2 DEF Get, Becomes
<1>2. Alone(s) /\ Fronted
  BY <1>u DEF Sound, Typed, Alone, Fronted, Get, Becomes, graph, session
<1>3. Typed'
  <2>1. at' \in [Session -> Local]
    BY <1>1 DEF Sound, Typed
  <2>2. Ran(Picked(profiles, S)) \subseteq State
    BY <1>k DEF Ran
  <2>3. known' \in [Session -> SUBSET State]
    <3>1. known' = [known EXCEPT ![s] = known'[s]]
      BY DEF Sound, Typed, Get
    <3>2. known \in [Session -> SUBSET State]
      BY DEF Sound, Typed
    <3>3. known'[s] \in SUBSET State
      BY <1>k, <2>2
    <3> HIDE DEF S, h, l, m
    <3> QED
      BY <3>1, <3>2, <3>3
  <2> QED
    BY <1>u, <2>1, <2>3 DEF Sound, Typed, graph, session
<1>4. SessionFits(s)'
  <2>1. /\ m \in Local /\ m.state = h /\ m.skip = 0 /\ m.seen = 0 /\ m.best = None /\ m.confidence = 0
        /\ \/ h \in Bank /\ m.pc = "done" /\ m.reason = "already_registered"
           \/ h \notin Bank /\ m.pc = "store" /\ m.reason = "empty_or_unusable_profile"
           \/ h \notin Bank /\ m.pc = "page"
    BY <1>1, <1>k, <1>l DEF Local
  <2> HIDE DEF m
  <2>2. Matched(m, S)
    BY <1>k, <2>1, BankFacts DEF Matched
  <2>3. Read(m, Picked(profiles, S), known'[s])
    BY <1>k, <2>1 DEF Read
  <2>4. known'[s] \subseteq Ran(profiles)
    BY <1>k
  <2>5. Explored(m, current[s], status[s], Ran(profiles), failed[s])
    BY <1>k, <2>1 DEF Explored
  <2>6. Penalized(m, penalty[s], Ran(profiles))
    <3>1. h \notin Ran(profiles) => penalty[s][h] = 0
      <4>1. penalty[s][h] \in 0 .. Top /\ Top \in Nat
        BY <1>k, Known, BankFacts
      <4> QED
        BY <1>k, <4>1 DEF Penalized
    <3> QED
      BY <1>k, <2>1, <3>1 DEF Penalized
  <2>7. Originals(s)
    BY KnownOriginals
  <2> HIDE DEF S
  <2>8. SessionFits(s)' <=> Fits(m, current[s], status[s], penalty[s], original[s], profiles,
                                 known'[s], failed[s])
    BY <1>u DEF SessionFits, graph, session, m
  <2>9. Suited(m.state, status[s]) = S
    BY <2>1 DEF S
  <2> QED
    BY <2>2, <2>3, <2>4, <2>5, <2>6, <2>7, <2>8, <2>9 DEF Fits, Originals
<1> QED
  BY <1>2, <1>3, <1>4, OthersFit

(* The verdict on the best match of all that counts.                       *)
LEMMA VerdictIs ==
  ASSUME NEW l \in Local, l.best = None => l.confidence = 0,
         l.best # None => l.confidence = Confidence[l.state][l.best]
  PROVE  LET m == Decided(l)
         IN  /\ m \in Local /\ m.pc = "store" /\ m.state = l.state /\ m.skip = l.skip
             /\ m.seen = l.seen /\ m.best = l.best /\ m.confidence = l.confidence
             /\ \/ /\ m.reason \in {"confident_equivalence", "high_similarity_equivalence"}
                   /\ l.best # None /\ Equivalent(l.state, l.best)
                \/ m.reason = "no_equivalence" /\ l.confidence < Bar
<1> DEFINE v == Verdict(l)
           c == l.confidence
<1>1. c \in Nat /\ Bar \in Nat /\ Bar > 0
  BY BankFacts DEF Local
<1>2. \/ /\ v \in {"confident_equivalence", "high_similarity_equivalence"}
         /\ l.best # None /\ Equivalent(l.state, l.best)
      \/ v = "no_equivalence" /\ c < Bar
  <2>1. CASE l.best # None /\ c >= Bar
    <3>0. ~(c < Bar) /\ ~(l.best # None /\ c < Bar /\ <<l.state, l.best>> \in Alike)
      BY <1>1, <2>1
    <3>1. v = "confident_equivalence"
      BY <2>1, <3>0, Zenon DEF Verdict
    <3>2. Equivalent(l.state, l.best)
      BY <2>1 DEF Equivalent
    <3> QED
      BY <2>1, <3>1, <3>2
  <2>2. CASE l.best # None /\ c < Bar /\ <<l.state, l.best>> \in Alike
    <3>1. ~(l.best # None /\ c >= Bar)
      BY <1>1, <2>2
    <3>2. v = "high_similarity_equivalence"
      BY <2>2, <3>1 DEF Verdict
    <3>3. Equivalent(l.state, l.best)
      BY <2>2 DEF Equivalent
    <3> QED
      BY <2>2, <3>2, <3>3
  <2>3. CASE ~(l.best # None /\ c >= Bar) /\ ~(l.best # None /\ c < Bar /\ <<l.state, l.best>> \in Alike)
    <3>1. v = "no_equivalence"
      BY <2>3 DEF Verdict
    <3>2. c < Bar
      BY <1>1, <2>3
    <3> QED
      BY <3>1, <3>2
  <2> QED
    BY <2>1, <2>2, <2>3
<1> HIDE DEF v, c
<1>3. v \in Reason
  BY <1>2 DEF Reason
<1>4. Decided(l) = [l EXCEPT !.pc = "store", !.reason = v]
  BY DEF Decided, v
<1>5. "store" \in Pc
  BY DEF Pc
<1>6. /\ Decided(l) \in Local /\ Decided(l).pc = "store" /\ Decided(l).state = l.state
      /\ Decided(l).skip = l.skip /\ Decided(l).seen = l.seen /\ Decided(l).best = l.best
      /\ Decided(l).confidence = l.confidence /\ Decided(l).reason = v
  BY <1>3, <1>4, <1>5 DEF Local
<1> QED
  BY <1>2, <1>6 DEF c

LEMMA SoundPage ==
  ASSUME Sound, NEW s \in Session, Page(s)
  PROVE  Sound'
<1> DEFINE l == at[s]
           h == l.state
           S == Suited(h, status[s])
           list == Comparable(s, h)
           there == known[s]
           last == PageEnd(list, l.skip)
           c == CompareAll(l, list, last)
           m == at'[s]
<1>k. /\ l \in Local /\ l.pc = "page" /\ h \in State /\ Matched(l, S) /\ Read(l, list, there)
      /\ list = Picked(profiles, S) /\ list \in Seq(State) /\ Ran(list) = Ran(profiles) \intersect S
      /\ there \subseteq Ran(profiles)
      /\ Explored(l, current[s], status[s], Ran(profiles), failed[s])
      /\ Penalized(l, penalty[s], Ran(profiles))
  <2>1. l.pc = "page"
    BY DEF Page
  <2>2. l \in Local /\ h \in State /\ there \subseteq Ran(profiles)
    BY <2>1, Known
  <2>3. Matched(l, S) /\ Read(l, list, there) /\ list \in Seq(State)
    BY Known
  <2>4. list = Picked(profiles, S) /\ Ran(list) = Ran(profiles) \intersect S
    BY Known
  <2>5. /\ Explored(l, current[s], status[s], Ran(profiles), failed[s])
        /\ Penalized(l, penalty[s], Ran(profiles))
    BY Known
  <2> QED
    BY <2>1, <2>2, <2>3, <2>4, <2>5
<1>u. UNCHANGED <<graph, session, failures, history>>
  BY DEF Page
<1>b. /\ MaxSize \in Nat /\ Batch \in Nat /\ Batch > 0 /\ Len(list) \in Nat /\ l.skip \in Nat
      /\ l.skip <= Len(list) /\ l.skip <= MaxSize /\ l.seen = l.skip
      /\ there \subseteq Ran(list)
      /\ \A i \in 1 .. l.skip : list[i] \in there => Confidence[h][list[i]] <= l.confidence
  <2>1. MaxSize \in Nat /\ Batch \in Nat /\ Batch > 0
    BY BankFacts
  <2>2. l.skip \in Nat /\ Len(list) \in Nat
    BY <1>k DEF Local
  <2> QED
    BY <1>k, <2>1, <2>2 DEF Matched, Read
<1>c. /\ last \in Nat /\ l.skip <= last /\ last <= Len(list)
      /\ last < l.skip + Batch => last = Len(list)
      /\ last >= l.skip + Batch => last = l.skip + Batch
  BY <1>b DEF PageEnd
<1>d. Compares(l, l, list, there, l.skip, S)
  BY <1>b, <1>k DEF Compares, Matched
<1> HIDE DEF last
<1>e. Compares(c, l, list, there, last, S)
  <2> HIDE DEF S, l, list, there
  <2>1. Ran(list) \subseteq S /\ list \in Seq(State) /\ l.skip \in Nat
    BY <1>k, <1>b
  <2> QED
    BY <1>c, <1>d, <2>1, CompareAllIs
<1>m. at' = [at EXCEPT ![s] = IF last < l.skip + Batch \/ c.seen > MaxSize THEN Decided(c)
                              ELSE [c EXCEPT !.skip = @ + Batch]]
  BY DEF Page, Becomes, last
<1>a. at \in [Session -> Local]
  BY DEF Sound, Typed
<1>n. m = IF last < l.skip + Batch \/ c.seen > MaxSize THEN Decided(c)
          ELSE [c EXCEPT !.skip = @ + Batch]
  BY <1>a, <1>m
<1> HIDE DEF c
<1>f. /\ c \in Local /\ c.state = h /\ c.skip = l.skip /\ c.pc = "page" /\ c.reason = l.reason
      /\ c.seen = IF last <= MaxSize THEN last ELSE MaxSize + 1
      /\ c.best = None => c.confidence = 0
      /\ c.best # None => c.best \in S /\ c.confidence = Confidence[c.state][c.best]
      /\ \A i \in 1 .. last : i <= MaxSize /\ list[i] \in there =>
           Confidence[c.state][list[i]] <= c.confidence
  BY <1>e, <1>k DEF Compares
<1> HIDE DEF m, list, there, S
<1>1. /\ m \in Local /\ m.state = h /\ Matched(m, S) /\ Read(m, list, there)
      /\ m.pc \in {"page", "store"} /\ (m.pc = "store" => m.reason # "comparison_error")
  <2>1. CASE last < l.skip + Batch \/ c.seen > MaxSize
    <3>1. m = Decided(c)
      BY <1>n, <2>1
    <3>2. /\ m \in Local /\ m.pc = "store" /\ m.state = h /\ m.skip = c.skip
          /\ m.seen = c.seen /\ m.best = c.best /\ m.confidence = c.confidence
          /\ \/ /\ m.reason \in {"confident_equivalence", "high_similarity_equivalence"}
                /\ c.best # None /\ Equivalent(h, c.best)
             \/ m.reason = "no_equivalence" /\ c.confidence < Bar
      BY <1>e, <1>f, <3>1, VerdictIs
    <3>3. Matched(m, S)
      BY <1>e, <1>f, <1>k, <3>2 DEF Matched
    <3>4. \A i \in DOMAIN list : i <= MaxSize => i \in 1 .. last
      <4>1. last = Len(list) \/ last > MaxSize
        BY <1>b, <1>c, <1>f, <2>1
      <4>2. DOMAIN list = 1 .. Len(list)
        BY <1>k
      <4>3. last \in Nat /\ Len(list) \in Nat /\ MaxSize \in Nat /\ last <= Len(list)
        BY <1>b, <1>c
      <4>4. ASSUME NEW i \in DOMAIN list, i <= MaxSize PROVE i \in 1 .. last
        <5> DEFINE n == Len(list)
        <5>1. i \in 1 .. n
          BY <4>2
        <5> HIDE DEF n
        <5>2. last = n \/ last > MaxSize
          BY <4>1 DEF n
        <5> QED
          BY <4>3, <4>4, <5>1, <5>2
      <4> QED
        BY <4>4
    <3>5. ASSUME m.reason = "no_equivalence", NEW i \in DOMAIN list, i <= MaxSize, list[i] \in there
          PROVE  Confidence[h][list[i]] < Bar
      <4>1. i \in 1 .. last /\ Confidence[h][list[i]] <= c.confidence /\ c.confidence < Bar
        BY <1>e, <1>f, <3>2, <3>4, <3>5
      <4>2. list[i] \in State
        BY <1>k, <3>5
      <4>3. Confidence[h][list[i]] \in Nat /\ c.confidence \in Nat /\ Bar \in Nat
        BY <1>f, <1>k, <4>2, BankFacts DEF Local
      <4> QED
        BY <4>1, <4>3
    <3>6. Read(m, list, there)
      BY <1>b, <3>2, <3>5 DEF Read
    <3> QED
      BY <3>2, <3>3, <3>6
  <2>2. CASE ~(last < l.skip + Batch \/ c.seen > MaxSize)
    <3>1. last = l.skip + Batch /\ last <= MaxSize /\ c.seen = last
      BY <1>b, <1>c, <1>f, <2>2
    <3>2. m = [c EXCEPT !.skip = last]
      <4>1. c.skip + Batch = last
        BY <1>f, <3>1
      <4> QED
        BY <1>n, <2>2, <4>1
    <3>3. /\ m \in Local /\ m.pc = "page" /\ m.state = h /\ m.skip = last
          /\ m.seen = c.seen /\ m.best = c.best /\ m.confidence = c.confidence
      BY <1>c, <1>e, <1>f, <3>2 DEF Local
    <3>4. Matched(m, S)
      BY <1>e, <1>f, <1>k, <3>1, <3>3 DEF Matched
    <3>5. \A i \in 1 .. last : list[i] \in there => Confidence[h][list[i]] <= m.confidence
      <4>1. \A i \in 1 .. last : i <= MaxSize
        BY <1>b, <1>c, <3>1
      <4>2. \A i \in 1 .. last : i <= MaxSize /\ list[i] \in there =>
              Confidence[h][list[i]] <= c.confidence
        BY <1>f
      <4> QED
        BY <3>3, <4>1, <4>2
    <3>6. Read(m, list, there)
      BY <1>b, <1>c, <3>3, <3>5 DEF Read
    <3> QED
      BY <3>3, <3>4, <3>6
  <2> QED
    BY <2>1, <2>2
<1>2. Alone(s) /\ Fronted
  BY <1>a, <1>m, <1>u DEF Alone, Fronted, graph, session, history
<1>3. Typed'
  <2>1. at' \in [Session -> Local]
    BY <1>1, <1>a, <1>m, <1>n
  <2> QED
    BY <1>u, <2>1 DEF Sound, Typed, graph, session, history
<1>4. SessionFits(s)'
  <2>1. Explored(m, current[s], status[s], Ran(profiles), failed[s])
    BY <1>1, <1>k DEF Explored
  <2>2. Penalized(m, penalty[s], Ran(profiles))
    BY <1>1, <1>k DEF Penalized
  <2>3. Originals(s)
    BY KnownOriginals
  <2>4. SessionFits(s)' <=> Fits(m, current[s], status[s], penalty[s], original[s], profiles,
                                 there, failed[s])
    BY <1>u DEF SessionFits, graph, session, history, m, there
  <2>5. Suited(m.state, status[s]) = S
    BY <1>1 DEF S
  <2> QED
    BY <1>1, <1>k, <2>1, <2>2, <2>3, <2>4, <2>5 DEF Fits, Originals
<1> QED
  BY <1>2, <1>3, <1>4, OthersFit

LEMMA SoundStore ==
  ASSUME Sound, NEW s \in Session, Store(s)
  PROVE  Sound'
<1> DEFINE l == at[s]
           h == l.state
           S == Suited(h, status[s])
           ps == profiles'
           there == known[s]
           m == at'[s]
           F(r, qs) == Fits(r, current[s], status[s], penalty[s], original[s], qs, there, failed[s])
<1>1. l.pc = "store" /\ UNCHANGED <<status, penalty, original, session, failures, history>>
  BY DEF Store
<1>2. l \in Local /\ h \in State /\ Bank = Ran(profiles) /\ profiles \in Seq(State)
  BY <1>1, Known
<1>3. Typed /\ F(l, profiles)
  BY DEF Sound, SessionFits
<1>4. /\ at' = [at EXCEPT ![s] = [l EXCEPT !.pc = "done"]] /\ m = [l EXCEPT !.pc = "done"]
      /\ m \in Local /\ at' \in [Session -> Local]
  <2>1. "done" \in Pc
    BY DEF Pc
  <2>2. [l EXCEPT !.pc = "done"] \in Local
    BY <1>2, <2>1 DEF Local
  <2>3. at \in [Session -> Local]
    BY <1>3 DEF Typed
  <2> QED
    BY <2>2, <2>3 DEF Store, Becomes
<1>5. /\ m.pc = "done" /\ m.state = h /\ m.skip = l.skip /\ m.seen = l.seen /\ m.best = l.best
      /\ m.confidence = l.confidence /\ m.reason = l.reason
  BY <1>2, <1>4 DEF Local
<1>6. \/ h \in Ran(profiles) /\ ps = profiles
      \/ h \notin Ran(profiles) /\ ps = <<h>> \o profiles
  BY <1>2 DEF Store
<1> HIDE DEF F, m, ps
<1>7. ps \in Seq(State) /\ h \in Ran(ps)
  <2>1. CASE h \in Ran(profiles)
    BY <1>2, <1>6, <2>1
  <2>2. CASE h \notin Ran(profiles)
    <3>1. ps = <<h>> \o profiles /\ Ran(<<h>> \o profiles) = Ran(profiles) \union {h}
      BY <1>2, <1>6, <2>2, RanMore
    <3>2. <<h>> \o profiles \in Seq(State)
      BY <1>2
    <3> QED
      BY <3>1, <3>2
  <2> QED
    BY <2>1, <2>2
<1>8. F(l, ps)
  <2>1. CASE h \in Ran(profiles)
    BY <1>3, <1>6, <2>1
  <2>2. CASE h \notin Ran(profiles)
    <3>1. F(l, <<h>> \o profiles)
      BY <1>2, <1>3, <2>2, OneMore DEF F
    <3> QED
      BY <1>6, <2>2, <3>1
  <2> QED
    BY <2>1, <2>2
<1>9. Alone(s) /\ Fronted
  <2>1. at \in [Session -> Local]
    BY <1>3 DEF Typed
  <2> QED
    BY <1>1, <1>2, <1>4, <1>6, <2>1 DEF Alone, Fronted, session, history, ps
<1>10. Typed'
  <2>1. \A i, j \in DOMAIN ps : ps[i] = ps[j] => i = j
    <3>0. \A i, j \in DOMAIN profiles : profiles[i] = profiles[j] => i = j
      BY <1>3 DEF Typed
    <3>1. CASE h \in Ran(profiles)
      BY <1>6, <3>0, <3>1
    <3>2. CASE h \notin Ran(profiles)
      <4> DEFINE n == Len(profiles)
                 qs == profiles
      <4>0. ps = <<h>> \o profiles
        BY <1>6, <3>2
      <4>1. /\ n \in Nat /\ DOMAIN profiles = 1 .. n /\ DOMAIN ps = 1 .. n + 1 /\ ps[1] = h
            /\ \A i \in 1 .. n + 1 : i # 1 => i - 1 \in 1 .. n /\ ps[i] = profiles[i - 1]
        BY <1>2, <4>0
      <4>2. \A i \in 1 .. n : profiles[i] # h
        BY <3>2, <4>1 DEF Ran
      <4> HIDE DEF n
      <4>3. ASSUME NEW i \in 1 .. n + 1, NEW j \in 1 .. n + 1, ps[i] = ps[j] PROVE i = j
        <5>1. CASE i = 1 \/ j = 1
          BY <4>1, <4>2, <4>3, <5>1
        <5>2. CASE i # 1 /\ j # 1
          <6>1. /\ i - 1 \in 1 .. n /\ j - 1 \in 1 .. n
                /\ ps[i] = profiles[i - 1] /\ ps[j] = profiles[j - 1]
            BY <4>1, <5>2
          <6>2. i - 1 = j - 1
            BY <3>0, <4>1, <4>3, <6>1
          <6> QED
            BY <4>1, <6>2
        <5> QED
          BY <5>1, <5>2
      <4> QED
        BY <4>1, <4>3
    <3> QED
      BY <3>1, <3>2
  <2> QED
    BY <1>1, <1>3, <1>4, <1>7, <2>1 DEF Typed, session, history, ps
<1>11. SessionFits(s)'
  <2>1. /\ Matched(l, S) /\ Read(l, Picked(ps, S), there) /\ there \subseteq Ran(ps)
        /\ Explored(l, current[s], status[s], Ran(ps), failed[s])
        /\ Penalized(l, penalty[s], Ran(ps))
    BY <1>1, <1>8 DEF F, Fits
  <2>2. Matched(m, S)
    BY <1>1, <1>5, <2>1 DEF Matched
  <2>3. Read(m, Picked(ps, S), there)
    BY <1>1, <1>5, <2>1 DEF Read
  <2>4. Explored(m, current[s], status[s], Ran(ps), failed[s])
    BY <1>1, <1>5, <1>7, <2>1 DEF Explored
  <2>5. Penalized(m, penalty[s], Ran(ps))
    <3>1. l.reason \notin {"none", "already_registered", "comparison_error"}
      BY <1>1, <2>1 DEF Matched
    <3> QED
      BY <1>1, <1>5, <2>1 DEF Penalized
  <2>6. Originals(s)
    BY KnownOriginals
  <2>7. SessionFits(s)' <=> F(m, ps)
    BY <1>1 DEF SessionFits, session, history, m, ps, F
  <2>8. Suited(m.state, status[s]) = S
    BY <1>5
  <2> HIDE DEF S
  <2>9. F(m, ps)
    BY <2>1, <2>2, <2>3, <2>4, <2>5, <2>6, <2>8 DEF F, Fits, Originals
  <2> QED
    BY <2>7, <2>9
<1> QED
  BY <1>9, <1>10, <1>11, OthersFit

LEMMA SoundFailOpen ==
  ASSUME Sound, NEW s \in Session, FailOpen(s)
  PROVE  Sound'
<1> DEFINE l == at[s]
           h == l.state
           m == at'[s]
<1>1. /\ l.pc \in {"get", "page", "store"} /\ UNCHANGED <<graph, session, known>>
      /\ failures' = failures - 1 /\ failures > 0
      /\ failed' = [failed EXCEPT ![s] = @ \union {h}]
  BY DEF FailOpen
<1>2. /\ l \in Local /\ h \in State /\ failed[s] \in SUBSET State
      /\ Explored(l, current[s], status[s], Ran(profiles), failed[s])
      /\ Penalized(l, penalty[s], Ran(profiles))
  BY <1>1, Known
<1>3. Typed /\ at \in [Session -> Local] /\ failed \in [Session -> SUBSET State]
  BY DEF Sound, Typed
<1>4. m \in Local /\ at' = [at EXCEPT ![s] = m]
      /\ m = [Idle EXCEPT !.pc = "done", !.state = h, !.reason = "comparison_error"]
  <2>1. "done" \in Pc /\ "comparison_error" \in Reason /\ h \in State \union {None}
    BY <1>2 DEF Pc, Reason
  <2>2. [Idle EXCEPT !.pc = "done", !.state = h, !.reason = "comparison_error"] \in Local
    BY <2>1, Starts DEF Local
  <2> QED
    BY <1>3, <2>2 DEF FailOpen, Becomes
<1>5. /\ m.pc = "done" /\ m.state = h /\ m.reason = "comparison_error"
      /\ m.best = None /\ m.confidence = 0
  BY <1>4 DEF Idle
<1>6. failed'[s] = failed[s] \union {h} /\ failed' \in [Session -> SUBSET State]
  BY <1>1, <1>2, <1>3
<1> HIDE DEF m
<1>7. Alone(s) /\ Fronted
  BY <1>1, <1>3, <1>4 DEF Alone, Fronted, graph, session
<1>8. Typed'
  <2>1. at' \in [Session -> Local]
    BY <1>3, <1>4
  <2>2. failures' \in Nat
    BY <1>1, <1>3 DEF Typed
  <2> QED
    BY <1>1, <1>3, <1>6, <2>1, <2>2 DEF Typed, graph, session
<1>9. SessionFits(s)'
  <2> DEFINE S == Suited(h, status[s])
  <2>1. Matched(m, S) /\ Read(m, Picked(profiles, S), known[s])
    BY <1>2, <1>5 DEF Matched, Read
  <2>2. known[s] \subseteq Ran(profiles)
    BY Known
  <2>3. Explored(m, current[s], status[s], Ran(profiles), failed'[s])
    BY <1>2, <1>5, <1>6 DEF Explored
  <2>4. Penalized(m, penalty[s], Ran(profiles))
    BY <1>2, <1>5 DEF Penalized
  <2>5. Originals(s)
    BY KnownOriginals
  <2>6. SessionFits(s)' <=> Fits(m, current[s], status[s], penalty[s], original[s], profiles,
                                 known[s], failed'[s])
    BY <1>1 DEF SessionFits, graph, session, m
  <2>7. Suited(m.state, status[s]) = S
    BY <1>5
  <2> HIDE DEF S
  <2> QED
    BY <2>1, <2>2, <2>3, <2>4, <2>5, <2>6, <2>7 DEF Fits, Originals
<1> QED
  BY <1>7, <1>8, <1>9, OthersFit

-----------------------------------------------------------------------------
(* The crawl.                                                              *)

(* Where a session is between registrations, or at the start of one, its   *)
(* registration asks for nothing.                                          *)
LEMMA CrawlSound ==
  ASSUME Sound, NEW s \in Session, NEW r, r = Idle \/ \E h \in State : r = Registering(h),
         at' = [at EXCEPT ![s] = r], Alone(s), profiles' = profiles, Typed',
         known'[s] = known[s], failed'[s] = failed[s],
         Explored(r, current'[s], status'[s], Ran(profiles), failed[s]),
         \A h \in State : penalty'[s][h] > 0 => h \in Ran(profiles),
         Originals(s)'
  PROVE  Sound'
<1> DEFINE S == Suited(r.state, status'[s])
<1>1. at'[s] = r
  BY DEF Sound, Typed
<1>2. Matched(r, S) /\ Read(r, Picked(profiles, S), known[s]) /\ r.pc \in {"idle", "get"}
  BY Fresh
<1>3. Penalized(r, penalty'[s], Ran(profiles))
  BY <1>2 DEF Penalized
<1>4. known[s] \subseteq Ran(profiles)
  BY Known
<1>5. SessionFits(s)' <=> Fits(r, current'[s], status'[s], penalty'[s], original'[s], profiles,
                               known[s], failed[s])
  BY <1>1 DEF SessionFits
<1> HIDE DEF S
<1>6. SessionFits(s)'
  BY <1>2, <1>3, <1>4, <1>5 DEF Fits, Originals, S
<1> QED
  BY <1>6, OthersFit DEF Fronted

LEMMA SoundExplore ==
  ASSUME Sound, NEW s \in Session, Explore(s)
  PROVE  Sound'
<1>1. /\ at[s].pc = "done" /\ at[s].state = current[s] /\ at' = [at EXCEPT ![s] = Idle]
      /\ UNCHANGED <<profiles, status, penalty, original, current, todo, failures, known, failed>>
  BY DEF Explore, Becomes, graph, session, history
<1>2. /\ Explored(at[s], current[s], status[s], Ran(profiles), failed[s])
      /\ Penalized(at[s], penalty[s], Ran(profiles))
  BY Known
<1>3. Typed
  BY DEF Sound
<1>4. Alone(s)
  BY <1>1, <1>3 DEF Alone, Typed
<1>5. Typed'
  <2>1. at' \in [Session -> Local]
    BY <1>1, <1>3, Starts DEF Typed
  <2> QED
    BY <1>1, <1>3, <2>1 DEF Typed
<1>6. Explored(Idle, current'[s], status'[s], Ran(profiles), failed[s])
  <2>1. Idle.pc = "idle"
    BY DEF Idle
  <2> QED
    BY <1>1, <1>2, <2>1 DEF Explored
<1>7. \A h \in State : penalty'[s][h] > 0 => h \in Ran(profiles)
  BY <1>1, <1>2 DEF Penalized
<1>8. Originals(s)'
  BY <1>1, KnownOriginals DEF Originals
<1> QED
  BY <1>1, <1>4, <1>5, <1>6, <1>7, <1>8, CrawlSound

LEMMA SoundMeet ==
  ASSUME Sound, NEW s \in Session, NEW h \in State, Meet(s, h)
  PROVE  Sound'
<1> DEFINE r == Registering(h)
<1>1. /\ at[s].pc = "idle" /\ todo' = [todo EXCEPT ![s] = @ \ {h}] /\ at' = [at EXCEPT ![s] = r]
      /\ UNCHANGED <<profiles, status, penalty, original, current, failures, known, failed>>
  BY DEF Meet, Becomes, graph, history
<1>2. /\ Explored(at[s], current[s], status[s], Ran(profiles), failed[s])
      /\ Penalized(at[s], penalty[s], Ran(profiles))
  BY Known
<1>3. Typed
  BY DEF Sound
<1>r. r \in Local /\ r.pc = "get" /\ r.state = h
  BY Starts DEF Registering, Idle
<1> HIDE DEF r
<1>4. Alone(s)
  BY <1>1, <1>3 DEF Alone, Typed
<1>5. Typed'
  <2>1. at' \in [Session -> Local]
    BY <1>1, <1>3, <1>r DEF Typed
  <2>2. todo' \in [Session -> SUBSET State]
    BY <1>1, <1>3 DEF Typed
  <2> QED
    BY <1>1, <1>3, <2>1, <2>2 DEF Typed
<1>6. Explored(r, current'[s], status'[s], Ran(profiles), failed[s])
  BY <1>1, <1>2, <1>r DEF Explored
<1>7. \A k \in State : penalty'[s][k] > 0 => k \in Ran(profiles)
  BY <1>1, <1>2 DEF Penalized
<1>8. Originals(s)'
  BY <1>1, KnownOriginals DEF Originals
<1>9. r = Registering(h)
  BY DEF r
<1> QED
  BY <1>1, <1>4, <1>5, <1>6, <1>7, <1>8, <1>9, CrawlSound

LEMMA SoundRunDeferred ==
  ASSUME Sound, NEW s \in Session, NEW h \in State, RunDeferred(s, h)
  PROVE  Sound'
<1> DEFINE r == Registering(h)
<1>1. /\ at[s].pc = "idle" /\ at' = [at EXCEPT ![s] = r]
      /\ UNCHANGED <<profiles, status, penalty, original, current, todo, failures, known, failed>>
  BY DEF RunDeferred, Becomes, graph, history
<1>2. /\ Explored(at[s], current[s], status[s], Ran(profiles), failed[s])
      /\ Penalized(at[s], penalty[s], Ran(profiles))
  BY Known
<1>3. Typed
  BY DEF Sound
<1>r. r \in Local /\ r.pc = "get" /\ r.state = h
  BY Starts DEF Registering, Idle
<1> HIDE DEF r
<1>4. Alone(s)
  BY <1>1, <1>3 DEF Alone, Typed
<1>5. Typed'
  <2>1. at' \in [Session -> Local]
    BY <1>1, <1>3, <1>r DEF Typed
  <2> QED
    BY <1>1, <1>3, <2>1 DEF Typed
<1>6. Explored(r, current'[s], status'[s], Ran(profiles), failed[s])
  BY <1>1, <1>2, <1>r DEF Explored
<1>7. \A k \in State : penalty'[s][k] > 0 => k \in Ran(profiles)
  BY <1>1, <1>2 DEF Penalized
<1>8. Originals(s)'
  BY <1>1, KnownOriginals DEF Originals
<1>9. r = Registering(h)
  BY DEF r
<1> QED
  BY <1>1, <1>4, <1>5, <1>6, <1>7, <1>8, <1>9, CrawlSound

LEMMA SoundMarkExplored ==
  ASSUME Sound, NEW s \in Session, MarkExplored(s)
  PROVE  Sound'
<1> DEFINE c == current[s]
<1>1. /\ at[s].pc = "idle" /\ c # None
      /\ status' = [status EXCEPT ![s][c] = "explored"]
      /\ current' = [current EXCEPT ![s] = None] /\ todo' = [todo EXCEPT ![s] = {}]
      /\ UNCHANGED <<profiles, penalty, original, at, failures, known, failed>>
  BY DEF MarkExplored, history
<1>2. /\ Explored(at[s], c, status[s], Ran(profiles), failed[s])
      /\ Penalized(at[s], penalty[s], Ran(profiles))
      /\ Matched(at[s], Suited(at[s].state, status[s]))
      /\ c \in State /\ status[s] \in [State -> Status]
  BY <1>1, Known
<1>3. Typed
  BY DEF Sound
<1>4. at[s] = Idle /\ at' = [at EXCEPT ![s] = Idle]
  <2>1. at[s] = Idle
    BY <1>1, <1>2 DEF Matched
  <2> QED
    BY <1>1, <1>3, <2>1 DEF Typed
<1>5. /\ status' \in [Session -> [State -> Status]]
      /\ \A k \in State : status'[s][k] = IF k = c THEN "explored" ELSE status[s][k]
  <2>1. "explored" \in Status
    BY DEF Status
  <2> QED
    BY <1>1, <1>2, <1>3, <2>1 DEF Typed
<1>6. /\ current' \in [Session -> State \union {None}] /\ todo' \in [Session -> SUBSET State]
      /\ current'[s] = None
  BY <1>1, <1>3 DEF Typed
<1>7. Alone(s)
  BY <1>1, <1>3 DEF Alone, Typed
<1>8. Typed'
  BY <1>1, <1>3, <1>5, <1>6 DEF Typed
<1>9. Explored(Idle, current'[s], status'[s], Ran(profiles), failed[s])
  BY <1>1, <1>2, <1>4, <1>5, <1>6, BankFacts DEF Explored
<1>10. \A k \in State : penalty'[s][k] > 0 => k \in Ran(profiles)
  BY <1>1, <1>2 DEF Penalized
<1>11. Originals(s)'
  <2>1. original[s] \in [State -> State \union {None}]
    BY <1>3 DEF Typed
  <2> QED
    BY <1>1, <1>5, <1>6, <2>1, KnownOriginals DEF Originals
<1> QED
  BY <1>1, <1>4, <1>7, <1>8, <1>9, <1>10, <1>11, CrawlSound

LEMMA SoundClaim ==
  ASSUME Sound, NEW s \in Session, NEW h \in State, Claim(s, h)
  PROVE  Sound'
<1> DEFINE r == Registering(h)
<1>1. /\ at[s].pc = "idle" /\ current[s] = None
      /\ status' = [status EXCEPT ![s][h] = "exploring"]
      /\ current' = [current EXCEPT ![s] = h] /\ todo' = [todo EXCEPT ![s] = Links[h]]
      /\ at' = [at EXCEPT ![s] = r]
      /\ UNCHANGED <<profiles, penalty, original, failures, known, failed>>
  BY DEF Claim, Becomes, history
<1>2. /\ Explored(at[s], None, status[s], Ran(profiles), failed[s])
      /\ Penalized(at[s], penalty[s], Ran(profiles))
      /\ status[s] \in [State -> Status]
  BY <1>1, Known
<1>3. Typed
  BY DEF Sound
<1>r. r \in Local /\ r.pc = "get" /\ r.state = h
  BY Starts DEF Registering, Idle
<1> HIDE DEF r
<1>4. /\ status' \in [Session -> [State -> Status]]
      /\ \A k \in State : status'[s][k] = IF k = h THEN "exploring" ELSE status[s][k]
  <2>1. "exploring" \in Status
    BY DEF Status
  <2> QED
    BY <1>1, <1>2, <1>3, <2>1 DEF Typed
<1>5. /\ current' \in [Session -> State \union {None}] /\ todo' \in [Session -> SUBSET State]
      /\ current'[s] = h
  <2>1. Links[h] \in SUBSET State
    BY BankFacts
  <2> QED
    BY <1>1, <1>3, <2>1 DEF Typed
<1>6. Alone(s)
  BY <1>1, <1>3 DEF Alone, Typed
<1>7. Typed'
  <2>1. at' \in [Session -> Local]
    BY <1>1, <1>3, <1>r DEF Typed
  <2> QED
    BY <1>1, <1>3, <1>4, <1>5, <2>1 DEF Typed
<1>8. Explored(r, current'[s], status'[s], Ran(profiles), failed[s])
  BY <1>1, <1>2, <1>4, <1>5, <1>r, BankFacts DEF Explored
<1>9. \A k \in State : penalty'[s][k] > 0 => k \in Ran(profiles)
  BY <1>1, <1>2 DEF Penalized
<1>10. Originals(s)'
  <2>1. original[s] \in [State -> State \union {None}]
    BY <1>3 DEF Typed
  <2> QED
    BY <1>1, <1>4, <2>1, KnownOriginals DEF Originals
<1>11. r = Registering(h)
  BY DEF r
<1> QED
  BY <1>1, <1>6, <1>7, <1>8, <1>9, <1>10, <1>11, CrawlSound

(* What a registration tells about the priority of its state.              *)
LEMMA PenaltyIs ==
  ASSUME Sound, NEW s \in Session, at[s].pc = "done"
  PROVE  LET l == at[s]
             p == Penalty(s)
             suitable == Suited(l.state, status[s])
         IN  \/ p = None
             \/ /\ p = Top /\ l.best \in suitable /\ Equivalent(l.state, l.best)
                /\ l.state \in Ran(profiles) /\ penalty[s][l.state] = 0
             \/ /\ p \in 0 .. Top /\ p # Top /\ (p > 0 => l.state \in Ran(profiles))
                /\ l.reason # "comparison_error" => penalty[s][l.state] = 0
<1> DEFINE l == at[s]
           S == Suited(l.state, status[s])
           p == Penalty(s)
<1>1. /\ l \in Local /\ l.state \in State /\ Matched(l, S)
      /\ Explored(l, current[s], status[s], Ran(profiles), failed[s])
      /\ Penalized(l, penalty[s], Ran(profiles))
  BY Known
<1>2. CASE l.reason = "already_registered" \/ IsFirst(s)
  BY <1>2 DEF Penalty
<1>3. CASE /\ ~(l.reason = "already_registered" \/ IsFirst(s))
           /\ l.reason \in {"confident_equivalence", "high_similarity_equivalence"}
  <2>1. p = Top
    BY <1>3 DEF Penalty
  <2>2. l.best # None /\ Equivalent(l.state, l.best) /\ l.best \in S
    BY <1>1, <1>3 DEF Matched
  <2>3. l.state \in Ran(profiles)
    BY <1>1, <1>3 DEF Explored
  <2>4. penalty[s][l.state] = 0
    BY <1>1, <1>3 DEF Penalized
  <2> QED
    BY <2>1, <2>2, <2>3, <2>4
<1>4. CASE /\ ~(l.reason = "already_registered" \/ IsFirst(s))
           /\ l.reason \notin {"confident_equivalence", "high_similarity_equivalence"}
  <2>1. p = l.confidence
    BY <1>4 DEF Penalty
  <2>2. l.confidence \in 0 .. Top /\ Top \in Nat /\ Bar \in 1 .. Top
    BY <1>1, BankFacts DEF Local
  <2>3. l.reason \in {"no_equivalence", "comparison_error", "empty_or_unusable_profile"}
    BY <1>1, <1>4 DEF Local, Reason, Matched
  <2>4. l.confidence # Top /\ (l.confidence > 0 => l.reason # "comparison_error")
    BY <1>1, <2>2, <2>3 DEF Matched
  <2>5. l.reason # "comparison_error" => l.state \in Ran(profiles)
    BY <1>1 DEF Explored
  <2>6. l.reason # "comparison_error" => penalty[s][l.state] = 0
    BY <1>1, <1>4 DEF Penalized
  <2> QED
    BY <2>1, <2>2, <2>4, <2>5, <2>6
<1> QED
  BY <1>2, <1>3, <1>4

LEMMA SoundEnqueue ==
  ASSUME Sound, NEW s \in Session, Enqueue(s)
  PROVE  Sound' /\ \A t \in Session, h \in State :
                     penalty'[t][h] < penalty[t][h] => at[t].reason = "comparison_error"
<1> DEFINE l == at[s]
           h == l.state
           p == Penalty(s)
           S == Suited(h, status[s])
<1>1. /\ l.pc = "done" /\ h # current[s] /\ at' = [at EXCEPT ![s] = Idle]
      /\ status' = [status EXCEPT ![s][h] = IF @ = "explored" THEN @ ELSE "pending"]
      /\ penalty' = [penalty EXCEPT ![s][h] = IF p = None THEN @ ELSE p]
      /\ original' = [original EXCEPT ![s][h] = IF p = None \/ l.best = None THEN @ ELSE l.best]
      /\ UNCHANGED <<profiles, current, todo, failures, known, failed>>
  BY DEF Enqueue, Becomes, session, history
<1>2. /\ Explored(l, current[s], status[s], Ran(profiles), failed[s])
      /\ Penalized(l, penalty[s], Ran(profiles)) /\ h \in State /\ l \in Local
      /\ status[s] \in [State -> Status] /\ penalty[s] \in [State -> 0 .. Top]
      /\ original[s] \in [State -> State \union {None}]
  BY <1>1, Known
<1>3. Typed
  BY DEF Sound
<1>4. \/ p = None
      \/ /\ p = Top /\ l.best \in S /\ Equivalent(h, l.best) /\ h \in Ran(profiles)
         /\ penalty[s][h] = 0
      \/ /\ p \in 0 .. Top /\ p # Top /\ (p > 0 => h \in Ran(profiles))
         /\ l.reason # "comparison_error" => penalty[s][h] = 0
  BY <1>1, PenaltyIs
<1>5. Top \in Nat /\ None \notin State
  BY BankFacts
<1> HIDE DEF p
<1>6. /\ status' \in [Session -> [State -> Status]]
      /\ \A k \in State : status'[s][k] = IF k = h /\ status[s][h] # "explored" THEN "pending"
                                         ELSE status[s][k]
  <2>1. "pending" \in Status /\ "explored" \in Status
    BY DEF Status
  <2>2. status \in [Session -> [State -> Status]]
    BY <1>3 DEF Typed
  <2> HIDE DEF l, h
  <2>3. status' = [status EXCEPT ![s][h] = IF @ = "explored" THEN @ ELSE "pending"] /\ h \in State
    BY <1>1, <1>2
  <2>4. status' \in [Session -> [State -> Status]]
    BY <2>1, <2>2, <2>3
  <2>5. status'[s] = [status[s] EXCEPT ![h] = IF status[s][h] = "explored" THEN status[s][h]
                                              ELSE "pending"]
    BY <2>2, <2>3
  <2>6. \A k \in State : status'[s][k] = IF k = h /\ status[s][h] # "explored" THEN "pending"
                                         ELSE status[s][k]
    BY <1>2, <2>5
  <2> QED
    BY <2>4, <2>6
<1>7. /\ penalty' \in [Session -> [State -> 0 .. Top]]
      /\ \A k \in State : penalty'[s][k] = IF k = h /\ p # None THEN p ELSE penalty[s][k]
  <2>1. p = None \/ p \in 0 .. Top
    BY <1>4, <1>5
  <2>2. penalty \in [Session -> [State -> 0 .. Top]]
    BY <1>3 DEF Typed
  <2> HIDE DEF l, h
  <2> QED
    BY <1>1, <1>2, <2>1, <2>2
<1>8. /\ original' \in [Session -> [State -> State \union {None}]]
      /\ \A k \in State : original'[s][k] = IF k = h /\ p # None /\ l.best # None THEN l.best
                                           ELSE original[s][k]
  <2>1. l.best \in State \union {None}
    BY <1>2 DEF Local
  <2>2. original \in [Session -> [State -> State \union {None}]]
    BY <1>3 DEF Typed
  <2> DEFINE best == l.best
  <2>3. original' = [original EXCEPT ![s][h] = IF p = None \/ best = None THEN @ ELSE best]
    BY <1>1
  <2> HIDE DEF l, h, best
  <2>4. best \in State \union {None}
    BY <2>1 DEF best
  <2>5. /\ original' \in [Session -> [State -> State \union {None}]]
        /\ \A k \in State : original'[s][k] = IF k = h /\ p # None /\ best # None THEN best
                                             ELSE original[s][k]
    BY <1>2, <2>2, <2>3, <2>4
  <2> QED
    BY <2>5 DEF best
<1>9. Alone(s)
  BY <1>1, <1>3 DEF Alone, Typed
<1>10. Typed'
  <2>1. at' \in [Session -> Local]
    BY <1>1, <1>3, Starts DEF Typed
  <2> QED
    BY <1>1, <1>3, <1>6, <1>7, <1>8, <2>1 DEF Typed
<1>11. Explored(Idle, current'[s], status'[s], Ran(profiles), failed[s])
  <2>1. Idle.pc = "idle"
    BY DEF Idle
  <2> QED
    BY <1>1, <1>2, <1>6, <2>1 DEF Explored
<1>12. \A k \in State : penalty'[s][k] > 0 => k \in Ran(profiles)
  <2>1. p # None => (p > 0 => h \in Ran(profiles))
    BY <1>4
  <2> QED
    BY <1>2, <1>7, <2>1 DEF Penalized
<1>13. Originals(s)'
  <2> SUFFICES ASSUME NEW k \in State, penalty'[s][k] = Top
               PROVE  LET o == original'[s][k]
                      IN  /\ o # None /\ (o = current'[s] \/ status'[s][o] \in {"exploring", "explored"})
                          /\ Equivalent(k, o)
    BY DEF Originals
  <2>1. CASE k = h /\ p # None
    <3>1. p = Top
      BY <1>7, <2>1
    <3>2. l.best \in S /\ Equivalent(h, l.best)
      BY <1>4, <2>1, <3>1
    <3>3. l.best \in State /\ l.best # h /\ status[s][l.best] \in {"exploring", "explored"}
      BY <3>2 DEF Suited
    <3>4. original'[s][k] = l.best /\ status'[s][l.best] = status[s][l.best]
      BY <1>5, <1>6, <1>8, <2>1, <3>3
    <3> QED
      BY <1>5, <2>1, <3>2, <3>3, <3>4
  <2>2. CASE ~(k = h /\ p # None)
    <3> DEFINE o == original[s][k]
    <3>1. original'[s][k] = o /\ penalty[s][k] = Top
      BY <1>7, <1>8, <2>2
    <3>2. o # None /\ (o = current[s] \/ status[s][o] \in {"exploring", "explored"}) /\ Equivalent(k, o)
      BY <3>1, KnownOriginals DEF Originals
    <3>3. o \in State
      BY <1>2, <3>2
    <3>4. status[s][o] = "exploring" => o = current[s]
      BY <1>2, <3>3 DEF Explored
    <3> HIDE DEF o, l, h
    <3>5. status[s][o] = "explored" => status'[s][o] = "explored"
      BY <1>6, <3>3
    <3> QED
      BY <1>1, <3>1, <3>2, <3>4, <3>5
  <2> QED
    BY <2>1, <2>2
<1>14. Sound'
  BY <1>1, <1>9, <1>10, <1>11, <1>12, <1>13, CrawlSound
<1>15. ASSUME NEW t \in Session, NEW k \in State, penalty'[t][k] < penalty[t][k]
       PROVE  at[t].reason = "comparison_error"
  <2>1. penalty[t][k] \in 0 .. Top /\ penalty'[t][k] \in 0 .. Top
    BY <1>3, <1>7 DEF Typed
  <2>2. t = s
    <3>1. t # s => penalty'[t] = penalty[t]
      BY <1>9 DEF Alone
    <3> QED
      BY <1>5, <1>15, <2>1, <3>1
  <2>3. k = h /\ p # None
    BY <1>5, <1>7, <1>15, <2>1, <2>2
  <2>4. penalty[s][h] # 0
    BY <1>5, <1>15, <2>1, <2>2, <2>3
  <2> QED
    BY <1>4, <2>2, <2>3, <2>4
<1> QED
  BY <1>14, <1>15

-----------------------------------------------------------------------------
(* The invariant, and what follows from it.                                *)

LEMMA NextSound ==
  ASSUME Sound, Next
  PROVE  Sound'
<1>1. PICK s \in Session :
        \/ Get(s) \/ Page(s) \/ Store(s) \/ FailOpen(s)
        \/ Enqueue(s) \/ Explore(s) \/ MarkExplored(s)
        \/ \E h \in State : Claim(s, h) \/ Meet(s, h) \/ RunDeferred(s, h)
  BY DEF Next
<1>2. CASE Get(s)
  BY <1>2, SoundGet
<1>3. CASE Page(s)
  BY <1>3, SoundPage
<1>4. CASE Store(s)
  BY <1>4, SoundStore
<1>5. CASE FailOpen(s)
  BY <1>5, SoundFailOpen
<1>6. CASE Enqueue(s)
  BY <1>6, SoundEnqueue
<1>7. CASE Explore(s)
  BY <1>7, SoundExplore
<1>8. CASE MarkExplored(s)
  BY <1>8, SoundMarkExplored
<1>9. CASE \E h \in State : Claim(s, h)
  BY <1>9, SoundClaim
<1>10. CASE \E h \in State : Meet(s, h)
  BY <1>10, SoundMeet
<1>11. CASE \E h \in State : RunDeferred(s, h)
  BY <1>11, SoundRunDeferred
<1> QED
  BY <1>1, <1>2, <1>3, <1>4, <1>5, <1>6, <1>7, <1>8, <1>9, <1>10, <1>11

LEMMA Stutters ==
  ASSUME Sound, UNCHANGED vars
  PROVE  Sound'
<1>1. UNCHANGED <<profiles, status, penalty, original, current, todo, at, failures, known, failed>>
  BY DEF vars, graph, session, history
<1>2. Typed'
  BY <1>1 DEF Sound, Typed
<1>3. ASSUME NEW s \in Session PROVE SessionFits(s)'
  BY <1>1 DEF Sound, SessionFits
<1> QED
  BY <1>2, <1>3 DEF Sound

LEMMA AlwaysSound == Spec => []Sound
<1>1. Init => Sound
  BY InitSound
<1>2. Sound /\ [Next]_vars => Sound'
  BY NextSound, Stutters
<1> QED
  BY <1>1, <1>2, PTL DEF Spec

LEMMA SoundVerdicts ==
  ASSUME Sound
  PROVE  VerdictsAreRight
<1>1. TypeOK
  <2>1. ASSUME NEW s \in Session
        PROVE  /\ at[s].reason \in Reason /\ at[s].seen \in 0 .. MaxSize + 1
               /\ at[s].best = None => at[s].confidence = 0
    <3>1. at[s] \in Local /\ Matched(at[s], Suited(at[s].state, status[s]))
      BY Known
    <3> QED
      BY <3>1 DEF Local, Matched
  <2> QED
    BY <2>1 DEF TypeOK, Sound, Typed, Status
<1>2. DuplicatesHaveOriginals
  BY KnownOriginals DEF Originals, DuplicatesHaveOriginals
<1>3. NothingIsSkipped
  <2> SUFFICES ASSUME NEW s \in Session, at[s].pc = "done", at[s].reason = "no_equivalence",
                      NEW k \in known[s], Confidence[at[s].state][k] >= Bar
               PROVE  \E i \in DOMAIN Comparable(s, at[s].state) :
                        Comparable(s, at[s].state)[i] = k /\ i > MaxSize
    BY DEF NothingIsSkipped
  <2> DEFINE h == at[s].state
             list == Comparable(s, h)
  <2>1. Read(at[s], list, known[s]) /\ list \in Seq(State) /\ h \in State /\ k \in State
    BY Known
  <2>2. /\ known[s] \subseteq Ran(list)
        /\ \A i \in DOMAIN list :
             i <= MaxSize /\ list[i] \in known[s] => Confidence[h][list[i]] < Bar
    BY <2>1 DEF Read
  <2>3. PICK i \in DOMAIN list : list[i] = k
    BY <2>2 DEF Ran
  <2>4. Confidence[h][k] \in 0 .. Top /\ Bar \in Nat /\ Top \in Nat /\ MaxSize \in Nat
    BY <2>1, BankFacts
  <2>5. ~(i <= MaxSize)
    BY <2>2, <2>3, <2>4
  <2>6. i \in Nat
    BY <2>1
  <2> QED
    BY <2>3, <2>4, <2>5, <2>6
<1>4. ExploredIsComparable
  <2> SUFFICES ASSUME NEW s \in Session, NEW h \in State, h \notin failed[s],
                      status[s][h] \in {"exploring", "explored"},
                      h = current[s] => at[s].pc = "idle"
               PROVE  h \in Bank
    BY DEF ExploredIsComparable
  <2>1. Explored(at[s], current[s], status[s], Ran(profiles), failed[s]) /\ Bank = Ran(profiles)
    BY Known
  <2>2. h \in Bank \/ (h = current[s] /\ at[s].pc \in {"get", "page", "store"})
    BY <2>1 DEF Explored
  <2> QED
    BY <2>2
<1> QED
  BY <1>1, <1>2, <1>3, <1>4 DEF VerdictsAreRight

(* Verdicts are right (_register_persisted, iter_semantic_profiles and     *)
(* add_to_queue): a state found to be new was compared with every state    *)
(* whose profile was there when its registration began, however the pages  *)
(* shift while they are read; a state is put off only for one that the     *)
(* session has explored; and what is explored is there to compare with.    *)
THEOREM VerdictsHold == Spec => []VerdictsAreRight
<1>1. Sound => VerdictsAreRight
  BY SoundVerdicts
<1> QED
  BY <1>1, AlwaysSound, PTL

(* A penalty is not lost when the state is met again (ADD_STATE keeps what *)
(* it is not given), except when the comparison fails.                     *)
THEOREM PenaltiesLast == Spec => PenaltyIsKept
<1> DEFINE Kept == \A s \in Session, h \in State :
                     penalty'[s][h] < penalty[s][h] => at[s].reason = "comparison_error"
<1>1. Sound /\ [Next]_vars => [Kept]_vars
  <2> SUFFICES ASSUME Sound, Next PROVE Kept
    OBVIOUS
  <2>1. PICK s \in Session :
          \/ Get(s) \/ Page(s) \/ Store(s) \/ FailOpen(s)
          \/ Enqueue(s) \/ Explore(s) \/ MarkExplored(s)
          \/ \E h \in State : Claim(s, h) \/ Meet(s, h) \/ RunDeferred(s, h)
    BY DEF Next
  <2>2. CASE Enqueue(s)
    BY <2>2, SoundEnqueue
  <2>3. CASE UNCHANGED penalty
    <3>1. \A t \in Session, h \in State : penalty[t][h] \in 0 .. Top
      BY DEF Sound, Typed
    <3>2. Top \in Nat
      BY BankFacts
    <3> QED
      BY <2>3, <3>1, <3>2
  <2> QED
    BY <2>1, <2>2, <2>3
       DEF Get, Page, Store, FailOpen, Explore, MarkExplored, Claim, Meet, RunDeferred,
           graph
<1> QED
  BY <1>1, AlwaysSound, PTL DEF Spec, PenaltyIsKept
=============================================================================
