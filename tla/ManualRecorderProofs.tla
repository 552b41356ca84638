------------------------ MODULE ManualRecorderProofs ------------------------
(***************************************************************************)
(* Theorems about ManualRecorder, for all pages, events and bounds: the    *)
(* indexes of the recorder never dangle, what is stored is a path, the     *)
(* client is sent what the user sees of it, and what is recorded is true:  *)
(* it leads to the page shown, and its steps happened.                     *)
(***************************************************************************)
EXTENDS ManualRecorder, SequenceTheorems, WellFoundedInduction, TLAPS

IsSequence(s) == \E S : s \in Seq(S)

IsTransition(t) ==
  /\ DOMAIN t = {"id", "source", "target", "acts"}
  /\ t.source \in Nat /\ t.target \in Nat

(* Steps from state c on are in the order in which things happened, and    *)
(* none leads beyond state last.                                           *)
InOrder(steps, c, last) ==
  \A k \in 1 .. Len(steps) : steps[k].source >= c =>
    /\ steps[k].source <= steps[k].target /\ steps[k].target <= last
    /\ \A l \in k + 1 .. Len(steps) : steps[k].target <= steps[l].source

Segment ==
  [active : BOOLEAN, first : Nat, base : Nat, checkpoint : Pages \union {NoPage}, revision : Nat]

ListsTyped ==
  /\ states \in Seq(Pages) /\ IsSequence(transitions)
  /\ \A k \in 1 .. Len(transitions) : IsTransition(transitions[k])
  /\ current \in Nat /\ candidate \in Nat /\ segment \in Segment

(* The segment starts no earlier than the candidate, and its steps are the *)
(* ones that start from there on.                                          *)
SegmentFits ==
  /\ segment.base <= Len(transitions)
  /\ segment.active =>
       /\ candidate <= segment.first /\ segment.first <= current
       /\ segment.checkpoint = states[segment.first]
       /\ \A k \in 1 .. segment.base : transitions[k].source < candidate
       /\ \A k \in segment.base + 1 .. Len(transitions) : transitions[k].source >= segment.first

ListsFit ==
  /\ ListsTyped
  /\ 1 <= candidate /\ candidate <= current /\ current <= Len(states)
  /\ InOrder(transitions, candidate, current)
  /\ SegmentFits

TasksTyped ==
  /\ page \in Pages /\ rewinding \in BOOLEAN /\ flush.changed \in BOOLEAN
  /\ DOMAIN loop = {"op", "at"}
  /\ DOMAIN plan = {"keep", "target", "page"}

(* While a path is replayed nothing is flushed, so that the indexes of the *)
(* plan stay those of the segment.                                         *)
PlanFits ==
  loop.at \in {"replay", "activate", "commit"} =>
    /\ rewinding /\ segment.active /\ flush = NoFlush
    /\ plan.keep \in 0 .. Len(transitions) - segment.base
    /\ plan.target = IF plan.keep = 0 THEN segment.first
                     ELSE transitions[segment.base + plan.keep].target
    /\ loop.at # "replay" => plan.page \in Pages

Bounded == ListsFit /\ TasksTyped /\ PlanFits

-----------------------------------------------------------------------------
(* What an assignment to the last element of a sequence does.              *)
LEMMA LastReplaced ==
  ASSUME NEW s, IsSequence(s), s # <<>>, NEW u, NEW r, r = [s EXCEPT ![Len(s)] = u]
  PROVE  /\ IsSequence(r) /\ Len(s) \in Nat \ {0} /\ Len(r) = Len(s) /\ r[Len(s)] = u
         /\ \A k \in 1 .. Len(s) : k # Len(s) => r[k] = s[k]
<1>1. PICK S : s \in Seq(S)
  BY DEF IsSequence
<1>2. s \in Seq(S \union {u}) /\ Len(s) \in Nat \ {0} /\ DOMAIN s = 1 .. Len(s)
  BY <1>1
<1>3. u \in S \union {u} /\ Len(s) \in 1 .. Len(s)
  BY <1>2
<1>4. /\ r \in Seq(S \union {u}) /\ Len(r) = Len(s)
      /\ \A j \in 1 .. Len(s) : r[j] = IF j = Len(s) THEN u ELSE s[j]
  BY <1>2, <1>3, ExceptSeq
<1>5. IsSequence(r)
  BY <1>4 DEF IsSequence
<1> QED
  BY <1>2, <1>3, <1>4, <1>5

LEMMA Appended ==
  ASSUME NEW s, IsSequence(s), NEW u, NEW r, r = Append(s, u)
  PROVE  /\ IsSequence(r) /\ Len(s) \in Nat /\ Len(r) = Len(s) + 1 /\ r[Len(s) + 1] = u
         /\ \A k \in 1 .. Len(s) : r[k] = s[k]
<1>1. PICK S : s \in Seq(S)
  BY DEF IsSequence
<1>2. s \in Seq(S \union {u}) /\ u \in S \union {u}
  BY <1>1
<1>3. Append(s, u) \in Seq(S \union {u})
  BY <1>2
<1> QED
  BY <1>2, <1>3 DEF IsSequence

LEMMA CutShort ==
  ASSUME NEW s, IsSequence(s), NEW n \in 0 .. Len(s), NEW r, r = SubSeq(s, 1, n)
  PROVE  /\ IsSequence(r) /\ Len(r) = n /\ \A k \in 1 .. n : r[k] = s[k]
<1>1. PICK S : s \in Seq(S)
  BY DEF IsSequence
<1>2. SubSeq(s, 1, n) \in Seq(S)
  BY <1>1
<1>3. Len(SubSeq(s, 1, n)) = n /\ \A k \in 1 .. n : SubSeq(s, 1, n)[k] = s[k]
  BY <1>1
<1> QED
  BY <1>2, <1>3 DEF IsSequence

LEMMA SequenceLen ==
  ASSUME NEW s, IsSequence(s)
  PROVE  Len(s) \in Nat /\ DOMAIN s = 1 .. Len(s) /\ (s = <<>> <=> Len(s) = 0)
<1>1. PICK S : s \in Seq(S)
  BY DEF IsSequence
<1> QED
  BY <1>1

(* The steps of the segment are those after its base.                      *)
LEMMA EntriesAre ==
  ASSUME IsSequence(transitions), segment.base \in Nat, segment.base <= Len(transitions),
         segment.active
  PROVE  /\ Len(Entries) = Len(transitions) - segment.base
         /\ DOMAIN Entries = 1 .. Len(transitions) - segment.base
         /\ \A k \in DOMAIN Entries : Entries[k] = transitions[segment.base + k]
         /\ (Entries = <<>> <=> Len(transitions) = segment.base)
<1>1. PICK S : transitions \in Seq(S)
  BY DEF IsSequence
<1>2. Entries \in Seq(S) /\ Len(Entries) = Len(transitions) - segment.base
  BY <1>1 DEF Entries
<1>3. \A k \in 1 .. Len(Entries) : Entries[k] = transitions[segment.base + k]
  BY <1>1, <1>2 DEF Entries
<1>4. DOMAIN Entries = 1 .. Len(Entries) /\ (Entries = <<>> <=> Len(Entries) = 0)
  BY <1>2
<1> QED
  BY <1>2, <1>3, <1>4

LEMMA LeastOf ==
  ASSUME NEW T, T \subseteq Nat, T # {}
  PROVE  \E x \in T : \A y \in T : x <= y
<1>1. PICK x \in T : \A y \in T : <<y, x>> \notin OpToRel(<, Nat)
  BY WFMin, NatLessThanWellFounded, Zenon
<1>2. \A y \in T : ~ (y < x)
  BY <1>1, Zenon DEF OpToRel
<1> QED
  BY <1>2

(* CountBefore counts the steps before the first that starts at or after   *)
(* the given state.                                                        *)
LEMMA CountBeforeIs ==
  ASSUME ListsTyped, NEW i \in Nat
  PROVE  /\ CountBefore(i) \in 0 .. Len(transitions)
         /\ \A k \in 1 .. CountBefore(i) : transitions[k].source < i
         /\ CountBefore(i) < Len(transitions) => transitions[CountBefore(i) + 1].source >= i
<1> DEFINE later == {k \in DOMAIN transitions : transitions[k].source >= i}
<1>1. Len(transitions) \in Nat /\ DOMAIN transitions = 1 .. Len(transitions)
  BY SequenceLen DEF ListsTyped
<1>2. \A k \in 1 .. Len(transitions) : transitions[k].source \in Nat
  BY DEF ListsTyped, IsTransition
<1>3. CASE later = {}
  <2>1. CountBefore(i) = Len(transitions)
    BY <1>3 DEF CountBefore
  <2> QED
    BY <1>1, <1>2, <1>3, <2>1
<1>4. CASE later # {}
  <2>1. \E k \in later : \A l \in later : k <= l
    <3>1. later \subseteq Nat
      BY <1>1
    <3> HIDE DEF later
    <3> QED
      BY <3>1, <1>4, LeastOf
  <2> DEFINE first == CHOOSE k \in later : \A l \in later : k <= l
  <2>2. first \in later /\ \A l \in later : first <= l
    BY <2>1
  <2>3. CountBefore(i) = first - 1
    BY <1>4 DEF CountBefore
  <2> HIDE DEF first
  <2> QED
    BY <1>1, <1>2, <2>2, <2>3
<1> QED
  BY <1>3, <1>4

-----------------------------------------------------------------------------
(* A change of page is attributed: nothing, the last step leads on, or a   *)
(* step is added.  Order is kept, and nothing else changes.                *)
LEMMA Attributed ==
  ASSUME ListsFit, NEW ts, NEW target \in Nat, current <= target,
         NEW c \in {candidate, current},
         \/ ts = transitions
         \/ /\ transitions # <<>> /\ LastTransition.target = current
            /\ \E u : /\ ts = SetLast(u) /\ IsTransition(u)
                     /\ u.source = LastTransition.source /\ u.target = target
         \/ \E u : /\ ts = Append(transitions, u) /\ IsTransition(u)
                  /\ u.source = current /\ u.target = target
  PROVE  /\ IsSequence(ts) /\ Len(ts) \in Nat /\ Len(transitions) \in Nat
         /\ \A k \in 1 .. Len(ts) : IsTransition(ts[k])
         /\ InOrder(ts, c, target)
         /\ Len(transitions) <= Len(ts) /\ Len(ts) <= Len(transitions) + 1
         /\ \A k \in 1 .. Len(transitions) : ts[k].source = transitions[k].source
         /\ \A k \in Len(transitions) + 1 .. Len(ts) : ts[k].source = current
<1> DEFINE n == Len(transitions)
<1>0. /\ n \in Nat /\ IsSequence(transitions)
      /\ \A k \in 1 .. n : /\ IsTransition(transitions[k])
                           /\ transitions[k].source \in Nat /\ transitions[k].target \in Nat
      /\ current \in Nat /\ candidate \in Nat /\ candidate <= c /\ c \in Nat
      /\ InOrder(transitions, candidate, current)
  BY SequenceLen DEF ListsFit, ListsTyped, IsTransition
<1>1. CASE ts = transitions
  <2>1. InOrder(ts, c, target)
    BY <1>0, <1>1 DEF InOrder
  <2> QED
    BY <1>0, <1>1, <2>1
<1>2. CASE /\ transitions # <<>> /\ LastTransition.target = current
           /\ \E u : /\ ts = SetLast(u) /\ IsTransition(u)
                    /\ u.source = LastTransition.source /\ u.target = target
  <2>1. PICK u : /\ ts = SetLast(u) /\ IsTransition(u)
                 /\ u.source = LastTransition.source /\ u.target = target
    BY <1>2
  <2>2. /\ IsSequence(ts) /\ n \in Nat \ {0} /\ Len(ts) = n /\ ts[n] = u
        /\ \A k \in 1 .. n : k # n => ts[k] = transitions[k]
    <3>1. ts = [transitions EXCEPT ![Len(transitions)] = u]
      BY <2>1 DEF SetLast
    <3>2. IsSequence(transitions) /\ transitions # <<>>
      BY <1>0, <1>2
    <3>3. IsSequence(ts)
      BY <3>1, <3>2, LastReplaced
    <3>4. n \in Nat \ {0} /\ Len(ts) = n
      BY <3>1, <3>2, LastReplaced
    <3>5. ts[n] = u
      BY <3>1, <3>2, LastReplaced
    <3>6. \A k \in 1 .. n : k # n => ts[k] = transitions[k]
      BY <3>1, <3>2, LastReplaced
    <3> QED
      BY <3>3, <3>4, <3>5, <3>6
  <2>3. LastTransition = transitions[n]
    BY DEF LastTransition
  <2>4. InOrder(ts, c, target)
    <3> SUFFICES ASSUME NEW k \in 1 .. n, ts[k].source >= c
        PROVE  /\ ts[k].source <= ts[k].target /\ ts[k].target <= target
               /\ \A l \in k + 1 .. n : ts[k].target <= ts[l].source
      BY <2>2 DEF InOrder
    <3>1. CASE k = n
      <4>1. transitions[n].source >= candidate
        BY <1>0, <2>1, <2>2, <2>3, <3>1
      <4>2. transitions[n].source <= transitions[n].target
        BY <1>0, <2>2, <4>1 DEF InOrder
      <4> QED
        BY <1>0, <1>2, <2>1, <2>2, <2>3, <3>1, <4>2
    <3>2. CASE k # n
      <4>1. ts[k] = transitions[k] /\ transitions[k].source >= candidate
        BY <1>0, <2>2, <3>2
      <4>2. /\ transitions[k].source <= transitions[k].target /\ transitions[k].target <= current
            /\ \A l \in k + 1 .. n : transitions[k].target <= transitions[l].source
        BY <1>0, <4>1 DEF InOrder
      <4>3. \A l \in k + 1 .. n : ts[l].source = transitions[l].source
        BY <2>1, <2>2, <2>3
      <4> QED
        BY <1>0, <4>1, <4>2, <4>3
    <3> QED
      BY <3>1, <3>2
  <2> QED
    BY <1>0, <2>1, <2>2, <2>3, <2>4
<1>3. CASE \E u : /\ ts = Append(transitions, u) /\ IsTransition(u)
                 /\ u.source = current /\ u.target = target
  <2>1. PICK u : /\ ts = Append(transitions, u) /\ IsTransition(u)
                 /\ u.source = current /\ u.target = target
    BY <1>3
  <2>2. /\ IsSequence(ts) /\ Len(ts) = n + 1 /\ ts[n + 1] = u
        /\ \A k \in 1 .. n : ts[k] = transitions[k]
    <3>1. ts = Append(transitions, u)
      BY <2>1
    <3>2. IsSequence(transitions)
      BY <1>0
    <3>3. IsSequence(ts)
      BY <3>1, <3>2, Appended
    <3>4. Len(ts) = n + 1
      BY <3>1, <3>2, Appended
    <3>5. ts[n + 1] = u
      BY <3>1, <3>2, Appended
    <3>6. \A k \in 1 .. n : ts[k] = transitions[k]
      BY <3>1, <3>2, Appended
    <3> QED
      BY <3>3, <3>4, <3>5, <3>6
  <2>3. InOrder(ts, c, target)
    <3> SUFFICES ASSUME NEW k \in 1 .. n + 1, ts[k].source >= c
        PROVE  /\ ts[k].source <= ts[k].target /\ ts[k].target <= target
               /\ \A l \in k + 1 .. n + 1 : ts[k].target <= ts[l].source
      BY <2>2 DEF InOrder
    <3>1. CASE k = n + 1
      BY <1>0, <2>1, <2>2, <3>1
    <3>2. CASE k # n + 1
      <4>1. k \in 1 .. n /\ ts[k] = transitions[k] /\ transitions[k].source >= candidate
        BY <1>0, <2>2, <3>2
      <4>2. /\ transitions[k].source <= transitions[k].target /\ transitions[k].target <= current
            /\ \A l \in k + 1 .. n : transitions[k].target <= transitions[l].source
        BY <1>0, <4>1 DEF InOrder
      <4>3. ASSUME NEW l \in k + 1 .. n + 1 PROVE ts[k].target <= ts[l].source
        <5>1. CASE l = n + 1
          BY <2>1, <2>2, <4>1, <4>2, <5>1
        <5>2. CASE l # n + 1
          <6>1. l \in k + 1 .. n /\ l \in 1 .. n
            BY <1>0, <5>2
          <6> QED
            BY <2>2, <4>1, <4>2, <6>1
        <5> QED
          BY <5>1, <5>2
      <4> QED
        BY <1>0, <4>1, <4>2, <4>3
    <3> QED
      BY <3>1, <3>2
  <2> QED
    BY <1>0, <2>1, <2>2, <2>3
<1> QED
  BY <1>1, <1>2, <1>3

-----------------------------------------------------------------------------
(* A transition that is added, or takes the place of the last one.         *)
LEMMA ExtendedIs ==
  ASSUME ListsTyped, NEW target \in Nat, NEW acts
  PROVE  LET ts == Extended(current, target, acts) IN
         \/ /\ transitions # <<>> /\ LastTransition.target = current
            /\ \E u : /\ ts = SetLast(u) /\ IsTransition(u)
                     /\ u.source = LastTransition.source /\ u.target = target
         \/ \E u : /\ ts = Append(transitions, u) /\ IsTransition(u)
                  /\ u.source = current /\ u.target = target
<1>1. CASE Coalesces(current, acts)
  <2> DEFINE u == [LastTransition EXCEPT !.target = target, !.acts = acts]
  <2>1. transitions # <<>> /\ LastTransition.target = current
    <3>1. Len(transitions) > segment.base /\ segment.base \in Nat
      BY <1>1 DEF Coalesces, LastIsActive, ListsTyped, Segment
    <3> QED
      BY <1>1, <3>1, SequenceLen DEF Coalesces, ListsTyped
  <2>2. IsTransition(LastTransition)
    BY <2>1, SequenceLen DEF ListsTyped, LastTransition
  <2>3. IsTransition(u) /\ u.source = LastTransition.source /\ u.target = target
    BY <2>2 DEF IsTransition
  <2>4. Extended(current, target, acts) = SetLast(u)
    BY <1>1 DEF Extended
  <2> QED
    BY <2>1, <2>3, <2>4
<1>2. CASE ~ Coalesces(current, acts)
  <2> DEFINE u == [id |-> made + 1, source |-> current, target |-> target, acts |-> acts]
  <2>1. IsTransition(u) /\ u.source = current /\ u.target = target
    BY DEF IsTransition, ListsTyped
  <2>2. Extended(current, target, acts) = Append(transitions, u)
    BY <1>2 DEF Extended
  <2> QED
    BY <2>1, <2>2
<1> QED
  BY <1>1, <1>2

LEMMA MergedIs ==
  ASSUME ListsTyped, NEW target \in Nat, Merges(current)
  PROVE  LET ts == SetLast([LastTransition EXCEPT !.target = target]) IN
         /\ transitions # <<>> /\ LastTransition.target = current
         /\ \E u : /\ ts = SetLast(u) /\ IsTransition(u)
                  /\ u.source = LastTransition.source /\ u.target = target
<1> DEFINE u == [LastTransition EXCEPT !.target = target]
<1>1. transitions # <<>> /\ LastTransition.target = current
  BY DEF Merges
<1>2. IsTransition(LastTransition)
  BY <1>1, SequenceLen DEF ListsTyped, LastTransition
<1>3. IsTransition(u) /\ u.source = LastTransition.source /\ u.target = target
  BY <1>2 DEF IsTransition
<1> QED
  BY <1>1, <1>3

LEMMA ListsKept ==
  ASSUME ListsFit, UNCHANGED recording
  PROVE  ListsFit'
BY DEF ListsFit, ListsTyped, InOrder, SegmentFits, recording

(* A snapshot adds at most one state and one step.                         *)
LEMMA SnapshotFits ==
  ASSUME Bounded, TakeSnapshot
  PROVE  ListsFit'
<1> DEFINE grown == IF flush.changed THEN Append(states, page) ELSE states
           target == IF flush.changed THEN Len(grown) ELSE current
           n == Len(transitions)
<1>1. /\ states' = grown /\ current' = target
      /\ candidate' \in {candidate, current} /\ (segment.active => candidate' = candidate)
  BY DEF TakeSnapshot
<1>2. /\ states \in Seq(Pages) /\ current \in Nat /\ candidate \in Nat /\ segment \in Segment
      /\ page \in Pages /\ flush.changed \in BOOLEAN
      /\ 1 <= candidate /\ candidate <= current /\ current <= Len(states)
  BY DEF Bounded, ListsFit, ListsTyped, TasksTyped
<1>3. /\ grown \in Seq(Pages) /\ target \in Nat /\ current <= target /\ target <= Len(grown)
      /\ \A i \in 1 .. Len(states) : grown[i] = states[i]
  BY <1>2
<1> DEFINE implicit == flush.changed /\ flush.events = <<>>
           touched(acts) == IF implicit THEN Merges(current) ELSE acts # <<>>
<1>4. PICK acts :
        /\ transitions' = IF ~touched(acts) THEN transitions
                          ELSE IF implicit
                                 THEN SetLast([LastTransition EXCEPT !.target = target])
                                 ELSE Extended(current, target, acts)
        /\ segment' = IF /\ flush.changed
                         /\ ~((touched(acts) /\ segment.active)
                                /\ Len(transitions') > segment.base)
                        THEN Advanced(target, grown[target]) ELSE segment
  BY Zenon DEF TakeSnapshot
<1> HIDE DEF grown, target
<1>5. \/ transitions' = transitions
      \/ /\ transitions # <<>> /\ LastTransition.target = current
         /\ \E u : /\ transitions' = SetLast(u) /\ IsTransition(u)
                  /\ u.source = LastTransition.source /\ u.target = target
      \/ \E u : /\ transitions' = Append(transitions, u) /\ IsTransition(u)
               /\ u.source = current /\ u.target = target
  BY <1>3, <1>4, MergedIs, ExtendedIs DEF Bounded, ListsFit
<1>6. /\ IsSequence(transitions') /\ Len(transitions') \in Nat /\ n \in Nat
      /\ \A k \in 1 .. Len(transitions') : IsTransition(transitions'[k])
      /\ InOrder(transitions', candidate', target)
      /\ n <= Len(transitions') /\ Len(transitions') <= n + 1
      /\ \A k \in 1 .. n : transitions'[k].source = transitions[k].source
      /\ \A k \in n + 1 .. Len(transitions') : transitions'[k].source = current
  BY <1>1, <1>3, <1>5, Attributed DEF Bounded
<1>7. /\ segment.base <= n /\ segment.base \in Nat /\ segment.active \in BOOLEAN
      /\ segment.active =>
           /\ candidate <= segment.first /\ segment.first <= current /\ segment.first \in Nat
           /\ segment.checkpoint = states[segment.first]
           /\ \A k \in 1 .. segment.base : transitions[k].source < candidate
           /\ \A k \in segment.base + 1 .. n : transitions[k].source >= segment.first
  BY <1>2 DEF Bounded, ListsFit, SegmentFits, Segment
<1>8. CASE segment' = segment
  <2>1. SegmentFits'
    <3>1. segment.base <= Len(transitions')
      BY <1>6, <1>7
    <3> SUFFICES ASSUME segment.active
        PROVE  /\ candidate' <= segment.first /\ segment.first <= target
               /\ segment.checkpoint = grown[segment.first]
               /\ \A k \in 1 .. segment.base : transitions'[k].source < candidate'
               /\ \A k \in segment.base + 1 .. Len(transitions') :
                    transitions'[k].source >= segment.first
      BY <1>1, <1>8, <3>1 DEF SegmentFits
    <3>2. candidate' = candidate /\ segment.first <= target
      BY <1>1, <1>2, <1>3, <1>7
    <3>3. segment.checkpoint = grown[segment.first]
      BY <1>2, <1>3, <1>7
    <3>4. \A k \in 1 .. segment.base : transitions'[k].source < candidate'
      BY <1>6, <1>7, <3>2
    <3>5. ASSUME NEW k \in segment.base + 1 .. Len(transitions')
          PROVE  transitions'[k].source >= segment.first
      <4>1. CASE k \in 1 .. n
        BY <1>6, <1>7, <4>1
      <4>2. CASE k \notin 1 .. n
        <5>1. k \in n + 1 .. Len(transitions')
          BY <1>6, <1>7, <4>2
        <5> QED
          BY <1>2, <1>6, <1>7, <5>1
      <4> QED
        BY <4>1, <4>2
    <3> QED
      BY <1>7, <3>2, <3>3, <3>4, <3>5
  <2> QED
    BY <1>1, <1>2, <1>3, <1>6, <1>8, <2>1 DEF ListsFit, ListsTyped
<1>9. CASE segment' # segment
  <2>1. /\ segment.active /\ Entries = <<>>
        /\ segment' = [segment EXCEPT !.first = target, !.base = n, !.checkpoint = grown[target]]
    BY <1>4, <1>9 DEF Advanced
  <2>2. segment.base = n
    BY <1>6, <1>7, <2>1, EntriesAre DEF Bounded, ListsFit, ListsTyped
  <2>3. Len(transitions') = n
    BY <1>4, <1>6, <1>9, <2>1, <2>2
  <2>4. /\ segment'.active = segment.active /\ segment'.first = target /\ segment'.base = n
        /\ segment'.checkpoint = grown[target] /\ segment' \in Segment
    <3>1. grown[target] \in Pages
      BY <1>2, <1>3
    <3> QED
      BY <1>2, <1>3, <1>6, <2>1, <3>1 DEF Segment
  <2>5. SegmentFits'
    BY <1>1, <1>2, <1>3, <1>6, <1>7, <2>1, <2>2, <2>3, <2>4 DEF SegmentFits
  <2> QED
    BY <1>1, <1>2, <1>3, <1>6, <2>4, <2>5 DEF ListsFit, ListsTyped
<1> QED
  BY <1>8, <1>9

(* If the flush fails, a state may be left behind that nothing leads to.   *)
LEMMA FailureFits ==
  ASSUME Bounded, FlushFails
  PROVE  ListsFit'
<1>1. /\ states \in Seq(Pages) /\ page \in Pages /\ current \in Nat /\ 1 <= candidate
      /\ candidate <= current /\ current <= Len(states) /\ candidate \in Nat
      /\ segment \in Segment /\ ListsFit
  BY DEF Bounded, ListsFit, ListsTyped, TasksTyped
<1>2. /\ states' = states \/ states' = Append(states, page)
      /\ UNCHANGED <<transitions, current, segment>>
      /\ candidate' = candidate \/ (candidate' = current /\ ~segment.active)
  BY DEF FlushFails
<1>3. /\ states' \in Seq(Pages) /\ current <= Len(states')
      /\ \A i \in 1 .. Len(states) : states'[i] = states[i]
      /\ 1 <= candidate' /\ candidate <= candidate' /\ candidate' <= current
      /\ candidate' \in Nat
  BY <1>1, <1>2
<1>4. SegmentFits'
  <2>1. segment.active => segment.first \in 1 .. Len(states)
    BY <1>1 DEF ListsFit, SegmentFits, Segment
  <2> QED
    BY <1>1, <1>2, <1>3, <2>1 DEF ListsFit, SegmentFits
<1>5. ListsTyped' /\ InOrder(transitions, candidate, current)'
  <2>1. \A k \in 1 .. Len(transitions) : transitions[k].source \in Nat
    BY <1>1 DEF ListsFit, ListsTyped, IsTransition
  <2> QED
    BY <1>1, <1>2, <1>3, <2>1 DEF ListsFit, ListsTyped, InOrder
<1> QED
  BY <1>1, <1>2, <1>3, <1>4, <1>5 DEF ListsFit

(* The flow starts with the first step that starts at the candidate or     *)
(* later: because of the order, so do those after it.                      *)
LEMMA StartFits ==
  ASSUME Bounded, StartFlow
  PROVE  ListsFit'
<1> DEFINE n == Len(transitions)
           base == CountBefore(candidate)
<1>1. /\ ListsTyped /\ states \in Seq(Pages) /\ segment \in Segment
      /\ current \in Nat /\ candidate \in Nat /\ 1 <= candidate
      /\ candidate <= current /\ current <= Len(states)
      /\ InOrder(transitions, candidate, current)
      /\ IsSequence(transitions) /\ n \in Nat
  BY SequenceLen DEF Bounded, ListsFit, ListsTyped
<1>2. segment' = [active |-> TRUE, first |-> candidate, base |-> base,
                  checkpoint |-> states[candidate], revision |-> segment.revision + 1]
  <2>1. (IF candidate < current THEN candidate ELSE current) = candidate
    BY <1>1
  <2> QED
    BY <2>1 DEF StartFlow
<1>3. /\ base \in 0 .. n
      /\ \A k \in 1 .. base : transitions[k].source < candidate
      /\ base < n => transitions[base + 1].source >= candidate
  BY <1>1, CountBeforeIs
<1>4. UNCHANGED <<states, transitions, current, candidate>>
  BY DEF StartFlow
<1> HIDE DEF base
<1>5. \A k \in base + 1 .. n : transitions[k].source >= candidate
  <2> SUFFICES ASSUME NEW k \in base + 1 .. n
      PROVE  transitions[k].source >= candidate
    OBVIOUS
  <2>1. base < n /\ base + 1 \in 1 .. n /\ transitions[base + 1].source >= candidate
    BY <1>1, <1>3
  <2>2. CASE k = base + 1
    BY <2>1, <2>2
  <2>3. CASE k # base + 1
    <3>1. k \in (base + 1) + 1 .. n /\ k \in 1 .. n
      BY <1>1, <1>3, <2>3
    <3>2. /\ transitions[base + 1].source <= transitions[base + 1].target
          /\ transitions[base + 1].target <= transitions[k].source
      BY <1>1, <2>1, <3>1 DEF InOrder
    <3>3. /\ transitions[base + 1].source \in Nat /\ transitions[base + 1].target \in Nat
          /\ transitions[k].source \in Nat
      BY <1>1, <2>1, <3>1 DEF ListsTyped, IsTransition
    <3> QED
      BY <1>1, <2>1, <3>2, <3>3
  <2> QED
    BY <2>2, <2>3
<1>6. segment' \in Segment
  <2>1. states[candidate] \in Pages
    BY <1>1
  <2> QED
    BY <1>1, <1>2, <1>3, <2>1 DEF Segment
<1>7. SegmentFits'
  BY <1>1, <1>2, <1>3, <1>4, <1>5 DEF SegmentFits
<1> QED
  BY <1>1, <1>4, <1>6, <1>7 DEF ListsFit, ListsTyped, InOrder

(* A finished flow leaves no steps of a segment, and the candidate is the  *)
(* page shown.                                                             *)
LEMMA FinishFits ==
  ASSUME Bounded, FinishSegment
  PROVE  ListsFit'
<1>1. /\ UNCHANGED <<states, transitions, current>>
      /\ \/ UNCHANGED <<segment, candidate>>
         \/ /\ segment' = [segment EXCEPT !.active = FALSE, !.first = 0,
                                          !.base = Len(transitions)]
            /\ candidate' = IF current = 1 THEN candidate ELSE current
  BY DEF FinishSegment
<1>2. CASE UNCHANGED <<segment, candidate>>
  BY <1>1, <1>2, ListsKept DEF Bounded, ListsFit, ListsTyped, InOrder, SegmentFits
<1>3. CASE /\ segment' = [segment EXCEPT !.active = FALSE, !.first = 0,
                                         !.base = Len(transitions)]
           /\ candidate' = IF current = 1 THEN candidate ELSE current
  <2>1. /\ ListsTyped /\ segment \in Segment /\ Len(transitions) \in Nat
        /\ current \in Nat /\ candidate \in Nat /\ 1 <= candidate
        /\ candidate <= current /\ current <= Len(states)
        /\ InOrder(transitions, candidate, current)
        /\ \A k \in 1 .. Len(transitions) : transitions[k].source \in Nat
    BY SequenceLen DEF Bounded, ListsFit, ListsTyped, IsTransition
  <2>2. /\ segment' \in Segment /\ segment'.active = FALSE
        /\ segment'.base = Len(transitions)
    BY <1>3, <2>1 DEF Segment
  <2>3. /\ candidate' \in Nat /\ candidate <= candidate' /\ candidate' <= current
        /\ 1 <= candidate'
    BY <1>3, <2>1
  <2>4. InOrder(transitions, candidate', current)
    BY <2>1, <2>3 DEF InOrder
  <2>5. SegmentFits'
    BY <1>1, <2>1, <2>2 DEF SegmentFits
  <2>6. ListsTyped'
    BY <1>1, <2>1, <2>2, <2>3 DEF ListsTyped
  <2>7. InOrder(transitions, candidate, current)'
    BY <1>1, <2>4 DEF InOrder
  <2> QED
    BY <1>1, <2>1, <2>3, <2>5, <2>6, <2>7 DEF ListsFit
<1> QED
  BY <1>1, <1>2, <1>3

LEMMA InitBounded == Init => Bounded
<1> SUFFICES ASSUME Init PROVE Bounded
  OBVIOUS
<1>1. /\ Len(transitions) = 0 /\ IsSequence(transitions) /\ states \in Seq(Pages)
      /\ Len(states) = 1
  <2>1. transitions = <<>> /\ <<>> \in Seq({}) /\ states = <<Home>> /\ Home \in Pages
    BY RecorderAssumption DEF Init
  <2> QED
    BY <2>1 DEF IsSequence
<1>2. segment \in Segment /\ segment.active = FALSE /\ segment.base = 0
  BY DEF Init, Segment
<1>3. ListsTyped
  BY <1>1, <1>2 DEF Init, ListsTyped
<1>4. SegmentFits /\ InOrder(transitions, candidate, current)
  BY <1>1, <1>2 DEF SegmentFits, InOrder
<1>5. TasksTyped
  BY RecorderAssumption DEF Init, TasksTyped, NoFlush, AtRest, NoPlan
<1>6. PlanFits
  BY DEF Init, PlanFits, AtRest
<1> QED
  BY <1>1, <1>3, <1>4, <1>5, <1>6 DEF Bounded, ListsFit, Init

LEMMA NextRevisionIs ==
  ASSUME segment \in Segment, NEW first \in Nat, NEW base \in Nat,
         NEW checkpoint \in Pages \union {NoPage}
  PROVE  LET next == NextRevision(first, base, checkpoint) IN
         /\ next \in Segment /\ next.active = segment.active
         /\ next.first = first /\ next.base = base /\ next.checkpoint = checkpoint
<1> DEFINE moved ==
      [segment EXCEPT !.first = first, !.base = base, !.checkpoint = checkpoint]
<1>1. /\ moved \in Segment /\ moved.active = segment.active
      /\ moved.first = first /\ moved.base = base /\ moved.checkpoint = checkpoint
  BY DEF Segment
<1>2. NextRevision(first, base, checkpoint) = [moved EXCEPT !.revision = @ + 1]
  BY Zenon DEF NextRevision
<1> HIDE DEF moved
<1> QED
  BY <1>1, <1>2 DEF Segment

(* What is kept of the path ends in the state rewound to, or in a new one  *)
(* after it.                                                               *)
LEMMA RewindFits ==
  ASSUME Bounded, CommitRewind
  PROVE  ListsFit'
<1> DEFINE n == Len(transitions)
           cut == segment.base + plan.keep
           kept == SubSeq(transitions, 1, cut)
           rest == IF plan.page = states[plan.target] THEN UpTo(plan.target)
                   ELSE Append(UpTo(plan.target), plan.page)
           last == Len(rest)
<1>1. /\ ListsTyped /\ states \in Seq(Pages) /\ segment \in Segment /\ IsSequence(transitions)
      /\ n \in Nat /\ current \in Nat /\ candidate \in Nat /\ 1 <= candidate
      /\ candidate <= current /\ current <= Len(states)
      /\ InOrder(transitions, candidate, current)
      /\ \A k \in 1 .. n : /\ IsTransition(transitions[k])
                           /\ transitions[k].source \in Nat /\ transitions[k].target \in Nat
      /\ segment.base \in Nat /\ segment.base <= n /\ segment.first \in Nat
  BY SequenceLen DEF Bounded, ListsFit, ListsTyped, IsTransition, SegmentFits, Segment
<1>2. /\ segment.active /\ plan.page \in Pages /\ plan.keep \in 0 .. n - segment.base
      /\ plan.target = IF plan.keep = 0 THEN segment.first ELSE transitions[cut].target
  BY DEF CommitRewind, Bounded, PlanFits
<1>3. /\ candidate <= segment.first /\ segment.first <= current
      /\ segment.checkpoint = states[segment.first]
      /\ \A k \in 1 .. segment.base : transitions[k].source < candidate
      /\ \A k \in segment.base + 1 .. n : transitions[k].source >= segment.first
  BY <1>2 DEF Bounded, ListsFit, SegmentFits
<1>4. cut \in 0 .. n /\ (plan.keep > 0 => cut \in segment.base + 1 .. n /\ cut \in 1 .. n)
  BY <1>1, <1>2
<1>5. \A k \in segment.base + 1 .. n :
        /\ k \in 1 .. n /\ segment.first <= transitions[k].source
        /\ transitions[k].source <= transitions[k].target /\ transitions[k].target <= current
        /\ \A l \in k + 1 .. n : transitions[k].target <= transitions[l].source
  <2> SUFFICES ASSUME NEW k \in segment.base + 1 .. n
      PROVE  /\ k \in 1 .. n /\ segment.first <= transitions[k].source
             /\ transitions[k].source <= transitions[k].target /\ transitions[k].target <= current
             /\ \A l \in k + 1 .. n : transitions[k].target <= transitions[l].source
    OBVIOUS
  <2>1. k \in 1 .. n /\ transitions[k].source \in Nat /\ transitions[k].source >= segment.first
    BY <1>1, <1>3
  <2>2. transitions[k].source >= candidate
    BY <1>1, <1>3, <2>1
  <2> QED
    BY <1>1, <2>1, <2>2 DEF InOrder
<1>6. plan.target \in Nat /\ segment.first <= plan.target /\ plan.target <= current
  <2>1. CASE plan.keep = 0
    BY <1>1, <1>2, <1>3, <2>1
  <2>2. CASE plan.keep # 0
    <3>1. cut \in segment.base + 1 .. n /\ cut \in 1 .. n
      BY <1>1, <1>2, <1>4, <2>2
    <3>2. plan.target = transitions[cut].target
      BY <1>2, <2>2
    <3> HIDE DEF cut, n
    <3>3. /\ segment.first <= transitions[cut].source
          /\ transitions[cut].source <= transitions[cut].target
          /\ transitions[cut].target <= current
      BY <1>5, <3>1
    <3>4. transitions[cut].source \in Nat /\ transitions[cut].target \in Nat
      BY <1>1, <3>1
    <3> QED
      BY <1>1, <3>2, <3>3, <3>4
  <2> QED
    BY <2>1, <2>2
<1>7. /\ rest \in Seq(Pages) /\ last = Len(rest) /\ last \in Nat /\ plan.target <= last
      /\ \A i \in 1 .. plan.target : rest[i] = states[i]
      /\ rest[last] = plan.page
  <2>1. plan.target \in 0 .. Len(states) /\ plan.target \in 1 .. Len(states)
    BY <1>1, <1>3, <1>6
  <2>2. /\ UpTo(plan.target) \in Seq(Pages) /\ Len(UpTo(plan.target)) = plan.target
        /\ \A i \in 1 .. plan.target : UpTo(plan.target)[i] = states[i]
    BY <1>1, <2>1 DEF UpTo
  <2> HIDE DEF UpTo
  <2> QED
    BY <1>2, <2>1, <2>2
<1>8. /\ states' = rest /\ current' = last /\ UNCHANGED candidate
      /\ transitions' = IF plan.keep > 0 THEN [kept EXCEPT ![cut].target = last] ELSE kept
      /\ segment' = IF plan.keep > 0
                      THEN NextRevision(segment.first, segment.base, segment.checkpoint)
                      ELSE NextRevision(last, cut, plan.page)
  BY DEF CommitRewind
<1>9. IsSequence(kept) /\ Len(kept) = cut /\ \A k \in 1 .. cut : kept[k] = transitions[k]
  BY <1>1, <1>4, CutShort
<1> HIDE DEF rest, kept, last
<1>10. CASE plan.keep = 0
  <2>1. /\ transitions' = kept /\ cut = segment.base
        /\ segment' = NextRevision(last, segment.base, plan.page)
    BY <1>1, <1>8, <1>10
  <2>2. /\ segment' \in Segment /\ segment'.first = last /\ segment'.base = segment.base
        /\ segment'.checkpoint = plan.page
    <3>1. /\ segment \in Segment /\ last \in Nat /\ segment.base \in Nat
          /\ plan.page \in Pages \union {NoPage}
      BY <1>1, <1>2, <1>7
    <3>2. segment' = NextRevision(last, segment.base, plan.page)
      BY <2>1
    <3> QED
      BY <3>1, <3>2, NextRevisionIs
  <2>3. \A k \in 1 .. cut : IsTransition(kept[k]) /\ kept[k].source < candidate
    BY <1>1, <1>3, <1>4, <1>9, <2>1
  <2>4. InOrder(kept, candidate, last)
    BY <1>1, <1>9, <2>3 DEF InOrder, IsTransition
  <2>5. SegmentFits'
    BY <1>1, <1>3, <1>4, <1>6, <1>7, <1>8, <1>9, <2>1, <2>2, <2>3 DEF SegmentFits
  <2>6. ListsTyped'
    BY <1>1, <1>7, <1>8, <1>9, <2>1, <2>2, <2>3 DEF ListsTyped
  <2>7. InOrder(transitions, candidate, current)'
    BY <1>8, <2>1, <2>4 DEF InOrder
  <2> QED
    BY <1>1, <1>3, <1>6, <1>7, <1>8, <2>5, <2>6, <2>7 DEF ListsFit
<1>11. CASE plan.keep # 0
  <2> DEFINE u == [transitions[cut] EXCEPT !.target = last]
  <2>0. plan.keep > 0 /\ cut \in segment.base + 1 .. n /\ cut \in 1 .. n /\ plan.keep \in Nat
    BY <1>1, <1>2, <1>4, <1>11
  <2>1. transitions' = [kept EXCEPT ![Len(kept)] = u]
    <3>1. transitions' = [kept EXCEPT ![cut].target = last]
      BY <1>8, <2>0
    <3>2. kept[cut] = transitions[cut]
      BY <1>9, <2>0
    <3>3. transitions' = [kept EXCEPT ![cut] = u]
      BY <3>1, <3>2, Zenon
    <3> QED
      BY <1>9, <3>3
  <2>2. IsSequence(transitions') /\ Len(transitions') = cut /\ transitions'[cut] = u
    <3>1. kept # <<>>
      BY <1>9, <2>0, SequenceLen
    <3>2. IsSequence(transitions')
      BY <1>9, <2>1, <3>1, LastReplaced
    <3>3. Len(transitions') = cut
      BY <1>9, <2>1, <3>1, LastReplaced
    <3>4. transitions'[cut] = u
      BY <1>9, <2>1, <3>1, LastReplaced
    <3> QED
      BY <3>2, <3>3, <3>4
  <2>3. \A k \in 1 .. cut : k # cut => transitions'[k] = transitions[k]
    <3>1. kept # <<>>
      BY <1>9, <2>0, SequenceLen
    <3>2. \A k \in 1 .. cut : k # cut => transitions'[k] = kept[k]
      BY <1>9, <2>1, <3>1, LastReplaced
    <3> QED
      BY <1>9, <3>2
  <2>4. IsTransition(u) /\ u.source = transitions[cut].source /\ u.target = last
    BY <1>1, <1>7, <2>0 DEF IsTransition
  <2> HIDE DEF u, cut
  <2>5. /\ \A k \in 1 .. cut : /\ IsTransition(transitions'[k])
                               /\ transitions'[k].source = transitions[k].source
    <3> SUFFICES ASSUME NEW k \in 1 .. cut
        PROVE  IsTransition(transitions'[k]) /\ transitions'[k].source = transitions[k].source
      OBVIOUS
    <3>1. CASE k = cut
      BY <2>2, <2>4, <3>1
    <3>2. CASE k # cut
      BY <1>1, <2>0, <2>3, <3>2
    <3> QED
      BY <3>1, <3>2
  <2>6. InOrder(transitions', candidate, last)
    <3> SUFFICES ASSUME NEW k \in 1 .. cut, transitions'[k].source >= candidate
        PROVE  /\ transitions'[k].source <= transitions'[k].target
               /\ transitions'[k].target <= last
               /\ \A l \in k + 1 .. cut : transitions'[k].target <= transitions'[l].source
      BY <2>2 DEF InOrder
    <3>1. k \in segment.base + 1 .. n
      <4>1. k \in 1 .. n /\ transitions[k].source >= candidate
        BY <1>1, <2>0, <2>5
      <4>2. ~ transitions[k].source < candidate
        BY <1>1, <4>1
      <4>3. ~ k \in 1 .. segment.base
        BY <1>3, <4>2
      <4> QED
        BY <1>1, <4>1, <4>3
    <3>2. CASE k = cut
      <4>1. transitions'[k].source = transitions[k].source /\ transitions'[k].target = last
        BY <2>2, <2>4, <3>2
      <4>2. transitions[k].source <= transitions[k].target
        BY <1>5, <3>1
      <4>3. plan.target = transitions[k].target
        BY <1>2, <1>11, <3>2
      <4>4. /\ transitions[k].source \in Nat /\ transitions[k].target \in Nat
            /\ plan.target <= last /\ last \in Nat
        BY <1>1, <1>7, <2>0, <3>2
      <4>5. transitions[k].source <= last
        BY <4>2, <4>3, <4>4
      <4> QED
        BY <1>7, <3>2, <4>1, <4>5
    <3>3. CASE k # cut
      <4>1. transitions'[k] = transitions[k] /\ cut \in k + 1 .. n
        BY <2>0, <2>3, <3>3
      <4>2. /\ transitions[k].target <= transitions[cut].source
            /\ transitions[cut].source <= transitions[cut].target
            /\ transitions[cut].target <= last
        BY <1>2, <1>5, <1>7, <1>11, <2>0, <3>1, <4>1
      <4>3. transitions[k].target <= last
        BY <1>1, <1>7, <2>0, <3>1, <4>1, <4>2
      <4>4. ASSUME NEW l \in k + 1 .. cut
            PROVE  transitions[k].target <= transitions'[l].source
        BY <1>5, <2>0, <2>5, <3>1, <4>4
      <4> QED
        BY <1>5, <3>1, <4>1, <4>3, <4>4
    <3> QED
      BY <3>2, <3>3
  <2>7. /\ segment' \in Segment /\ segment'.first = segment.first
        /\ segment'.base = segment.base /\ segment'.checkpoint = segment.checkpoint
    <3>1. segment' = NextRevision(segment.first, segment.base, segment.checkpoint)
      BY <1>8, <2>0
    <3>2. segment.checkpoint \in Pages \union {NoPage}
      BY <1>1 DEF Segment
    <3> QED
      BY <1>1, <3>1, <3>2, NextRevisionIs
  <2>8. SegmentFits'
    <3>1. segment.base <= cut /\ Len(transitions') = cut
      BY <1>1, <2>0, <2>2
    <3>2. candidate <= segment.first /\ segment.first <= last
      BY <1>1, <1>3, <1>6, <1>7
    <3>3. segment.checkpoint = rest[segment.first]
      BY <1>1, <1>3, <1>6, <1>7
    <3>4. \A k \in 1 .. segment.base : transitions'[k].source < candidate
      BY <1>1, <1>3, <2>0, <2>5
    <3>5. \A k \in segment.base + 1 .. cut : transitions'[k].source >= segment.first
      BY <1>1, <1>3, <2>0, <2>5
    <3> QED
      BY <1>8, <2>7, <3>1, <3>2, <3>3, <3>4, <3>5 DEF SegmentFits
  <2>9. ListsTyped'
    BY <1>1, <1>7, <1>8, <2>2, <2>5, <2>7 DEF ListsTyped
  <2>10. InOrder(transitions, candidate, current)'
    BY <1>8, <2>6 DEF InOrder
  <2> QED
    BY <1>1, <1>3, <1>6, <1>7, <1>8, <2>8, <2>9, <2>10 DEF ListsFit
<1> QED
  BY <1>10, <1>11

-----------------------------------------------------------------------------
(* While nothing is replayed, the plan does not matter.                    *)
Replaying == loop.at \in {"replay", "activate", "commit"}

LEMMA PlanKept ==
  ASSUME PlanFits, UNCHANGED <<recording, rewinding, flush, loop, plan>>
  PROVE  PlanFits'
BY DEF PlanFits, recording

LEMMA UserAndPage ==
  ASSUME Bounded, (\E e \in UNION {Offers[p] : p \in Pages} : UserActs(e)) \/ Drift
  PROVE  Bounded'
<1>1. /\ UNCHANGED <<recording, rewinding, flush, loop, plan>>
      /\ page' \in Leads[page] \union {page}
  BY DEF UserActs, Drift, recording
<1>2. page' \in Pages
  BY <1>1, RecorderAssumption DEF Bounded, TasksTyped
<1>3. ListsFit' /\ PlanFits'
  BY <1>1, ListsKept, PlanKept DEF Bounded
<1> QED
  BY <1>1, <1>2, <1>3 DEF Bounded, TasksTyped

LEMMA Senders ==
  ASSUME Bounded, WaitEnds \/ RecordEvent \/ TakeStep \/ SendStep \/ MonitorDecides
  PROVE  Bounded'
<1>1. UNCHANGED <<page, recording, rewinding, flush, loop, plan>>
  BY DEF WaitEnds, RecordEvent, TakeStep, SendStep, MonitorDecides, recording, browser
<1>2. ListsFit' /\ PlanFits'
  BY <1>1, ListsKept, PlanKept DEF Bounded
<1> QED
  BY <1>1, <1>2 DEF Bounded, TasksTyped

LEMMA Looks ==
  ASSUME Bounded, MonitorLooks \/ LoopLooks
  PROVE  Bounded'
<1>1. UNCHANGED <<page, recording, rewinding, plan>>
  BY DEF MonitorLooks, LoopLooks, recording, browser
<1>2. \/ UNCHANGED flush
      \/ ~rewinding /\ flush'.changed \in BOOLEAN
  <2>1. ASSUME NEW who, NEW force, Look(who, force)
        PROVE  ~rewinding /\ flush'.changed \in BOOLEAN
    BY <2>1 DEF Look, Declines, Changed
  <2>2. \/ UNCHANGED flush
        \/ Look("loop", TRUE)
        \/ Look("monitor", monitor = "forcing")
    BY DEF MonitorLooks, LoopLooks
  <2> QED
    BY <2>1, <2>2, Zenon
<1>3. \/ UNCHANGED loop
      \/ loop' = [loop EXCEPT !.at = "flushing"] \/ loop' = [loop EXCEPT !.at = "body"]
      \/ loop' = AtRest
  BY DEF MonitorLooks, LoopLooks
<1>4. ListsFit'
  BY <1>1, ListsKept DEF Bounded
<1>5. TasksTyped'
  BY <1>1, <1>2, <1>3 DEF Bounded, TasksTyped, AtRest
<1>6. ASSUME Replaying' PROVE UNCHANGED <<loop, flush>>
  <2>1. UNCHANGED loop
    BY <1>3, <1>6 DEF Replaying, AtRest, Bounded, TasksTyped
  <2> QED
    BY <1>2, <1>6, <2>1 DEF Replaying, Bounded, PlanFits
<1>7. PlanFits'
  BY <1>1, <1>6, PlanKept DEF Bounded, Replaying, PlanFits
<1> QED
  BY <1>4, <1>5, <1>7 DEF Bounded

LEMMA FlushEnds ==
  ASSUME Bounded, TakeSnapshot \/ FlushFails
  PROVE  Bounded'
<1>1. ListsFit'
  BY SnapshotFits, FailureFits
<1>2. /\ UNCHANGED <<page, rewinding, plan>> /\ flush # NoFlush /\ flush' = NoFlush
      /\ \/ UNCHANGED loop
         \/ loop' = [loop EXCEPT !.at = "ended"] \/ loop' = [loop EXCEPT !.at = "body"]
         \/ loop' = AtRest
  BY Zenon DEF TakeSnapshot, FlushFails, Flushed, browser
<1>3. TasksTyped'
  BY <1>2 DEF Bounded, TasksTyped, AtRest, NoFlush
<1>4. ~ Replaying'
  BY <1>2 DEF Bounded, PlanFits, TasksTyped, Replaying, AtRest
<1> QED
  BY <1>1, <1>3, <1>4 DEF Bounded, PlanFits, Replaying

(* Requests that do not begin or end a rewind.                             *)
LEMMA Requests ==
  ASSUME Bounded,
         \/ \E op \in {"start", "publish", "finish", "rewind"} : Serve(op)
         \/ StartFlow \/ RefuseFinish \/ FinishSegment \/ PersistFails \/ StoreFlow
         \/ RefuseRewind
  PROVE  Bounded'
<1>1. ListsFit'
  <2>1. CASE StartFlow
    BY <2>1, StartFits
  <2>2. CASE FinishSegment
    BY <2>2, FinishFits
  <2>3. CASE UNCHANGED recording
    BY <2>3, ListsKept DEF Bounded
  <2> QED
    BY <2>1, <2>2, <2>3 DEF Serve, RefuseFinish, PersistFails, StoreFlow, RefuseRewind
<1>2. /\ UNCHANGED <<page, rewinding, flush, plan>>
      /\ \/ \E op \in {"start", "publish", "finish", "rewind"} : loop' = [op |-> op, at |-> "flush"]
         \/ loop' = [loop EXCEPT !.at = "store"] \/ loop' = AtRest
  BY DEF Serve, StartFlow, RefuseFinish, FinishSegment, PersistFails, StoreFlow, RefuseRewind,
         Refuse, browser
<1>3. TasksTyped'
  BY <1>2 DEF Bounded, TasksTyped, AtRest
<1>4. ~ Replaying'
  BY <1>2 DEF Bounded, TasksTyped, Replaying, AtRest
<1> QED
  BY <1>1, <1>3, <1>4 DEF Bounded, PlanFits, Replaying

LEMMA Rewinds ==
  ASSUME Bounded, PrepareRewind \/ Replay \/ Activate \/ CommitRewind
  PROVE  Bounded'
<1>1. CASE PrepareRewind
  <2>1. PICK keep \in 0 .. Len(Entries) :
          plan' = [keep |-> keep, page |-> NoPage,
                   target |-> IF keep = 0 THEN segment.first ELSE Entries[keep].target]
    BY <1>1 DEF PrepareRewind
  <2>2. /\ UNCHANGED <<page, recording, flush>> /\ rewinding' = TRUE /\ flush = NoFlush
        /\ segment.active /\ loop' = [loop EXCEPT !.at = "replay"]
    BY <1>1 DEF PrepareRewind, InBody, browser
  <2>3. /\ Len(Entries) = Len(transitions) - segment.base
        /\ DOMAIN Entries = 1 .. Len(transitions) - segment.base
        /\ \A k \in DOMAIN Entries : Entries[k] = transitions[segment.base + k]
        /\ segment.base \in Nat /\ Len(transitions) \in Nat
    BY <2>2, EntriesAre, SequenceLen DEF Bounded, ListsFit, ListsTyped, SegmentFits, Segment
  <2>4. ListsFit'
    BY <2>2, ListsKept DEF Bounded
  <2>5. TasksTyped' /\ loop'.at = "replay"
    BY <2>1, <2>2 DEF Bounded, TasksTyped
  <2>6. /\ plan'.keep \in 0 .. Len(transitions) - segment.base
        /\ plan'.target = IF plan'.keep = 0 THEN segment.first
                          ELSE transitions[segment.base + plan'.keep].target
    BY <2>1, <2>3
  <2>7. PlanFits'
    BY <2>2, <2>5, <2>6 DEF PlanFits, recording
  <2> QED
    BY <2>4, <2>5, <2>7 DEF Bounded
<1>2. CASE Replay
  <2>1. /\ UNCHANGED <<page, recording, flush>> /\ loop.at = "replay"
        /\ \/ /\ \E p \in Pages : plan' = [plan EXCEPT !.page = p]
              /\ loop' = [loop EXCEPT !.at = "activate"] /\ UNCHANGED rewinding
           \/ loop' = AtRest /\ plan' = NoPlan /\ rewinding' = FALSE
    BY <1>2 DEF Replay, GiveUp, browser
  <2>2. ListsFit'
    BY <2>1, ListsKept DEF Bounded
  <2>3. CASE loop' = AtRest /\ plan' = NoPlan /\ rewinding' = FALSE
    <3>1. TasksTyped' /\ PlanFits'
      BY <2>1, <2>3 DEF Bounded, TasksTyped, PlanFits, AtRest, NoPlan
    <3> QED
      BY <2>2, <3>1 DEF Bounded
  <2>4. CASE /\ \E p \in Pages : plan' = [plan EXCEPT !.page = p]
             /\ loop' = [loop EXCEPT !.at = "activate"] /\ UNCHANGED rewinding
    <3>1. /\ plan'.page \in Pages /\ plan'.keep = plan.keep /\ plan'.target = plan.target
          /\ DOMAIN plan' = {"keep", "target", "page"}
      BY <2>4 DEF Bounded, TasksTyped
    <3>2. TasksTyped'
      BY <2>1, <2>4, <3>1 DEF Bounded, TasksTyped
    <3>3. PlanFits'
      BY <2>1, <2>4, <3>1 DEF Bounded, PlanFits, recording
    <3> QED
      BY <2>2, <3>2, <3>3 DEF Bounded
  <2> QED
    BY <2>1, <2>3, <2>4
<1>3. CASE Activate
  <2>1. /\ UNCHANGED <<recording, flush>> /\ loop.at = "activate" /\ page' = plan.page
        /\ \/ loop' = [loop EXCEPT !.at = "commit"] /\ UNCHANGED <<rewinding, plan>>
           \/ loop' = AtRest /\ plan' = NoPlan /\ rewinding' = FALSE
    BY <1>3 DEF Activate, GiveUp
  <2>2. ListsFit'
    BY <2>1, ListsKept DEF Bounded
  <2>3. page' \in Pages
    BY <2>1 DEF Bounded, PlanFits
  <2>4. TasksTyped'
    BY <2>1, <2>3 DEF Bounded, TasksTyped, AtRest, NoPlan
  <2>5. PlanFits'
    <3>1. CASE loop' = AtRest
      BY <3>1 DEF PlanFits, AtRest
    <3>2. CASE loop' = [loop EXCEPT !.at = "commit"] /\ UNCHANGED <<rewinding, plan>>
      BY <2>1, <3>2 DEF Bounded, PlanFits, recording
    <3> QED
      BY <2>1, <3>1, <3>2
  <2> QED
    BY <2>2, <2>4, <2>5 DEF Bounded
<1>4. CASE CommitRewind
  <2>1. UNCHANGED <<page, flush>> /\ loop' = AtRest /\ plan' = NoPlan /\ rewinding' = FALSE
    BY <1>4 DEF CommitRewind, GiveUp, browser
  <2>2. TasksTyped' /\ PlanFits'
    BY <2>1 DEF Bounded, TasksTyped, PlanFits, AtRest, NoPlan
  <2> QED
    BY <1>4, <2>2, RewindFits DEF Bounded
<1> QED
  BY <1>1, <1>2, <1>3, <1>4

LEMMA StepBounded ==
  ASSUME Bounded, [Next]_vars
  PROVE  Bounded'
<1>1. CASE UNCHANGED vars
  <2>1. UNCHANGED <<page, recording, rewinding, flush, loop, plan>>
    BY <1>1 DEF vars, browser, recording
  <2>2. ListsFit' /\ PlanFits'
    BY <2>1, ListsKept, PlanKept DEF Bounded
  <2> QED
    BY <2>1, <2>2 DEF Bounded, TasksTyped
<1>2. CASE Next
  BY <1>2, UserAndPage, Senders, Looks, FlushEnds, Requests, Rewinds DEF Next, LoopSteps
<1> QED
  BY <1>1, <1>2

(* The invariant says of the transitions what the property says of the     *)
(* steps of the segment.                                                   *)
LEMMA BoundedFits ==
  ASSUME Bounded
  PROVE  SegmentInBounds
<1> DEFINE n == Len(transitions)
<1>1. /\ IsSequence(transitions) /\ n \in Nat /\ segment.base \in Nat /\ segment.first \in Nat
      /\ segment.base <= n /\ current \in Nat /\ candidate \in Nat
      /\ candidate <= current /\ current <= Len(states)
      /\ InOrder(transitions, candidate, current)
      /\ \A k \in 1 .. n : transitions[k].source \in Nat /\ transitions[k].target \in Nat
  BY SequenceLen DEF Bounded, ListsFit, ListsTyped, SegmentFits, Segment, IsTransition
<1> SUFFICES ASSUME segment.active
    PROVE  /\ candidate <= segment.first /\ segment.first <= current
           /\ segment.checkpoint = states[segment.first]
           /\ \A k \in DOMAIN Entries :
                /\ Entries[k].source <= Entries[k].target /\ Entries[k].target <= current
                /\ Entries[k].source >= IF k = 1 THEN segment.first ELSE Entries[k - 1].target
  BY <1>1 DEF SegmentInBounds
<1>2. /\ candidate <= segment.first /\ segment.first <= current
      /\ segment.checkpoint = states[segment.first]
      /\ \A k \in segment.base + 1 .. n : transitions[k].source >= segment.first
  BY DEF Bounded, ListsFit, SegmentFits
<1>3. /\ DOMAIN Entries = 1 .. n - segment.base
      /\ \A k \in DOMAIN Entries : Entries[k] = transitions[segment.base + k]
  BY <1>1, EntriesAre
<1>4. ASSUME NEW k \in 1 .. n - segment.base
      PROVE  LET i == segment.base + k IN
             /\ i \in segment.base + 1 .. n /\ i \in 1 .. n
             /\ transitions[i].source >= segment.first
             /\ transitions[i].source <= transitions[i].target
             /\ transitions[i].target <= current
             /\ \A l \in i + 1 .. n : transitions[i].target <= transitions[l].source
  <2>1. segment.base + k \in segment.base + 1 .. n /\ segment.base + k \in 1 .. n
    BY <1>1
  <2>2. transitions[segment.base + k].source >= candidate
    BY <1>1, <1>2, <2>1
  <2> QED
    BY <1>1, <1>2, <2>1, <2>2 DEF InOrder
<1>5. ASSUME NEW k \in DOMAIN Entries
      PROVE  /\ Entries[k].source <= Entries[k].target /\ Entries[k].target <= current
             /\ Entries[k].source >= IF k = 1 THEN segment.first ELSE Entries[k - 1].target
  <2>1. CASE k = 1
    BY <1>3, <1>4, <2>1
  <2>2. CASE k # 1
    <3>1. k - 1 \in 1 .. n - segment.base /\ segment.base + k \in segment.base + (k - 1) + 1 .. n
      BY <1>1, <1>3, <2>2
    <3>2. transitions[segment.base + (k - 1)].target <= transitions[segment.base + k].source
      BY <1>4, <3>1
    <3>3. /\ transitions[segment.base + (k - 1)].target \in Nat
          /\ transitions[segment.base + k].source \in Nat
      BY <1>1, <1>3, <1>4, <3>1
    <3> QED
      BY <1>3, <1>4, <2>2, <3>1, <3>2, <3>3
  <2> QED
    BY <2>1, <2>2
<1> QED
  BY <1>2, <1>5

(* No index of the recorder dangles, whatever is recorded, in whatever     *)
(* order the tasks take the lock, and however often one rewinds.           *)
THEOREM SegmentStaysInBounds == Spec => []SegmentInBounds
<1>1. Spec => []Bounded
  BY InitBounded, StepBounded, PTL DEF Spec
<1>2. Bounded => SegmentInBounds
  BY BoundedFits
<1> QED
  BY <1>1, <1>2, PTL

-----------------------------------------------------------------------------
(* Between closing the segment and writing the row the lock is free, but   *)
(* nothing touches the checkpoint of a closed segment, and the graph only  *)
(* grows.                                                                  *)
PathIsReady ==
  /\ loop.at = "store" =>
       /\ ~segment.active
       /\ IsPath(segment.checkpoint, refs)
       /\ segment.checkpoint \in graph.states
       /\ \A k \in DOMAIN refs : refs[k] \in graph.transitions
  /\ FlowsArePaths

(* What verifies as a path has been persisted just before.                 *)
LEMMA FinishIsReady ==
  ASSUME Bounded, PathIsReady, FinishSegment
  PROVE  PathIsReady'
<1>1. PICK projected \in {Entries} \union WithoutOne(Entries) :
        /\ graph' = IF projected = <<>> THEN graph ELSE Persisted(projected)
        /\ IF IsPath(segment.checkpoint, RefsOf(projected))
             THEN /\ refs' = RefsOf(projected)
                  /\ segment' = [segment EXCEPT !.active = FALSE, !.first = 0,
                                                !.base = Len(transitions)]
             ELSE loop' = AtRest
  BY DEF FinishSegment
<1>2. /\ UNCHANGED flows /\ segment.active /\ segment \in Segment
      /\ segment.checkpoint = states[segment.first]
  <2>1. segment.active
    BY DEF FinishSegment, Entries
  <2> QED
    BY <2>1 DEF FinishSegment, Bounded, ListsFit, ListsTyped, SegmentFits
<1>3. graph.states \subseteq graph'.states /\ graph.transitions \subseteq graph'.transitions
  BY <1>1 DEF Persisted
<1>4. FlowsArePaths'
  BY <1>2, <1>3 DEF PathIsReady, FlowsArePaths, IsPath
<1>5. CASE IsPath(segment.checkpoint, RefsOf(projected))
  <2>1. projected # <<>>
    <3>1. RefsOf(<<>>) = <<>>
      BY DEF RefsOf
    <3> QED
      BY <1>5, <3>1 DEF IsPath
  <2>2. segment.checkpoint \in graph'.states
    BY <1>1, <1>2, <2>1 DEF Persisted
  <2>3. /\ refs' = RefsOf(projected)
        /\ ~segment'.active /\ segment'.checkpoint = segment.checkpoint
    BY <1>1, <1>2, <1>5 DEF Segment
  <2>4. \A k \in DOMAIN refs' : refs'[k] \in graph'.transitions
    BY <1>1, <2>1, <2>3 DEF RefsOf, Persisted
  <2>5. IsPath(segment.checkpoint, refs)'
    BY <1>5, <2>3 DEF IsPath
  <2> QED
    BY <1>4, <2>2, <2>3, <2>4, <2>5 DEF PathIsReady
<1>6. CASE ~ IsPath(segment.checkpoint, RefsOf(projected))
  BY <1>1, <1>4, <1>6 DEF PathIsReady, AtRest
<1> QED
  BY <1>5, <1>6

LEMMA StoreIsReady ==
  ASSUME PathIsReady, StoreFlow
  PROVE  PathIsReady'
<1>1. /\ UNCHANGED graph /\ loop' = AtRest /\ loop.at = "store"
      /\ flows' \in {flows, flows \union {[checkpoint |-> segment.checkpoint, steps |-> refs]}}
  BY DEF StoreFlow
<1>2. FlowsArePaths'
  <2> SUFFICES ASSUME NEW f \in flows'
      PROVE  /\ IsPath(f.checkpoint, f.steps) /\ f.checkpoint \in graph.states
             /\ \A k \in DOMAIN f.steps : f.steps[k] \in graph.transitions
    BY <1>1 DEF FlowsArePaths, IsPath
  <2>1. CASE f \in flows
    BY <2>1 DEF PathIsReady, FlowsArePaths
  <2>2. CASE f = [checkpoint |-> segment.checkpoint, steps |-> refs]
    BY <1>1, <2>2 DEF PathIsReady
  <2> QED
    BY <1>1, <2>1, <2>2
<1> QED
  BY <1>1, <1>2 DEF PathIsReady, AtRest

(* Steps that write no flow and only add to the graph.                     *)
LEMMA OthersAreReady ==
  ASSUME PathIsReady, UNCHANGED flows,
         graph.states \subseteq graph'.states, graph.transitions \subseteq graph'.transitions,
         loop'.at = "store" => loop.at = "store" /\ UNCHANGED <<segment, refs>>
  PROVE  PathIsReady'
<1>1. FlowsArePaths'
  BY DEF PathIsReady, FlowsArePaths, IsPath
<1>2. ASSUME loop'.at = "store"
      PROVE  /\ ~segment'.active /\ IsPath(segment.checkpoint, refs)'
             /\ segment'.checkpoint \in graph'.states
             /\ \A k \in DOMAIN refs' : refs'[k] \in graph'.transitions
  BY <1>2 DEF PathIsReady, IsPath
<1> QED
  BY <1>1, <1>2 DEF PathIsReady

LEMMA SnapshotIsReady ==
  ASSUME Bounded, PathIsReady, TakeSnapshot
  PROVE  PathIsReady'
<1>1. /\ UNCHANGED <<flows, graph, refs>>
      /\ \/ UNCHANGED loop
         \/ loop' = [loop EXCEPT !.at = "body"] \/ loop' = AtRest
  BY Zenon DEF TakeSnapshot, Flushed, stored
<1>2. UNCHANGED segment \/ segment.active
  BY Zenon DEF TakeSnapshot, Advanced
<1>3. loop'.at = "store" => loop.at = "store" /\ UNCHANGED <<segment, refs>>
  BY <1>1, <1>2 DEF Bounded, TasksTyped, AtRest, PathIsReady
<1> QED
  BY <1>1, <1>3, OthersAreReady

LEMMA StepIsReady ==
  ASSUME Bounded, PathIsReady, [Next]_vars
  PROVE  PathIsReady'
<1>1. CASE UNCHANGED vars
  BY <1>1, OthersAreReady DEF vars, stored, recording
<1>2. CASE \E e \in UNION {Offers[p] : p \in Pages} : UserActs(e)
  BY <1>2, OthersAreReady DEF UserActs, stored, recording
<1>3. CASE Drift \/ WaitEnds \/ RecordEvent \/ TakeStep \/ SendStep \/ MonitorDecides
           \/ MonitorLooks
  <2>1. UNCHANGED <<flows, graph, loop, segment, refs>>
    BY <1>3 DEF Drift, WaitEnds, RecordEvent, TakeStep, SendStep, MonitorDecides, MonitorLooks,
                stored, recording
  <2> QED
    BY <2>1, OthersAreReady
<1>4. CASE TakeSnapshot
  BY <1>4, SnapshotIsReady
<1>5. CASE FlushFails
  <2>1. /\ UNCHANGED <<flows, graph, segment, refs>>
        /\ loop' = loop \/ loop' = [loop EXCEPT !.at = "ended"] \/ loop' = AtRest
    BY <1>5 DEF FlushFails, stored
  <2>2. loop'.at = "store" => loop.at = "store"
    BY <2>1 DEF Bounded, TasksTyped, AtRest
  <2> QED
    BY <2>1, <2>2, OthersAreReady
<1>6. CASE \E op \in {"start", "publish", "finish", "rewind"} : Serve(op)
  BY <1>6, OthersAreReady DEF Serve, stored
<1>7. CASE LoopLooks \/ PrepareRewind \/ Replay \/ Activate
  <2>1. /\ UNCHANGED <<flows, graph>>
        /\ \/ \E at \in {"flushing", "body", "replay", "activate", "commit"} :
                loop' = [loop EXCEPT !.at = at]
           \/ loop' = AtRest
    BY <1>7 DEF LoopLooks, PrepareRewind, Replay, Activate, GiveUp, stored
  <2>2. loop'.at # "store"
    BY <2>1 DEF Bounded, TasksTyped, AtRest
  <2> QED
    BY <2>1, <2>2, OthersAreReady
<1>8. CASE StartFlow \/ RefuseFinish \/ RefuseRewind \/ CommitRewind
  <2>1. UNCHANGED <<flows, graph>> /\ loop' = AtRest
    BY <1>8 DEF StartFlow, RefuseFinish, RefuseRewind, CommitRewind, Refuse, GiveUp, stored
  <2> QED
    BY <2>1, OthersAreReady DEF AtRest
<1>9. CASE PersistFails
  <2>1. /\ UNCHANGED flows /\ loop' = AtRest
        /\ graph.states \subseteq graph'.states /\ graph.transitions \subseteq graph'.transitions
    BY <1>9 DEF PersistFails, Persisted, Refuse
  <2> QED
    BY <2>1, OthersAreReady DEF AtRest
<1>10. CASE FinishSegment
  BY <1>10, FinishIsReady
<1>11. CASE StoreFlow
  BY <1>11, StoreIsReady
<1> QED
  BY <1>1, <1>2, <1>3, <1>4, <1>5, <1>6, <1>7, <1>8, <1>9, <1>10, <1>11 DEF Next, LoopSteps

(* Whatever happens between verifying a path and writing its row, and      *)
(* whatever fails, what is stored is a path of the session's graph.        *)
THEOREM StoredFlowsArePaths == Spec => []FlowsArePaths
<1>1. Init => Bounded /\ PathIsReady
  BY InitBounded DEF Init, PathIsReady, FlowsArePaths, AtRest
<1>2. Bounded /\ PathIsReady /\ [Next]_vars => (Bounded /\ PathIsReady)'
  BY StepBounded, StepIsReady
<1>3. Bounded /\ PathIsReady => FlowsArePaths
  BY DEF PathIsReady
<1> QED
  BY <1>1, <1>2, <1>3, PTL DEF Spec

-----------------------------------------------------------------------------
(* What the client is told.                                                *)

(* The ids of the steps after the first b.                                 *)
IdsFrom(ts, b) == {ts[k].id : k \in b + 1 .. Len(ts)}

Messages(s) == {s[k] : k \in DOMAIN s}

LEMMA IdsAre ==
  ASSUME NEW ts, IsSequence(ts), NEW b \in Nat, b <= Len(ts)
  PROVE  Ids(SubSeq(ts, b + 1, Len(ts))) = IdsFrom(ts, b)
<1> DEFINE e == SubSeq(ts, b + 1, Len(ts))
           n == Len(ts)
<1>1. PICK S : ts \in Seq(S)
  BY DEF IsSequence
<1>2. /\ n \in Nat /\ DOMAIN e = 1 .. n - b
      /\ \A k \in 1 .. n - b : e[k] = ts[b + k]
  BY <1>1
<1>3. Ids(e) = {e[k].id : k \in 1 .. n - b}
  BY <1>2 DEF Ids
<1> HIDE DEF e
<1>4. ASSUME NEW i \in Ids(e) PROVE i \in IdsFrom(ts, b)
  <2>1. PICK k \in 1 .. n - b : i = e[k].id
    BY <1>3
  <2>2. b + k \in b + 1 .. n /\ i = ts[b + k].id
    BY <1>2, <2>1
  <2> QED
    BY <2>2 DEF IdsFrom
<1>5. ASSUME NEW i \in IdsFrom(ts, b) PROVE i \in Ids(e)
  <2>1. PICK k \in b + 1 .. n : i = ts[k].id
    BY DEF IdsFrom
  <2>2. k - b \in 1 .. n - b /\ b + (k - b) = k
    BY <1>2, <2>1
  <2>3. i = e[k - b].id
    BY <1>2, <2>1, <2>2
  <2> QED
    BY <1>3, <2>2, <2>3
<1>6. Ids(e) = IdsFrom(ts, b)
  BY <1>4, <1>5
<1> QED
  BY <1>6 DEF e

LEMMA QueueGrows ==
  ASSUME NEW s, IsSequence(s), NEW m
  PROVE  /\ s \o <<m>> = Append(s, m) /\ s \o <<>> = s
         /\ IsSequence(Append(s, m))
         /\ Messages(Append(s, m)) = Messages(s) \union {m}
<1>1. PICK S : s \in Seq(S)
  BY DEF IsSequence
<1>2. s \in Seq(S \union {m}) /\ m \in S \union {m}
  BY <1>1
<1>3. s \o <<m>> = Append(s, m) /\ s \o <<>> = s
  BY <1>2
<1>4. IsSequence(Append(s, m))
  BY <1>2, Appended DEF IsSequence
<1>5. /\ DOMAIN Append(s, m) = 1 .. Len(s) + 1 /\ DOMAIN s = 1 .. Len(s) /\ Len(s) \in Nat
      /\ Append(s, m)[Len(s) + 1] = m
      /\ \A k \in 1 .. Len(s) : Append(s, m)[k] = s[k]
  BY <1>2
<1>6. Messages(Append(s, m)) = Messages(s) \union {m}
  BY <1>5 DEF Messages
<1> QED
  BY <1>3, <1>4, <1>6

LEMMA QueueShrinks ==
  ASSUME NEW s, IsSequence(s), s # <<>>
  PROVE  /\ IsSequence(Tail(s))
         /\ Messages(s) = {Head(s)} \union Messages(Tail(s))
<1>1. PICK S : s \in Seq(S)
  BY DEF IsSequence
<1>2. Tail(s) \in Seq(S)
  BY <1>1
<1>3. /\ Len(s) \in Nat \ {0} /\ DOMAIN s = 1 .. Len(s) /\ DOMAIN Tail(s) = 1 .. Len(s) - 1
      /\ Head(s) = s[1] /\ \A k \in 1 .. Len(s) - 1 : Tail(s)[k] = s[k + 1]
  BY <1>1
<1> DEFINE t == Tail(s)
           h == Head(s)
<1> HIDE DEF t, h
<1>4. /\ DOMAIN t = 1 .. Len(s) - 1 /\ h = s[1]
      /\ \A k \in 1 .. Len(s) - 1 : t[k] = s[k + 1]
  BY <1>3 DEF t, h
<1>5. ASSUME NEW m \in Messages(s) PROVE m \in {h} \union Messages(t)
  <2>1. PICK k \in 1 .. Len(s) : m = s[k]
    BY <1>3 DEF Messages
  <2>2. CASE k = 1
    BY <1>4, <2>1, <2>2
  <2>3. CASE k # 1
    <3>1. k - 1 \in 1 .. Len(s) - 1 /\ (k - 1) + 1 = k
      BY <1>3, <2>1, <2>3
    <3>2. t[k - 1] = m
      BY <1>4, <2>1, <3>1
    <3> QED
      BY <1>4, <3>1, <3>2 DEF Messages
  <2> QED
    BY <2>2, <2>3
<1>6. ASSUME NEW m \in {h} \union Messages(t) PROVE m \in Messages(s)
  <2>1. CASE m = h
    BY <1>3, <1>4, <2>1 DEF Messages
  <2>2. CASE m \in Messages(t)
    <3>1. PICK k \in 1 .. Len(s) - 1 : m = t[k]
      BY <1>4, <2>2 DEF Messages
    <3>2. k + 1 \in 1 .. Len(s) /\ m = s[k + 1]
      BY <1>3, <1>4, <3>1
    <3> QED
      BY <1>3, <3>2 DEF Messages
  <2> QED
    BY <2>1, <2>2
<1> QED
  BY <1>2, <1>5, <1>6 DEF IsSequence, t, h

LEMMA ShortQueues ==
  /\ IsSequence(<<>>) /\ Messages(<<>>) = {}
  /\ \A m : IsSequence(<<m>>) /\ Messages(<<m>>) = {m}
<1>1. <<>> \in Seq({}) /\ DOMAIN <<>> = {}
  OBVIOUS
<1>2. ASSUME NEW m PROVE IsSequence(<<m>>) /\ Messages(<<m>>) = {m}
  <2>1. <<m>> \in Seq({m}) /\ DOMAIN <<m>> = {1} /\ <<m>>[1] = m
    OBVIOUS
  <2> QED
    BY <2>1 DEF IsSequence, Messages
<1> QED
  BY <1>1, <1>2 DEF IsSequence, Messages

(* Who flushes, and what the loop is about.                                *)
Served ==
  /\ IsSequence(outbox) /\ (sending = <<>> \/ \E m : sending = <<m>>)
  /\ flush # NoFlush => flush.by \in {"monitor", "loop"}
  /\ flush # NoFlush /\ flush.by = "loop" => loop.at = "flushing"
  /\ loop.op = "none" <=> loop.at = "idle"
  /\ loop.op = "start" \/ loop.at = "store" => ~segment.active

(* A message of the flow's revision is about a step of it.                 *)
Marked ==
  \A m \in Messages(outbox) \union Messages(sending) :
    /\ m.revision \in Nat /\ m.revision <= segment.revision
    /\ segment.active /\ m.revision = segment.revision =>
         m.id \in IdsFrom(transitions, segment.base)

(* What a request other than flow.publish_pending flushes is not sent: it  *)
(* is made good for, or the request fails.                                 *)
CaughtUp ==
  segment.active /\ "failed" \notin slips /\ loop.op \in {"none", "publish"} =>
    \A i \in IdsFrom(transitions, segment.base) :
      \/ i \in told
      \/ \E m \in Messages(outbox) \union Messages(sending) :
           m.revision = segment.revision /\ m.id = i

Viewed == Served /\ Marked /\ CaughtUp

LEMMA ViewKept ==
  ASSUME Marked, CaughtUp, UNCHANGED <<transitions, segment, client>>,
         slips \subseteq slips',
         segment.active /\ "failed" \notin slips' /\ loop'.op \in {"none", "publish"} =>
           loop.op \in {"none", "publish"}
  PROVE  Marked' /\ CaughtUp'
<1>1. UNCHANGED <<transitions, segment, outbox, sending, told>>
  BY DEF client
<1>2. Marked'
  BY <1>1 DEF Marked
<1>3. CaughtUp'
  BY <1>1 DEF CaughtUp
<1> QED
  BY <1>2, <1>3

(* The user, the page and the tasks that only look.                        *)
LEMMA OthersAreViewed ==
  ASSUME Bounded, Viewed,
         \/ \E e \in UNION {Offers[p] : p \in Pages} : UserActs(e)
         \/ Drift \/ WaitEnds \/ RecordEvent \/ MonitorDecides \/ MonitorLooks \/ LoopLooks
         \/ \E op \in {"start", "publish", "finish", "rewind"} : Serve(op)
  PROVE  Viewed'
<1>1. CASE \/ \E e \in UNION {Offers[p] : p \in Pages} : UserActs(e)
           \/ Drift \/ WaitEnds \/ RecordEvent \/ MonitorDecides
  <2>1. /\ UNCHANGED <<transitions, segment, outbox, sending, told, flush, loop>>
        /\ slips \subseteq slips'
    BY <1>1 DEF UserActs, Drift, WaitEnds, RecordEvent, MonitorDecides, recording, client, Slip,
                history
  <2>2. Marked' /\ CaughtUp'
    BY <2>1, ViewKept DEF Viewed, client
  <2>3. Served'
    BY <2>1 DEF Viewed, Served
  <2> QED
    BY <2>2, <2>3 DEF Viewed
<1>2. CASE MonitorLooks \/ LoopLooks
  <2>1. /\ UNCHANGED <<transitions, segment, outbox, sending, told>>
        /\ slips \subseteq slips'
    BY <1>2 DEF MonitorLooks, LoopLooks, Look, recording, client, Slip
  <2>2. \/ UNCHANGED <<flush, loop>>
        \/ flush = NoFlush /\ flush'.by = "monitor" /\ UNCHANGED loop
        \/ /\ flush = NoFlush /\ flush'.by = "loop" /\ loop.at = "flush"
           /\ loop' = [loop EXCEPT !.at = "flushing"]
        \/ /\ flush' = NoFlush /\ loop.at = "flush"
           /\ loop' = IF loop.op = "publish" THEN AtRest ELSE [loop EXCEPT !.at = "body"]
    <3>1. ASSUME NEW who, NEW force, Look(who, force)
          PROVE  flush = NoFlush /\ flush'.by = who
      BY <3>1 DEF Look
    <3>2. \/ UNCHANGED <<flush, loop>>
          \/ Look("monitor", monitor = "forcing") /\ UNCHANGED loop
          \/ Look("loop", TRUE) /\ loop.at = "flush" /\ loop' = [loop EXCEPT !.at = "flushing"]
          \/ /\ flush = NoFlush /\ UNCHANGED flush /\ loop.at = "flush"
             /\ loop' = IF loop.op = "publish" THEN AtRest ELSE [loop EXCEPT !.at = "body"]
      BY <1>2 DEF MonitorLooks, LoopLooks
    <3> QED
      BY <3>1, <3>2, Zenon
  <2>3. Marked' /\ CaughtUp'
    BY <2>1, <2>2, ViewKept DEF Viewed, client, AtRest, Bounded, TasksTyped
  <2>4. Served'
    BY <2>1, <2>2 DEF Viewed, Served, AtRest, Bounded, TasksTyped
  <2> QED
    BY <2>3, <2>4 DEF Viewed
<1>3. ASSUME NEW op \in {"start", "publish", "finish", "rewind"}, Serve(op)
      PROVE  Viewed'
  <2>1. /\ UNCHANGED <<transitions, segment, outbox, sending, told, flush, slips>>
        /\ loop = AtRest /\ loop' = [op |-> op, at |-> "flush"]
        /\ op = "start" => ~segment.active
    BY <1>3 DEF Serve, recording, client
  <2>2. Marked' /\ CaughtUp'
    BY <2>1, ViewKept DEF Viewed, client, AtRest
  <2>3. Served'
    BY <2>1 DEF Viewed, Served, AtRest
  <2> QED
    BY <2>2, <2>3 DEF Viewed
<1> QED
  BY <1>1, <1>2, <1>3

(* A step is taken from the queue, and sent.                               *)
LEMMA SendersAreViewed ==
  ASSUME Bounded, Viewed, TakeStep \/ SendStep
  PROVE  Viewed'
<1>1. UNCHANGED <<transitions, segment, flush, loop, slips>>
  BY DEF TakeStep, SendStep, recording, history
<1>2. CASE TakeStep
  <2>1. /\ sending = <<>> /\ outbox # <<>> /\ sending' = <<Head(outbox)>>
        /\ outbox' = Tail(outbox) /\ UNCHANGED told /\ IsSequence(outbox)
    BY <1>2 DEF TakeStep, Viewed, Served
  <2>2. Messages(outbox) \union Messages(sending)
          = Messages(outbox') \union Messages(sending')
    BY <2>1, QueueShrinks, ShortQueues
  <2>3. IsSequence(outbox')
    BY <2>1, QueueShrinks
  <2>4. Served'
    BY <1>1, <2>1, <2>3 DEF Viewed, Served
  <2>5. Marked' /\ CaughtUp'
    BY <1>1, <2>1, <2>2 DEF Viewed, Marked, CaughtUp
  <2> QED
    BY <2>4, <2>5 DEF Viewed
<1>3. CASE SendStep
  <2>1. PICK m : sending = <<m>>
    BY <1>3 DEF SendStep, Viewed, Served
  <2>2. /\ sending' = <<>> /\ UNCHANGED outbox
        /\ told' = IF m.revision = segment.revision THEN told \union {m.id} ELSE told
    BY <1>3, <2>1 DEF SendStep
  <2>3. Messages(sending) = {m} /\ Messages(sending') = {}
    BY <2>1, <2>2, ShortQueues
  <2>4. Served'
    BY <1>1, <2>2 DEF Viewed, Served
  <2>5. Marked'
    BY <1>1, <2>2, <2>3 DEF Viewed, Marked
  <2>6. CaughtUp'
    BY <1>1, <2>2, <2>3 DEF Viewed, CaughtUp
  <2> QED
    BY <2>4, <2>5, <2>6 DEF Viewed
<1> QED
  BY <1>2, <1>3

-----------------------------------------------------------------------------
(* A flush.                                                                *)

LEMMA IdsOfReplaced ==
  ASSUME NEW s, IsSequence(s), s # <<>>, NEW u, u.id = s[Len(s)].id, NEW b \in Nat,
         NEW r, r = [s EXCEPT ![Len(s)] = u]
  PROVE  IdsFrom(r, b) = IdsFrom(s, b)
<1>1. Len(r) = Len(s) /\ Len(s) \in Nat \ {0}
  BY LastReplaced
<1>2. r[Len(s)] = u
  BY LastReplaced
<1>3. \A k \in 1 .. Len(s) : k # Len(s) => r[k] = s[k]
  BY LastReplaced
<1>4. \A k \in b + 1 .. Len(s) : r[k].id = s[k].id
  BY <1>1, <1>2, <1>3
<1> QED
  BY <1>1, <1>4 DEF IdsFrom

LEMMA IdsKept ==
  ASSUME IsSequence(transitions), transitions # <<>>, NEW u, u.id = LastTransition.id,
         transitions' = [transitions EXCEPT ![Len(transitions)] = u], NEW b \in Nat
  PROVE  IdsFrom(transitions', b) = IdsFrom(transitions, b)
<1>1. u.id = transitions[Len(transitions)].id
  BY DEF LastTransition
<1> QED
  BY <1>1, IdsOfReplaced, Zenon

LEMMA IdsOfAppended ==
  ASSUME NEW s, IsSequence(s), NEW u, NEW b \in Nat, b <= Len(s), NEW r, r = Append(s, u)
  PROVE  IdsFrom(r, b) = IdsFrom(s, b) \union {u.id}
<1>1. Len(r) = Len(s) + 1 /\ Len(s) \in Nat
  BY Appended
<1>2. r[Len(s) + 1] = u
  BY Appended
<1>3. \A k \in 1 .. Len(s) : r[k] = s[k]
  BY Appended
<1>4. \A k \in b + 1 .. Len(s) : r[k].id = s[k].id
  BY <1>1, <1>3
<1>5. IdsFrom(r, b) = {r[k].id : k \in b + 1 .. Len(s)} \union {r[Len(s) + 1].id}
  BY <1>1 DEF IdsFrom
<1> QED
  BY <1>2, <1>4, <1>5 DEF IdsFrom

(* The last step is changed, or one is added.                              *)
LEMMA SnapshotSteps ==
  ASSUME Bounded, TakeSnapshot
  PROVE  /\ IsSequence(transitions') /\ IsSequence(transitions)
         /\ \/ UNCHANGED transitions
            \/ /\ transitions # <<>>
               /\ \E u : /\ transitions' = [transitions EXCEPT ![Len(transitions)] = u]
                         /\ u.id = LastTransition.id
            \/ \E u : transitions' = Append(transitions, u)
<1>1. IsSequence(transitions') /\ IsSequence(transitions) /\ ListsTyped
  BY SnapshotFits DEF ListsFit, ListsTyped, Bounded
<1>2. \/ UNCHANGED transitions
      \/ Merges(current) /\ \E t : transitions' = SetLast([LastTransition EXCEPT !.target = t])
      \/ \E t, acts : transitions' = Extended(current, t, acts)
  BY Zenon DEF TakeSnapshot
<1>0. transitions # <<>> => IsTransition(LastTransition)
  BY <1>1, SequenceLen DEF ListsTyped, LastTransition
<1>3. ASSUME Merges(current), NEW t, transitions' = SetLast([LastTransition EXCEPT !.target = t])
      PROVE  /\ transitions # <<>>
             /\ \E u : /\ transitions' = [transitions EXCEPT ![Len(transitions)] = u]
                       /\ u.id = LastTransition.id
  <2> DEFINE u == [LastTransition EXCEPT !.target = t]
  <2>1. transitions # <<>> /\ transitions' = [transitions EXCEPT ![Len(transitions)] = u]
    BY <1>3 DEF Merges, SetLast
  <2>2. u.id = LastTransition.id
    BY <1>0, <2>1 DEF IsTransition
  <2> QED
    BY <2>1, <2>2
<1>4. ASSUME NEW t, NEW acts, transitions' = Extended(current, t, acts)
      PROVE  \/ /\ transitions # <<>>
                /\ \E u : /\ transitions' = [transitions EXCEPT ![Len(transitions)] = u]
                          /\ u.id = LastTransition.id
             \/ \E u : transitions' = Append(transitions, u)
  <2>1. CASE Coalesces(current, acts)
    <3>1. transitions # <<>>
      <4>1. Len(transitions) > segment.base /\ segment.base \in Nat
        BY <1>1, <2>1 DEF Coalesces, LastIsActive, ListsTyped, Segment
      <4> QED
        BY <1>1, <4>1, SequenceLen
    <3> DEFINE u == [LastTransition EXCEPT !.target = t, !.acts = acts]
    <3>2. transitions' = [transitions EXCEPT ![Len(transitions)] = u]
      BY <1>4, <2>1 DEF Extended, SetLast
    <3>3. u.id = LastTransition.id
      BY <1>0, <3>1 DEF IsTransition
    <3> QED
      BY <3>1, <3>2, <3>3
  <2>2. CASE ~ Coalesces(current, acts)
    BY <1>4, <2>2 DEF Extended
  <2> QED
    BY <2>1, <2>2
<1> QED
  BY <1>1, <1>2, <1>3, <1>4

LEMMA SnapshotViewed ==
  ASSUME Bounded, Viewed, TakeSnapshot
  PROVE  Viewed'
<1> DEFINE n == Len(transitions)
           old == IdsFrom(transitions, segment.base)
           new == IdsFrom(transitions', segment'.base)
<1>1. /\ UNCHANGED <<sending, told>> /\ flush # NoFlush /\ flush' = NoFlush
      /\ slips \subseteq slips'
  BY Zenon DEF TakeSnapshot, Slip
<1>2. PICK announced \in BOOLEAN :
        /\ segment' = segment \/ (~announced /\ segment' = Advanced(current', states'[current']))
        /\ ~announced /\ segment.active => Len(transitions') <= segment.base \/ UNCHANGED transitions
        /\ announced => segment.active /\ Len(transitions') > segment.base
        /\ Flushed(flush.by, IF announced THEN Payload(transitions') ELSE <<>>)
  <2> DEFINE implicit == flush.changed /\ flush.events = <<>>
             touched(acts) == IF implicit THEN Merges(current) ELSE acts # <<>>
             announced(acts) == (touched(acts) /\ segment.active)
                                  /\ Len(transitions') > segment.base
  <2>1. PICK acts :
          /\ ~touched(acts) => transitions' = transitions
          /\ segment' = IF flush.changed /\ ~announced(acts)
                          THEN Advanced(current', states'[current']) ELSE segment
          /\ Flushed(flush.by, IF announced(acts) THEN Payload(transitions') ELSE <<>>)
    BY Zenon DEF TakeSnapshot
  <2>2. Len(transitions') \in Nat /\ segment.base \in Nat
    BY SnapshotFits, SequenceLen DEF ListsFit, ListsTyped, Bounded, Segment
  <2>3. announced(acts) \in BOOLEAN
    OBVIOUS
  <2>4. ~announced(acts) /\ segment.active =>
          Len(transitions') <= segment.base \/ UNCHANGED transitions
    BY <2>1, <2>2
  <2> QED
    BY <2>1, <2>3, <2>4, Zenon
<1>3. /\ IsSequence(transitions') /\ IsSequence(transitions) /\ n \in Nat /\ segment \in Segment
      /\ segment.base \in Nat /\ segment.base <= n /\ Len(transitions') \in Nat
      /\ segment.active \in BOOLEAN
  BY SnapshotSteps, SequenceLen DEF Bounded, ListsFit, ListsTyped, SegmentFits, Segment
(* The revision stays, and a segment that moves on is empty.               *)
<1>4. /\ segment'.active = segment.active /\ segment'.revision = segment.revision
      /\ segment' = segment \/ (segment.active /\ old = {})
      /\ segment' = segment \/ (~announced /\ segment'.base = n)
  <2>1. CASE segment' = segment
    BY <2>1
  <2>2. CASE segment' # segment
    <3>1. /\ segment.active /\ Entries = <<>> /\ ~announced
          /\ segment' = [segment EXCEPT !.first = current', !.base = n,
                                        !.checkpoint = states'[current']]
      BY <1>2, <2>2 DEF Advanced
    <3>2. n = segment.base
      BY <1>3, <3>1, EntriesAre
    <3>3. old = {}
      BY <1>3, <3>2 DEF IdsFrom
    <3> QED
      BY <1>3, <3>1, <3>3 DEF Segment
  <2> QED
    BY <2>1, <2>2
<1>5. ASSUME ~announced PROVE Marked' /\ CaughtUp' /\ IsSequence(outbox')
  <2>1. outbox' = outbox
    BY <1>2, <1>5, QueueGrows DEF Flushed, Viewed, Served
  <2>2. segment.active => old = new
    <3>1. CASE segment' = segment /\ UNCHANGED transitions
      BY <3>1
    <3>2. CASE segment' = segment /\ Len(transitions') <= segment.base
      <4>1. new = {}
        BY <1>3, <3>2 DEF IdsFrom
      <4>2. Len(transitions) <= Len(transitions')
        BY <1>3, SnapshotSteps, LastReplaced, Appended
      <4>3. old = {}
        BY <1>3, <3>2, <4>2 DEF IdsFrom
      <4> QED
        BY <4>1, <4>3
    <3>3. CASE segment' # segment
      <4>1. segment'.base = n /\ segment.active /\ old = {} /\ segment.base \in Nat
        BY <1>3, <1>4, <3>3
      <4>2. Len(transitions') <= n
        BY <1>2, <1>3, <1>5, <4>1
      <4>3. new = {}
        BY <1>3, <4>1, <4>2 DEF IdsFrom
      <4> QED
        BY <4>1, <4>3
    <3> QED
      BY <1>2, <1>5, <3>1, <3>2, <3>3
  <2> HIDE DEF old, new
  <2>3. segment.active /\ loop'.op \in {"none", "publish"} => loop.op \in {"none", "publish"}
    BY <1>2 DEF Flushed, AtRest, Bounded, TasksTyped
  <2>4. Marked'
    <3>1. \A m \in Messages(outbox) \union Messages(sending) :
            m.revision \in Nat /\ m.revision <= segment.revision
            /\ (segment.active /\ m.revision = segment.revision => m.id \in new)
      BY <2>2 DEF Viewed, Marked, old
    <3> QED
      BY <1>1, <1>4, <2>1, <3>1 DEF Marked, new
  <2>5. CaughtUp'
    <3> SUFFICES ASSUME segment.active, "failed" \notin slips, loop.op \in {"none", "publish"},
                        NEW i \in new
        PROVE  i \in told \/ \E m \in Messages(outbox) \union Messages(sending) :
                               m.revision = segment.revision /\ m.id = i
      BY <1>1, <1>4, <2>1, <2>3 DEF CaughtUp, new
    <3> QED
      BY <2>2 DEF Viewed, CaughtUp, old
  <2> QED
    BY <2>1, <2>4, <2>5 DEF Viewed, Served
<1>6. ASSUME announced PROVE Marked' /\ CaughtUp' /\ IsSequence(outbox')
  <2> DEFINE m == [id |-> transitions'[Len(transitions')].id, revision |-> segment'.revision]
  <2>1. segment.active /\ segment' = segment /\ Len(transitions') > segment.base
    BY <1>2, <1>6
  <2>2. Payload(transitions') = <<m>>
    BY <2>1 DEF Payload
  <2>3. new = old \union {m.id}
    <3>1. segment.base \in Nat /\ segment.base <= n
      BY <1>3
    <3>2. m.id \in new
      BY <1>3, <2>1 DEF IdsFrom
    <3>3. CASE UNCHANGED transitions
      BY <2>1, <3>2, <3>3
    <3>4. ASSUME transitions # <<>>, NEW u, u.id = LastTransition.id,
                 transitions' = [transitions EXCEPT ![Len(transitions)] = u]
          PROVE  new = old
      <4>1. IsSequence(transitions) /\ segment.base \in Nat
        BY <1>3
      <4>2. IdsFrom(transitions', segment.base) = IdsFrom(transitions, segment.base)
        BY <3>4, <4>1, IdsKept, Zenon
      <4> QED
        BY <2>1, <4>2
    <3>5. ASSUME NEW u, transitions' = Append(transitions, u)
          PROVE  new = old \union {m.id}
      <4>1. new = old \union {u.id}
        <5>1. IdsFrom(transitions', segment.base)
                = IdsFrom(transitions, segment.base) \union {u.id}
          <6>1. /\ IsSequence(transitions) /\ segment.base \in Nat
                /\ segment.base <= Len(transitions)
            BY <1>3
          <6> QED
            BY <3>5, <6>1, IdsOfAppended, Zenon
        <5> QED
          BY <2>1, <5>1
      <4>2. m.id = u.id
        BY <1>3, <3>5, Appended
      <4> QED
        BY <4>1, <4>2
    <3> HIDE DEF new, old, m
    <3> QED
      BY <3>2, <3>3, <3>4, <3>5, SnapshotSteps
  <2> HIDE DEF new, old
  <2>4. /\ m.revision = segment.revision /\ segment.revision \in Nat
    BY <1>3, <2>1 DEF Segment
  <2> HIDE DEF m
  <2>5. ASSUME flush.by = "monitor" \/ loop.op = "publish"
        PROVE  Marked' /\ CaughtUp' /\ IsSequence(outbox')
    <3>1. outbox' = Append(outbox, m) /\ Messages(outbox') = Messages(outbox) \union {m}
      <4>1. outbox' = outbox \o Payload(transitions')
        BY <1>2, <1>6, <2>5 DEF Flushed
      <4>2. outbox' = outbox \o <<m>> /\ IsSequence(outbox)
        BY <2>2, <4>1 DEF Viewed, Served
      <4> QED
        BY <4>2, QueueGrows
    <3>2. Marked'
      <4>1. \A k \in Messages(outbox') \union Messages(sending) :
              k.revision \in Nat /\ k.revision <= segment.revision
              /\ (k.revision = segment.revision => k.id \in new)
        BY <2>1, <2>3, <2>4, <3>1 DEF Viewed, Marked, old
      <4> QED
        BY <1>1, <2>1, <4>1 DEF Marked, new
    <3>3. segment.active /\ loop'.op \in {"none", "publish"} => loop.op \in {"none", "publish"}
      BY <1>2, <2>5 DEF Flushed, AtRest, Bounded, TasksTyped
    <3>4. CaughtUp'
      <4> SUFFICES ASSUME "failed" \notin slips, loop.op \in {"none", "publish"}, NEW i \in new
          PROVE  i \in told \/ \E k \in Messages(outbox') \union Messages(sending) :
                                 k.revision = segment.revision /\ k.id = i
        BY <1>1, <2>1, <3>3 DEF CaughtUp, new
      <4> QED
        BY <2>1, <2>3, <2>4, <3>1 DEF Viewed, CaughtUp, old
    <3>5. IsSequence(outbox')
      BY <3>1, QueueGrows DEF Viewed, Served
    <3> QED
      BY <3>2, <3>4, <3>5
  <2>6. ASSUME ~(flush.by = "monitor" \/ loop.op = "publish")
        PROVE  Marked' /\ CaughtUp' /\ IsSequence(outbox')
    <3>1. outbox' = outbox
      BY <1>2, <2>6 DEF Flushed
    <3>2. Marked'
      <4>1. \A k \in Messages(outbox) \union Messages(sending) :
              k.revision \in Nat /\ k.revision <= segment.revision
              /\ (k.revision = segment.revision => k.id \in new)
        BY <2>1, <2>3 DEF Viewed, Marked, old
      <4> QED
        BY <1>1, <2>1, <3>1, <4>1 DEF Marked, new
    <3>3. loop'.op \notin {"none", "publish"}
      <4>1. flush.by = "loop" /\ loop.at = "flushing" /\ loop.op # "none"
        BY <1>1, <2>6 DEF Viewed, Served
      <4>2. loop' = [loop EXCEPT !.at = "body"]
        BY <1>2, <2>6 DEF Flushed
      <4> QED
        BY <2>6, <4>1, <4>2 DEF Bounded, TasksTyped
    <3> QED
      BY <3>1, <3>2, <3>3 DEF Viewed, Served, CaughtUp
  <2> QED
    BY <2>5, <2>6
<1>7. Served'
  <2>1. IsSequence(outbox')
    BY <1>5, <1>6
  <2>2. \/ loop' = loop /\ flush.by = "monitor"
        \/ flush.by # "monitor" /\ loop' = AtRest
        \/ flush.by # "monitor" /\ loop' = [loop EXCEPT !.at = "body"]
    BY <1>2 DEF Flushed
  <2>3. flush.by # "monitor" => loop.at = "flushing"
    BY <1>1 DEF Viewed, Served
  <2> QED
    BY <1>1, <1>4, <2>1, <2>2, <2>3 DEF Viewed, Served, AtRest, Bounded, TasksTyped
<1> QED
  BY <1>5, <1>6, <1>7 DEF Viewed

LEMMA FailureViewed ==
  ASSUME Bounded, Viewed, FlushFails
  PROVE  Viewed'
<1>1. /\ UNCHANGED <<transitions, segment, outbox, sending, told>>
      /\ flush # NoFlush /\ flush' = NoFlush /\ slips \subseteq slips'
      /\ flush.by = "loop" /\ segment.active => "failed" \in slips'
      /\ loop' = IF flush.by = "monitor" THEN loop
                 ELSE IF loop.op = "start" THEN [loop EXCEPT !.at = "ended"] ELSE AtRest
  BY DEF FlushFails, client
<1>2. flush.by \in {"monitor", "loop"} /\ (flush.by = "loop" => loop.at = "flushing")
  BY <1>1 DEF Viewed, Served
<1>3. Marked' /\ CaughtUp'
  <2>1. segment.active /\ "failed" \notin slips' => UNCHANGED loop
    BY <1>1, <1>2
  <2> QED
    BY <1>1, <2>1, ViewKept DEF Viewed, client
<1>4. Served'
  BY <1>1, <1>2 DEF Viewed, Served, AtRest, Bounded, TasksTyped
<1> QED
  BY <1>3, <1>4 DEF Viewed

-----------------------------------------------------------------------------
(* The requests.                                                           *)

LEMMA StartViewed ==
  ASSUME Bounded, Viewed, StartFlow
  PROVE  Viewed'
<1> DEFINE first == IF candidate < current THEN candidate ELSE current
<1>1. /\ UNCHANGED <<transitions, outbox, sending, flush>> /\ loop' = AtRest
      /\ segment' = [active |-> TRUE, first |-> first, base |-> CountBefore(first),
                     checkpoint |-> states[first], revision |-> segment.revision + 1]
      /\ told' = {transitions[k].id : k \in CountBefore(first) + 1 .. Len(transitions)}
  BY DEF StartFlow
<1>2. flush = NoFlush
  BY DEF StartFlow, InBody
<1>3. segment.revision \in Nat
  BY DEF Bounded, ListsFit, ListsTyped, Segment
<1> HIDE DEF first
<1>4. Served'
  BY <1>1, <1>2 DEF Viewed, Served, AtRest
<1>5. Marked'
  <2>1. \A m \in Messages(outbox) \union Messages(sending) :
          m.revision \in Nat /\ m.revision <= segment.revision
    BY DEF Viewed, Marked
  <2>2. \A m \in Messages(outbox) \union Messages(sending) :
          m.revision \in Nat /\ m.revision < segment'.revision
    BY <1>1, <1>3, <2>1
  <2>3. segment'.revision \in Nat
    BY <1>1, <1>3
  <2> QED
    BY <1>1, <2>2, <2>3 DEF Marked
<1>6. CaughtUp'
  <2>1. IdsFrom(transitions', segment'.base) = told'
    BY <1>1 DEF IdsFrom
  <2> QED
    BY <2>1 DEF CaughtUp
<1> QED
  BY <1>4, <1>5, <1>6 DEF Viewed

(* A request that is refused, or fails, says so; then nothing is promised. *)
LEMMA RefusalsViewed ==
  ASSUME Bounded, Viewed, RefuseFinish \/ PersistFails \/ RefuseRewind
  PROVE  Viewed'
<1>1. /\ UNCHANGED <<transitions, segment, outbox, sending, told, flush>> /\ flush = NoFlush
      /\ loop' = AtRest /\ slips \subseteq slips' /\ (segment.active => "failed" \in slips')
  BY DEF RefuseFinish, PersistFails, RefuseRewind, Refuse, InBody, Slip, recording, client
<1>2. Marked' /\ CaughtUp'
  BY <1>1, ViewKept DEF Viewed, client
<1>3. Served'
  BY <1>1 DEF Viewed, Served, AtRest
<1> QED
  BY <1>2, <1>3 DEF Viewed

LEMMA FinishViewed ==
  ASSUME Bounded, Viewed, FinishSegment \/ StoreFlow
  PROVE  Viewed'
<1>1. UNCHANGED <<transitions, outbox, sending, told, flush>> /\ slips \subseteq slips'
  BY DEF FinishSegment, StoreFlow, Slip, recording, client
<1>2. \/ UNCHANGED segment /\ loop' = AtRest /\ (segment.active => "failed" \in slips')
      \/ /\ ~segment'.active /\ segment'.revision = segment.revision
         /\ loop' = [loop EXCEPT !.at = "store"] /\ loop = [op |-> "finish", at |-> "body"]
  <2>1. CASE StoreFlow
    BY <2>1 DEF StoreFlow, recording, Viewed, Served
  <2>2. CASE FinishSegment
    <3>1. \/ UNCHANGED segment /\ loop' = AtRest /\ "failed" \in slips'
          \/ /\ segment' = [segment EXCEPT !.active = FALSE, !.first = 0,
                                           !.base = Len(transitions)]
             /\ loop' = [loop EXCEPT !.at = "store"] /\ loop = [op |-> "finish", at |-> "body"]
      BY <2>2 DEF FinishSegment, InBody, Slip
    <3>2. segment \in Segment
      BY DEF Bounded, ListsFit, ListsTyped
    <3> QED
      BY <3>1, <3>2 DEF Segment
  <2> QED
    BY <2>1, <2>2
<1>3. flush = NoFlush \/ flush.by # "loop"
  BY DEF FinishSegment, StoreFlow, InBody, Viewed, Served
<1>4. Served'
  BY <1>1, <1>2, <1>3 DEF Viewed, Served, AtRest
<1>5. CASE UNCHANGED segment /\ loop' = AtRest /\ (segment.active => "failed" \in slips')
  <2>1. Marked' /\ CaughtUp'
    BY <1>1, <1>5, ViewKept DEF Viewed, client
  <2> QED
    BY <1>4, <2>1 DEF Viewed
<1>6. CASE ~segment'.active /\ segment'.revision = segment.revision
  BY <1>1, <1>4, <1>6 DEF Viewed, Marked, CaughtUp
<1> QED
  BY <1>2, <1>5, <1>6

LEMMA RewindViewed ==
  ASSUME Bounded, Viewed, PrepareRewind \/ Replay \/ Activate
  PROVE  Viewed'
<1>1. /\ UNCHANGED <<transitions, segment, sending, told, flush>> /\ slips \subseteq slips'
      /\ flush = NoFlush /\ segment.active
  BY DEF PrepareRewind, Replay, Activate, Slip, InBody, recording, client, history, Bounded,
         PlanFits
<1>2. \/ /\ UNCHANGED outbox
         /\ \/ loop' = AtRest /\ "failed" \in slips'
            \/ loop.at = "replay" /\ loop' = [loop EXCEPT !.at = "activate"]
            \/ loop.at = "activate" /\ loop' = [loop EXCEPT !.at = "commit"]
      \/ /\ outbox' = <<>>
         /\ loop = [op |-> "rewind", at |-> "body"] /\ loop' = [loop EXCEPT !.at = "replay"]
  BY DEF PrepareRewind, Replay, Activate, GiveUp, InBody, Slip, client
<1>3. IsSequence(outbox') /\ Messages(outbox') \subseteq Messages(outbox)
  BY <1>2, ShortQueues DEF Viewed, Served
<1>4. Marked'
  BY <1>1, <1>3 DEF Viewed, Marked
<1>5. Served'
  BY <1>1, <1>2, <1>3 DEF Viewed, Served, AtRest, Bounded, TasksTyped
<1>6. CaughtUp'
  <2>1. CASE /\ outbox' = <<>>
             /\ loop = [op |-> "rewind", at |-> "body"] /\ loop' = [loop EXCEPT !.at = "replay"]
    BY <2>1 DEF CaughtUp
  <2>2. CASE UNCHANGED outbox /\ loop' = AtRest /\ "failed" \in slips'
    BY <2>2 DEF CaughtUp
  <2>3. CASE UNCHANGED outbox /\ UNCHANGED loop.op
    BY <1>1, <2>3 DEF Viewed, CaughtUp
  <2> QED
    BY <1>2, <2>1, <2>2, <2>3 DEF Bounded, TasksTyped
<1> QED
  BY <1>4, <1>5, <1>6 DEF Viewed

LEMMA NextRevisionSets ==
  ASSUME NEW f, NEW b, NEW c, segment \in Segment, segment' = NextRevision(f, b, c)
  PROVE  /\ segment'.revision = segment.revision + 1
         /\ segment'.active = segment.active
         /\ segment'.base = b
<1> DEFINE moved == [segment EXCEPT !.first = f, !.base = b, !.checkpoint = c]
<1>1. /\ moved.revision = segment.revision /\ moved.active = segment.active /\ moved.base = b
      /\ DOMAIN moved = {"active", "first", "base", "checkpoint", "revision"}
  BY DEF Segment
<1>2. segment' = [moved EXCEPT !.revision = @ + 1]
  BY Zenon DEF NextRevision
<1> HIDE DEF moved
<1> QED
  BY <1>1, <1>2

(* What is kept of the steps has been told, and all that waits is old.     *)
LEMMA CommitViewed ==
  ASSUME Bounded, Viewed, CommitRewind
  PROVE  Viewed'
<1> DEFINE cut == segment.base + plan.keep
           kept == SubSeq(transitions, 1, cut)
<1>1. /\ outbox' = <<>> /\ UNCHANGED <<sending, flush>> /\ flush = NoFlush /\ loop' = AtRest
      /\ told' = {kept[k].id : k \in segment.base + 1 .. cut}
      /\ \/ /\ plan.keep > 0
            /\ \E t : transitions' = [kept EXCEPT ![cut].target = t]
            /\ segment' = NextRevision(segment.first, segment.base, segment.checkpoint)
         \/ /\ ~plan.keep > 0
            /\ transitions' = kept
            /\ \E f : segment' = NextRevision(f, cut, plan.page)
  BY DEF CommitRewind, GiveUp
<1>2. /\ segment.active /\ plan.keep \in 0 .. Len(transitions) - segment.base
      /\ segment \in Segment /\ segment.revision \in Nat /\ segment.base \in Nat
      /\ IsSequence(transitions) /\ Len(transitions) \in Nat
      /\ segment.base <= Len(transitions)
      /\ \A k \in 1 .. Len(transitions) : IsTransition(transitions[k])
  BY SequenceLen DEF CommitRewind, Bounded, PlanFits, ListsFit, ListsTyped, SegmentFits, Segment
<1>3. /\ IsSequence(kept) /\ Len(kept) = cut /\ cut \in Nat
      /\ \A k \in 1 .. cut : kept[k] = transitions[k]
  <2>1. cut \in 0 .. Len(transitions)
    BY <1>2
  <2> QED
    <3>1. IsSequence(transitions)
      BY <1>2
    <3> HIDE DEF cut
    <3>2. IsSequence(kept) /\ Len(kept) = cut /\ \A k \in 1 .. cut : kept[k] = transitions[k]
      BY <2>1, <3>1, CutShort
    <3> QED
      BY <1>2, <2>1, <3>2
<1>4. /\ segment'.revision = segment.revision + 1 /\ segment'.active
      /\ segment'.base = IF plan.keep > 0 THEN segment.base ELSE cut
  <2>1. segment \in Segment /\ segment.active
    BY <1>2
  <2>2. \/ plan.keep > 0 /\ \E f, c : segment' = NextRevision(f, segment.base, c)
        \/ ~plan.keep > 0 /\ \E f, c : segment' = NextRevision(f, cut, c)
    BY <1>1
  <2> HIDE DEF cut
  <2>3. ASSUME NEW f, NEW b, NEW c, segment' = NextRevision(f, b, c)
        PROVE  segment'.revision = segment.revision + 1 /\ segment'.active /\ segment'.base = b
    <3>1. /\ segment'.revision = segment.revision + 1
          /\ segment'.active = segment.active
          /\ segment'.base = b
      BY <2>1, <2>3, NextRevisionSets, Zenon
    <3> QED
      BY <2>1, <3>1
  <2> QED
    BY <2>2, <2>3
<1>5. Served'
  BY <1>1, ShortQueues DEF Viewed, Served, AtRest
<1>6. Marked'
  <2>1. \A m \in Messages(sending) : m.revision \in Nat /\ m.revision < segment'.revision
    BY <1>2, <1>4 DEF Viewed, Marked
  <2> QED
    BY <1>1, <1>2, <1>4, <2>1, ShortQueues DEF Marked
<1>7. IdsFrom(transitions', segment'.base) \subseteq told'
  <2>1. CASE plan.keep > 0
    <3>1. PICK t : transitions' = [kept EXCEPT ![cut].target = t]
      BY <1>1, <2>1
    <3> DEFINE u == [kept[cut] EXCEPT !.target = t]
    <3>2. cut \in 1 .. Len(transitions) /\ kept # <<>>
      BY <1>2, <1>3, <2>1, SequenceLen
    <3>3. u.id = kept[cut].id
      BY <1>2, <1>3, <3>2 DEF IsTransition
    <3>4. transitions' = [kept EXCEPT ![Len(kept)] = u]
      BY <1>3, <3>1, Zenon
    <3> HIDE DEF u
    <3>5. IdsFrom(transitions', segment.base) = IdsFrom(kept, segment.base)
      <4>1. u.id = kept[Len(kept)].id /\ segment.base \in Nat
        BY <1>2, <1>3, <3>3
      <4>2. IsSequence(kept)
        BY <1>3
      <4> HIDE DEF kept, cut
      <4> QED
        BY <3>2, <3>4, <4>1, <4>2, IdsOfReplaced, Zenon
    <3>6. IdsFrom(kept, segment.base) = told'
      BY <1>1, <1>3 DEF IdsFrom
    <3> QED
      BY <1>4, <2>1, <3>5, <3>6
  <2>2. CASE ~plan.keep > 0
    <3>1. transitions' = kept /\ segment'.base = cut
      BY <1>1, <1>4, <2>2
    <3>2. IdsFrom(kept, cut) = {}
      BY <1>3 DEF IdsFrom
    <3> QED
      BY <3>1, <3>2
  <2> QED
    BY <2>1, <2>2
<1>8. CaughtUp'
  BY <1>7 DEF CaughtUp
<1> QED
  BY <1>5, <1>6, <1>8 DEF Viewed

LEMMA StepViewed ==
  ASSUME Bounded, Viewed, [Next]_vars
  PROVE  Viewed'
<1>1. CASE UNCHANGED vars
  <2>1. UNCHANGED <<transitions, segment, outbox, sending, told, flush, loop, slips>>
    BY <1>1 DEF vars, recording, client, history
  <2>2. Marked' /\ CaughtUp'
    BY <2>1, ViewKept DEF Viewed, client
  <2> QED
    BY <2>1, <2>2 DEF Viewed, Served
<1>2. CASE Next
  BY <1>2, OthersAreViewed, SendersAreViewed, SnapshotViewed, FailureViewed, StartViewed,
     RefusalsViewed, FinishViewed, RewindViewed, CommitViewed DEF Next, LoopSteps
<1> QED
  BY <1>1, <1>2

LEMMA InitViewed == Init => Viewed
<1> SUFFICES ASSUME Init PROVE Viewed
  OBVIOUS
<1>1. outbox = <<>> /\ sending = <<>> /\ flush = NoFlush /\ loop = AtRest /\ ~segment.active
  BY DEF Init
<1>2. Served
  BY <1>1, ShortQueues DEF Served, AtRest
<1>3. Marked /\ CaughtUp
  BY <1>1, ShortQueues DEF Marked, CaughtUp
<1> QED
  BY <1>2, <1>3 DEF Viewed

LEMMA ViewedFollows ==
  ASSUME Bounded, Viewed
  PROVE  ClientFollows
<1>1. segment.active => Ids(Entries) = IdsFrom(transitions, segment.base)
  BY IdsAre DEF Bounded, ListsFit, ListsTyped, SegmentFits, Segment, Entries
<1>2. ToSend = Messages(outbox) \union Messages(sending)
  BY DEF ToSend, Messages
<1>3. ClientIsCaughtUp
  <2> SUFFICES ASSUME segment.active, loop = AtRest, "failed" \notin slips, NEW i \in Ids(Entries)
      PROVE  i \in told \union {m.id : m \in ToSend}
    BY DEF ClientIsCaughtUp
  <2>1. i \in told \/ \E m \in ToSend : m.id = i
    BY <1>1, <1>2 DEF Viewed, CaughtUp, AtRest
  <2> QED
    BY <2>1
<1>4. StaleStepsAreMarked
  BY <1>1, <1>2 DEF Viewed, Marked, StaleStepsAreMarked
<1> QED
  BY <1>3, <1>4 DEF ClientFollows

(* Whatever is flushed, rewound, refused or started anew while steps wait  *)
(* to be sent, the client is sent every step of the flow, and can tell     *)
(* those that are not in it any more (_step_sender, commit_rewind, start). *)
THEOREM ClientsFollow == Spec => []ClientFollows
<1>1. Init => Bounded /\ Viewed
  BY InitBounded, InitViewed
<1>2. Bounded /\ Viewed /\ [Next]_vars => (Bounded /\ Viewed)'
  BY StepBounded, StepViewed
<1>3. Bounded /\ Viewed => ClientFollows
  BY ViewedFollows
<1> QED
  BY <1>1, <1>2, <1>3, PTL DEF Spec

-----------------------------------------------------------------------------
(* What events become.                                                     *)

LEMMA NumbersFromZero ==
  ASSUME NEW S \in SUBSET Nat, 0 \in S, \A n \in S : n + 1 \in S
  PROVE  \A n \in Nat : n \in S
<1> SUFFICES ASSUME NEW m \in Nat, m \notin S PROVE FALSE
  OBVIOUS
<1>1. PICK n \in Nat \ S : \A k \in Nat \ S : n <= k
  <2>1. Nat \ S \subseteq Nat /\ Nat \ S # {}
    OBVIOUS
  <2> QED
    BY <2>1, LeastOf
<1>2. n - 1 \in Nat /\ ~(n <= n - 1)
  BY <1>1
<1>3. n - 1 \in S
  BY <1>1, <1>2
<1> QED
  BY <1>1, <1>3

(* All events of the list are on the element.                              *)
AllOn(s, el) == \A k \in 1 .. Len(s) : s[k].on = el

LEMMA CompactedFits ==
  ASSUME NEW before \in Seq(Event), NEW e \in Event
  PROVE  /\ Compacted(before, e) \in Seq(Event) /\ Compacted(before, e) # <<>>
         /\ Last(Compacted(before, e)) = e
         /\ \A el : AllOn(Compacted(before, e), el) => AllOn(before, el) /\ e.on = el
<1> DEFINE focused == before # <<>> /\ Last(before).by = "click" /\ OnSame(Last(before), e)
           rest == IF Typing(e) /\ focused THEN Front(before) ELSE before
           again == Typing(e) /\ rest # <<>> /\ Typing(Last(rest)) /\ OnSame(Last(rest), e)
           result == IF again THEN Append(Front(rest), e) ELSE Append(rest, e)
<1>1. Compacted(before, e) = result
  BY DEF Compacted
<1>2. \A s \in Seq(Event) : s # <<>> =>
        /\ Front(s) \in Seq(Event) /\ Len(s) \in Nat \ {0} /\ Len(Front(s)) = Len(s) - 1
        /\ \A k \in 1 .. Len(s) - 1 : Front(s)[k] = s[k]
  <2> SUFFICES ASSUME NEW s \in Seq(Event), s # <<>>
      PROVE  /\ Front(s) \in Seq(Event) /\ Len(s) \in Nat \ {0} /\ Len(Front(s)) = Len(s) - 1
             /\ \A k \in 1 .. Len(s) - 1 : Front(s)[k] = s[k]
    OBVIOUS
  <2>1. Len(s) \in Nat \ {0}
    OBVIOUS
  <2>2. SubSeq(s, 1, Len(s) - 1) \in Seq(Event)
    BY <2>1
  <2>3. /\ Len(SubSeq(s, 1, Len(s) - 1)) = Len(s) - 1
        /\ \A k \in 1 .. Len(s) - 1 : SubSeq(s, 1, Len(s) - 1)[k] = s[k]
    <3>1. IsSequence(s) /\ Len(s) - 1 \in 0 .. Len(s)
      BY <2>1 DEF IsSequence
    <3> QED
      BY <3>1, CutShort
  <2> QED
    BY <2>1, <2>2, <2>3 DEF Front
<1>3. \A s \in Seq(Event) :
        /\ Append(s, e) \in Seq(Event) /\ Append(s, e) # <<>> /\ Last(Append(s, e)) = e
        /\ Len(s) \in Nat /\ Len(Append(s, e)) = Len(s) + 1 /\ Append(s, e)[Len(s) + 1] = e
        /\ \A k \in 1 .. Len(s) : Append(s, e)[k] = s[k]
  BY DEF Last
(* What is left out is on the same element as the event.                   *)
<1>4. ASSUME NEW s \in Seq(Event), s # <<>>, OnSame(Last(s), e), NEW el, AllOn(Front(s), el),
             e.on = el
      PROVE  AllOn(s, el)
  <2> SUFFICES ASSUME NEW k \in 1 .. Len(s) PROVE s[k].on = el
    BY DEF AllOn
  <2>1. CASE k = Len(s)
    BY <1>4, <2>1 DEF OnSame, Last
  <2>2. CASE k # Len(s)
    <3>1. k \in 1 .. Len(s) - 1 /\ Len(Front(s)) = Len(s) - 1
      BY <1>2, <1>4, <2>2
    <3>2. Front(s)[k] = s[k]
      BY <1>2, <1>4, <3>1
    <3> QED
      BY <1>4, <3>1, <3>2 DEF AllOn
  <2> QED
    BY <2>1, <2>2
<1>5. ASSUME NEW s \in Seq(Event), NEW el, AllOn(Append(s, e), el)
      PROVE  AllOn(s, el) /\ e.on = el
  BY <1>3, <1>5 DEF AllOn
<1>6. rest \in Seq(Event)
  BY <1>2
<1>7. \A el : AllOn(rest, el) /\ e.on = el => AllOn(before, el)
  BY <1>4
<1> HIDE DEF rest
<1>8. result \in Seq(Event) /\ result # <<>> /\ Last(result) = e
  BY <1>2, <1>3, <1>6
<1>9. ASSUME NEW el, AllOn(result, el) PROVE AllOn(rest, el) /\ e.on = el
  <2>1. CASE again
    <3>1. Front(rest) \in Seq(Event)
      BY <1>2, <1>6, <2>1
    <3>2. AllOn(Front(rest), el) /\ e.on = el
      BY <1>5, <1>9, <2>1, <3>1
    <3> QED
      BY <1>4, <1>6, <2>1, <3>2
  <2>2. CASE ~again
    BY <1>5, <1>6, <1>9, <2>2
  <2> QED
    BY <2>1, <2>2
<1> HIDE DEF result
<1> QED
  BY <1>1, <1>7, <1>8, <1>9

(* What the first events become.                                           *)
Compacts(f, events, n) ==
  f = [k \in 0 .. n |-> IF k = 0 THEN <<>> ELSE Compacted(f[k - 1], events[k])]

LEMMA CompactsSomething ==
  ASSUME NEW events
  PROVE  \A n \in Nat : \E f : Compacts(f, events, n)
<1> DEFINE S == {n \in Nat : \E f : Compacts(f, events, n)}
<1>1. 0 \in S
  <2> DEFINE f == [k \in 0 .. 0 |-> <<>>]
  <2>1. f = [k \in 0 .. 0 |-> IF k = 0 THEN <<>> ELSE Compacted(f[k - 1], events[k])]
    OBVIOUS
  <2> QED
    BY <2>1 DEF Compacts
<1>2. ASSUME NEW n \in S PROVE n + 1 \in S
  <2>1. PICK f : Compacts(f, events, n)
    OBVIOUS
  <2> DEFINE g == [k \in 0 .. n + 1 |-> IF k = n + 1 THEN Compacted(f[n], events[n + 1]) ELSE f[k]]
  <2>2. ASSUME NEW k \in 0 .. n + 1
        PROVE  g[k] = IF k = 0 THEN <<>> ELSE Compacted(g[k - 1], events[k])
    <3>1. CASE k = n + 1
      <4>1. k # 0 /\ k - 1 = n /\ n \in 0 .. n + 1 /\ n # n + 1
        BY <3>1
      <4>2. g[k] = Compacted(f[n], events[n + 1]) /\ g[k - 1] = f[n]
        BY <3>1, <4>1
      <4> QED
        BY <3>1, <4>1, <4>2
    <3>2. CASE k = 0
      BY <2>1, <3>2 DEF Compacts
    <3>3. CASE k # 0 /\ k # n + 1
      <4>1. k \in 0 .. n /\ k - 1 \in 0 .. n
        BY <3>3
      <4>2. g[k] = f[k] /\ g[k - 1] = f[k - 1]
        BY <4>1
      <4>3. f[k] = Compacted(f[k - 1], events[k])
        BY <2>1, <3>3, <4>1 DEF Compacts
      <4> QED
        BY <3>3, <4>2, <4>3
    <3> QED
      BY <3>1, <3>2, <3>3
  <2>3. Compacts(g, events, n + 1)
    BY <2>2 DEF Compacts
  <2> QED
    BY <2>3
<1>3. S \in SUBSET Nat
  OBVIOUS
<1> HIDE DEF S
<1>4. \A n \in Nat : n \in S
  BY <1>1, <1>2, <1>3, NumbersFromZero
<1> QED
  BY <1>4 DEF S

(* Nothing is lost of what matters: the last event is the last action, and *)
(* typing that is on one element comes from events on that element only.   *)
LEMMA CompactFits ==
  ASSUME NEW events \in Seq(Event)
  PROVE  /\ Compact(events) \in Seq(Event)
         /\ events # <<>> => Compact(events) # <<>> /\ Last(Compact(events)) = Last(events)
         /\ \A el : AllOn(Compact(events), el) => AllOn(events, el)
<1> DEFINE n == Len(events)
           f == CHOOSE f : Compacts(f, events, n)
<1>1. n \in Nat /\ (events # <<>> => n # 0)
  OBVIOUS
<1>2. Compacts(f, events, n)
  BY <1>1, CompactsSomething
<1>3. Compact(events) = f[n]
  BY DEF Compact, Compacts
<1> HIDE DEF f, n
<1> DEFINE Good(k) == /\ f[k] \in Seq(Event)
                      /\ k # 0 => f[k] # <<>> /\ Last(f[k]) = events[k]
                      /\ \A el : AllOn(f[k], el) => \A i \in 1 .. k : events[i].on = el
           S == {k \in Nat : k <= n => Good(k)}
<1>4. 0 \in S
  <2>1. f[0] = <<>>
    BY <1>1, <1>2 DEF Compacts
  <2>2. f[0] \in Seq(Event) /\ \A el : \A i \in 1 .. 0 : events[i].on = el
    BY <2>1
  <2> QED
    BY <2>2
<1>5. ASSUME NEW k \in S PROVE k + 1 \in S
  <2> SUFFICES ASSUME k + 1 <= n PROVE Good(k + 1)
    OBVIOUS
  <2>1. k + 1 # 0 /\ k + 1 \in 0 .. n /\ (k + 1) - 1 = k /\ k <= n /\ k + 1 \in 1 .. n
    BY <1>1
  <2>2. f[k + 1] = Compacted(f[k], events[k + 1])
    BY <1>2, <2>1 DEF Compacts
  <2>3. Good(k)
    BY <2>1
  <2>4. events[k + 1] \in Event
    BY <2>1 DEF n
  <2>5. /\ f[k + 1] \in Seq(Event) /\ f[k + 1] # <<>> /\ Last(f[k + 1]) = events[k + 1]
        /\ \A el : AllOn(f[k + 1], el) => AllOn(f[k], el) /\ events[k + 1].on = el
    <3>1. f[k] \in Seq(Event)
      BY <2>3
    <3> DEFINE before == f[k]
               e == events[k + 1]
    <3>2. before \in Seq(Event) /\ e \in Event
      BY <2>4, <3>1
    <3>3. f[k + 1] = Compacted(before, e)
      BY <2>2
    <3> HIDE DEF before, e
    <3>4. /\ Compacted(before, e) \in Seq(Event) /\ Compacted(before, e) # <<>>
          /\ Last(Compacted(before, e)) = e
          /\ \A el : AllOn(Compacted(before, e), el) => AllOn(before, el) /\ e.on = el
      BY <3>2, CompactedFits, Zenon
    <3> QED
      BY <3>3, <3>4, Zenon DEF before, e
  <2>6. ASSUME NEW el, AllOn(f[k + 1], el), NEW i \in 1 .. k + 1 PROVE events[i].on = el
    <3>1. CASE i = k + 1
      BY <2>5, <2>6, <3>1
    <3>2. CASE i # k + 1
      BY <2>3, <2>5, <2>6, <3>2
    <3> QED
      BY <3>1, <3>2
  <2> QED
    BY <2>5, <2>6
<1>6. S \in SUBSET Nat
  OBVIOUS
<1>7. n \in S
  <2> HIDE DEF S
  <2> QED
    BY <1>1, <1>4, <1>5, <1>6, NumbersFromZero
<1>8. Good(n)
  BY <1>1, <1>7
<1> QED
  BY <1>1, <1>3, <1>8 DEF AllOn, Last, n

(* The events that map to something, of the first ones.                    *)
Keeps(f, kept, found, n) ==
  f = [k \in 0 .. n |->
         IF k = 0 THEN <<>>
         ELSE IF kept[k].on \in found THEN Append(f[k - 1], kept[k]) ELSE f[k - 1]]

LEMMA KeepsSomething ==
  ASSUME NEW kept, NEW found
  PROVE  \A n \in Nat : \E f : Keeps(f, kept, found, n)
<1> DEFINE S == {n \in Nat : \E f : Keeps(f, kept, found, n)}
           next(s, k) == IF kept[k].on \in found THEN Append(s, kept[k]) ELSE s
<1>1. 0 \in S
  <2> DEFINE f == [k \in 0 .. 0 |-> <<>>]
  <2>1. f = [k \in 0 .. 0 |->
               IF k = 0 THEN <<>>
               ELSE IF kept[k].on \in found THEN Append(f[k - 1], kept[k]) ELSE f[k - 1]]
    OBVIOUS
  <2> QED
    BY <2>1 DEF Keeps
<1>2. ASSUME NEW n \in S PROVE n + 1 \in S
  <2>1. PICK f : Keeps(f, kept, found, n)
    OBVIOUS
  <2> DEFINE g == [k \in 0 .. n + 1 |-> IF k = n + 1 THEN next(f[n], n + 1) ELSE f[k]]
  <2> HIDE DEF next
  <2>2. ASSUME NEW k \in 0 .. n + 1
        PROVE  g[k] = IF k = 0 THEN <<>> ELSE next(g[k - 1], k)
    <3>1. CASE k = n + 1
      <4>1. k # 0 /\ k - 1 = n /\ n \in 0 .. n + 1 /\ n # n + 1
        BY <3>1
      <4>2. g[k] = next(f[n], n + 1) /\ g[k - 1] = f[n]
        BY <3>1, <4>1
      <4> QED
        BY <3>1, <4>1, <4>2
    <3>2. CASE k = 0
      BY <2>1, <3>2 DEF Keeps
    <3>3. CASE k # 0 /\ k # n + 1
      <4>1. k \in 0 .. n /\ k - 1 \in 0 .. n
        BY <3>3
      <4>2. g[k] = f[k] /\ g[k - 1] = f[k - 1]
        BY <4>1
      <4>3. f[k] = next(f[k - 1], k)
        BY <2>1, <3>3, <4>1 DEF Keeps, next
      <4> QED
        BY <3>3, <4>2, <4>3
    <3> QED
      BY <3>1, <3>2, <3>3
  <2>3. g = [k \in 0 .. n + 1 |-> IF k = 0 THEN <<>> ELSE next(g[k - 1], k)]
    BY <2>2
  <2>4. Keeps(g, kept, found, n + 1)
    <3> HIDE DEF g
    <3> QED
      BY <2>3 DEF Keeps, next
  <2> QED
    BY <2>4
<1>3. S \in SUBSET Nat
  OBVIOUS
<1> HIDE DEF S
<1>4. \A n \in Nat : n \in S
  BY <1>1, <1>2, <1>3, NumbersFromZero
<1> QED
  BY <1>4 DEF S

LEMMA ActionsFit ==
  ASSUME NEW events \in Seq(Event), NEW found
  PROVE  /\ ActionsOf(events, found) \in Seq(Event)
         /\ Len(ActionsOf(events, found)) < Len(Compact(events))
              \/ ActionsOf(events, found) = Compact(events)
<1> DEFINE kept == Compact(events)
           n == Len(kept)
           f == CHOOSE f : Keeps(f, kept, found, n)
<1>1. kept \in Seq(Event) /\ n \in Nat /\ \A k \in 1 .. n : kept[k] \in Event
  BY CompactFits
<1>2. Keeps(f, kept, found, n)
  BY <1>1, KeepsSomething
<1>3. ActionsOf(events, found) = f[n]
  BY DEF ActionsOf, Keeps
<1> HIDE DEF f, n, kept
<1> DEFINE Good(k) == /\ f[k] \in Seq(Event) /\ Len(f[k]) <= k
                      /\ Len(f[k]) = k => \A i \in 1 .. k : f[k][i] = kept[i]
           S == {k \in Nat : k <= n => Good(k)}
<1>4. 0 \in S
  <2>1. f[0] = <<>>
    BY <1>1, <1>2 DEF Keeps
  <2>2. f[0] \in Seq(Event) /\ Len(f[0]) <= 0
    BY <2>1
  <2>3. \A i \in 1 .. 0 : f[0][i] = kept[i]
    OBVIOUS
  <2> QED
    BY <2>2, <2>3
<1>5. ASSUME NEW k \in S PROVE k + 1 \in S
  <2> SUFFICES ASSUME k + 1 <= n PROVE Good(k + 1)
    OBVIOUS
  <2>1. k + 1 # 0 /\ k + 1 \in 0 .. n /\ (k + 1) - 1 = k /\ k <= n /\ k + 1 \in 1 .. n
    BY <1>1
  <2>2. f[k + 1] = IF kept[k + 1].on \in found THEN Append(f[k], kept[k + 1]) ELSE f[k]
    BY <1>2, <2>1 DEF Keeps
  <2>3. Good(k) /\ kept[k + 1] \in Event
    BY <1>1, <2>1
  <2>4. CASE f[k + 1] = f[k]
    BY <2>3, <2>4
  <2>5. CASE f[k + 1] = Append(f[k], kept[k + 1])
    <3>1. f[k + 1] \in Seq(Event) /\ Len(f[k + 1]) = Len(f[k]) + 1 /\ Len(f[k]) \in Nat
      BY <2>3, <2>5
    <3>2. ASSUME Len(f[k + 1]) = k + 1, NEW i \in 1 .. k + 1 PROVE f[k + 1][i] = kept[i]
      <4>1. Len(f[k]) = k
        BY <3>1, <3>2
      <4>2. CASE i = k + 1
        BY <2>3, <2>5, <4>1, <4>2
      <4>3. CASE i # k + 1
        BY <2>3, <2>5, <4>1, <4>3
      <4> QED
        BY <4>2, <4>3
    <3> QED
      BY <2>3, <3>1, <3>2
  <2> QED
    BY <2>2, <2>4, <2>5
<1>6. S \in SUBSET Nat
  OBVIOUS
<1>7. n \in S
  <2> HIDE DEF S
  <2> QED
    BY <1>1, <1>4, <1>5, <1>6, NumbersFromZero
<1>8. Good(n)
  BY <1>1, <1>7
<1>9. Len(f[n]) = n => f[n] = kept
  <2>1. Len(kept) = n
    BY DEF n
  <2> QED
    BY <1>1, <1>8, <2>1
<1> QED
  BY <1>1, <1>3, <1>8, <1>9 DEF kept, n

(* If no event is left out, the actions tell what the events did.          *)
LEMMA EventsAreMapped ==
  ASSUME NEW events \in Seq(Event), events # <<>>, NEW found,
         NEW acts, acts = ActionsOf(events, found), ~(Len(acts) < Len(Compact(events)))
  PROVE  /\ acts \in Seq(Event) /\ acts # <<>> /\ Last(acts) = Last(events)
         /\ \A el : AllOn(acts, el) => AllOn(events, el)
<1>1. acts = Compact(events)
  BY ActionsFit
<1> QED
  BY <1>1, CompactFits

-----------------------------------------------------------------------------
(* The segment is a path.                                                  *)

(* The steps after the first b lead from one state to the other.           *)
Chain(ts, b, from, to) ==
  /\ Len(ts) = b => from = to
  /\ Len(ts) > b => ts[b + 1].source = from /\ ts[Len(ts)].target = to
  /\ \A k \in b + 1 .. Len(ts) - 1 : ts[k].target = ts[k + 1].source

(* The first b steps are those that start before state c.                  *)
Splits(ts, c, b) ==
  /\ b \in 0 .. Len(ts)
  /\ \A k \in 1 .. b : ts[k].source < c
  /\ \A k \in b + 1 .. Len(ts) : ts[k].source >= c

Attributable == slips \intersect {"unmapped", "unresolved", "unexplained"} = {}

LeadsFrom(ts, c, to) == \E b \in 0 .. Len(ts) : Splits(ts, c, b) /\ Chain(ts, b, c, to)

(* A flow that starts now would start with a path, too.                    *)
Linked ==
  Attributable =>
    /\ segment.active => Chain(transitions, segment.base, segment.first, current)
    /\ ~segment.active => LeadsFrom(transitions, candidate, current)

LEMMA ChainGrows ==
  ASSUME NEW ts, IsSequence(ts), NEW b \in Nat, b <= Len(ts), NEW from, NEW mid,
         Chain(ts, b, from, mid), NEW u, u.source = mid, NEW r, r = Append(ts, u)
  PROVE  Chain(r, b, from, u.target)
<1>1. /\ Len(ts) \in Nat /\ Len(r) = Len(ts) + 1 /\ r[Len(ts) + 1] = u
      /\ \A k \in 1 .. Len(ts) : r[k] = ts[k]
  <2>1. Len(ts) \in Nat /\ Len(r) = Len(ts) + 1
    BY Appended
  <2>2. r[Len(ts) + 1] = u
    BY Appended
  <2>3. \A k \in 1 .. Len(ts) : r[k] = ts[k]
    BY Appended
  <2> QED
    BY <2>1, <2>2, <2>3
<1>2. r[b + 1].source = from
  BY <1>1 DEF Chain
<1>3. r[Len(r)].target = u.target
  BY <1>1
<1>4. ASSUME NEW k \in b + 1 .. Len(r) - 1 PROVE r[k].target = r[k + 1].source
  <2>1. CASE k = Len(ts)
    <3>1. ts[k].target = mid
      BY <1>1, <2>1 DEF Chain
    <3> QED
      BY <1>1, <2>1, <3>1
  <2>2. CASE k # Len(ts)
    <3>1. k \in b + 1 .. Len(ts) - 1 /\ k \in 1 .. Len(ts) /\ k + 1 \in 1 .. Len(ts)
      BY <1>1, <2>2
    <3>2. ts[k].target = ts[k + 1].source
      BY <3>1 DEF Chain
    <3> QED
      BY <1>1, <3>1, <3>2
  <2> QED
    BY <2>1, <2>2
<1> QED
  BY <1>1, <1>2, <1>3, <1>4 DEF Chain

LEMMA ChainEndMoves ==
  ASSUME NEW ts, IsSequence(ts), NEW b \in Nat, b < Len(ts), NEW from, NEW mid,
         Chain(ts, b, from, mid), NEW u, u.source = ts[Len(ts)].source,
         NEW r, r = [ts EXCEPT ![Len(ts)] = u]
  PROVE  Chain(r, b, from, u.target)
<1>1. /\ Len(ts) \in Nat /\ Len(r) = Len(ts) /\ r[Len(ts)] = u
      /\ \A k \in 1 .. Len(ts) : k # Len(ts) => r[k] = ts[k]
  <2>0. ts # <<>>
    BY SequenceLen
  <2>1. Len(ts) \in Nat /\ Len(r) = Len(ts)
    BY <2>0, LastReplaced
  <2>2. r[Len(ts)] = u
    BY <2>0, LastReplaced
  <2>3. \A k \in 1 .. Len(ts) : k # Len(ts) => r[k] = ts[k]
    BY <2>0, LastReplaced
  <2> QED
    BY <2>1, <2>2, <2>3
<1>2. \A k \in 1 .. Len(ts) : r[k].source = ts[k].source
  BY <1>1
<1>3. r[b + 1].source = from
  BY <1>1, <1>2 DEF Chain
<1>4. ASSUME NEW k \in b + 1 .. Len(r) - 1 PROVE r[k].target = r[k + 1].source
  BY <1>1, <1>2 DEF Chain
<1> QED
  BY <1>1, <1>3, <1>4 DEF Chain

(* Of the steps, those that start at the last state stay there.            *)
LEMMA ChainRestarts ==
  ASSUME NEW ts, IsSequence(ts), \A k \in 1 .. Len(ts) : IsTransition(ts[k]),
         NEW c \in Nat, NEW last \in Nat, c <= last, InOrder(ts, c, last)
  PROVE  LeadsFrom(ts, last, last)
<1> DEFINE n == Len(ts)
           late == {k \in 1 .. n : ts[k].source >= last}
<1>1. n \in Nat /\ \A k \in 1 .. n : ts[k].source \in Nat /\ ts[k].target \in Nat
  BY SequenceLen DEF IsTransition
<1>2. CASE late = {}
  <2>1. Splits(ts, last, n)
    BY <1>1, <1>2 DEF Splits
  <2>2. Chain(ts, n, last, last)
    BY <1>1 DEF Chain
  <2> QED
    BY <1>1, <2>1, <2>2 DEF LeadsFrom
<1>3. CASE late # {}
  <2>1. PICK x \in late : \A k \in late : x <= k
    <3>1. late \subseteq Nat
      OBVIOUS
    <3> HIDE DEF late
    <3> QED
      BY <1>3, <3>1, LeastOf
  <2>2. x \in 1 .. n /\ ts[x].source >= last /\ \A k \in 1 .. n : k < x => ts[k].source < last
    BY <1>1, <2>1
  <2> HIDE DEF late
  <2>3. ASSUME NEW k \in x .. n PROVE ts[k].source = last /\ ts[k].target = last
    <3>1. k \in 1 .. n
      BY <1>1, <2>2
    <3>2. ts[k].source >= last
      <4>1. CASE k = x
        BY <2>2, <4>1
      <4>2. CASE k # x
        <5>1. k \in x + 1 .. n
          BY <2>2, <4>2
        <5>2. ts[x].source <= ts[x].target /\ ts[x].target <= ts[k].source
          BY <1>1, <2>2, <5>1 DEF InOrder
        <5> QED
          BY <1>1, <2>2, <3>1, <5>2
      <4> QED
        BY <4>1, <4>2
    <3>3. ts[k].source <= ts[k].target /\ ts[k].target <= last
      BY <1>1, <3>1, <3>2 DEF InOrder
    <3> QED
      BY <1>1, <3>1, <3>2, <3>3
  <2> DEFINE b == x - 1
  <2>4. b \in 0 .. n /\ b + 1 = x
    BY <1>1, <2>2
  <2>5. Splits(ts, last, b)
    BY <1>1, <2>2, <2>3, <2>4 DEF Splits
  <2>6. Chain(ts, b, last, last)
    BY <1>1, <2>2, <2>3, <2>4 DEF Chain
  <2> QED
    BY <2>4, <2>5, <2>6 DEF LeadsFrom
<1> QED
  BY <1>2, <1>3

LEMMA SplitsOnce ==
  ASSUME NEW ts, Len(ts) \in Nat, \A k \in 1 .. Len(ts) : ts[k].source \in Nat, NEW c \in Nat,
         NEW b, NEW d, Splits(ts, c, b), Splits(ts, c, d)
  PROVE  b = d
<1>1. b \in 0 .. Len(ts) /\ d \in 0 .. Len(ts)
  BY DEF Splits
<1>2. ASSUME b < d PROVE FALSE
  <2>1. d \in 1 .. d /\ d \in b + 1 .. Len(ts) /\ d \in 1 .. Len(ts)
    BY <1>1, <1>2
  <2> QED
    BY <2>1 DEF Splits
<1>3. ASSUME d < b PROVE FALSE
  <2>1. b \in 1 .. b /\ b \in d + 1 .. Len(ts) /\ b \in 1 .. Len(ts)
    BY <1>1, <1>3
  <2> QED
    BY <2>1 DEF Splits
<1> QED
  BY <1>1, <1>2, <1>3

LEMMA ListFacts ==
  ASSUME Bounded
  PROVE  /\ IsSequence(transitions) /\ Len(transitions) \in Nat
         /\ \A k \in 1 .. Len(transitions) :
              /\ IsTransition(transitions[k])
              /\ transitions[k].source \in Nat /\ transitions[k].target \in Nat
         /\ current \in Nat /\ candidate \in Nat /\ candidate <= current /\ 1 <= candidate
         /\ InOrder(transitions, candidate, current)
         /\ segment \in Segment /\ segment.active \in BOOLEAN
         /\ segment.base \in Nat /\ segment.base <= Len(transitions)
         /\ states \in Seq(Pages) /\ current <= Len(states)
         /\ (transitions = <<>> <=> Len(transitions) = 0)
BY SequenceLen DEF Bounded, ListsFit, ListsTyped, IsTransition, SegmentFits, Segment

(* How a change is attributed, when it can be.                             *)
LEMMA SnapshotLinks ==
  ASSUME Bounded, flush.events \in Seq(Event), TakeSnapshot, Attributable'
  PROVE  \/ /\ UNCHANGED transitions
            /\ \/ UNCHANGED <<current, segment, candidate>>
               \/ /\ segment.active /\ ~Merges(current) /\ flush.changed
                  /\ segment' = Advanced(current', states'[current'])
         \/ /\ Merges(current)
            /\ \E u : /\ transitions' = SetLast(u)
                     /\ u.source = LastTransition.source /\ u.target = current'
            /\ ~segment.active => LastTransition.source >= candidate'
            /\ segment' = IF segment.active /\ ~(Len(transitions) > segment.base)
                            THEN Advanced(current', states'[current']) ELSE segment
         \/ /\ \E u : /\ transitions' = Append(transitions, u)
                     /\ u.source = current /\ u.target = current'
            /\ segment' = segment
         \/ /\ segment.active /\ Len(transitions) > segment.base
            /\ \E u : /\ transitions' = SetLast(u)
                     /\ u.source = LastTransition.source /\ u.target = current'
            /\ segment' = segment
<1> DEFINE implicit == flush.changed /\ flush.events = <<>>
           actions == ActionsOf(flush.events, Found(states[current]))
           touched(acts) == IF implicit THEN Merges(current) ELSE acts # <<>>
           announced(acts) == (touched(acts) /\ segment.active)
                                /\ Len(transitions') > segment.base
<1>0. /\ IsSequence(transitions) /\ Len(transitions) \in Nat /\ segment.base \in Nat
      /\ segment.base <= Len(transitions) /\ segment.active \in BOOLEAN /\ ListsTyped
      /\ (transitions # <<>> => IsTransition(LastTransition))
      /\ current \in Nat /\ flush.changed \in BOOLEAN
  BY ListFacts, SequenceLen DEF LastTransition, Bounded, ListsFit, TasksTyped
<1>1. PICK acts :
        /\ acts \in {actions, <<>>}
        /\ acts # actions => "unresolved" \in slips'
        /\ Len(actions) < Len(Compact(flush.events)) => "unmapped" \in slips'
        /\ implicit /\ ~segment.active
             /\ ~(touched(acts) /\ LastTransition.source >= candidate') => "unexplained" \in slips'
        /\ transitions' = IF ~touched(acts) THEN transitions
                          ELSE IF implicit
                                 THEN SetLast([LastTransition EXCEPT !.target = current'])
                                 ELSE Extended(current, current', acts)
        /\ segment' = IF flush.changed /\ ~announced(acts)
                        THEN Advanced(current', states'[current']) ELSE segment
  <2>1. PICK acts \in {actions, <<>>} :
          /\ Slip((IF acts # actions THEN {"unresolved"} ELSE {})
               \union (IF Len(actions) < Len(Compact(flush.events)) THEN {"unmapped"} ELSE {})
               \union (IF implicit /\ ~segment.active
                            /\ ~(touched(acts) /\ LastTransition.source >= candidate')
                         THEN {"unexplained"} ELSE {}))
          /\ transitions' = IF ~touched(acts) THEN transitions
                            ELSE IF implicit
                                   THEN SetLast([LastTransition EXCEPT !.target = current'])
                                   ELSE Extended(current, current', acts)
          /\ segment' = IF flush.changed /\ ~announced(acts)
                          THEN Advanced(current', states'[current']) ELSE segment
    BY Zenon DEF TakeSnapshot
  <2> HIDE DEF actions, touched, implicit, announced
  <2> QED
    BY <2>1 DEF Slip
<1>2. /\ acts = actions /\ ~(Len(actions) < Len(Compact(flush.events)))
      /\ (implicit /\ ~segment.active => touched(acts) /\ LastTransition.source >= candidate')
  <2> HIDE DEF actions, touched, implicit
  <2> QED
    BY <1>1 DEF Attributable
<1>3. flush.events # <<>> => acts # <<>>
  BY <1>2, EventsAreMapped
<1>4. current' = IF flush.changed THEN Len(Append(states, page)) ELSE current
  BY Zenon DEF TakeSnapshot
<1>5. ~flush.changed => UNCHANGED <<current, candidate, segment>>
  <2>1. ~flush.changed => UNCHANGED candidate
    BY Zenon DEF TakeSnapshot
  <2> QED
    BY <1>1, <1>4, <2>1
<1> HIDE DEF actions
<1>6. CASE ~touched(acts)
  <2>1. UNCHANGED transitions
    BY <1>1, <1>6
  <2>2. CASE ~flush.changed
    BY <1>5, <2>1, <2>2
  <2>3. CASE flush.changed
    <3>1. implicit /\ ~Merges(current)
      BY <1>3, <1>6, <2>3
    <3>2. segment.active
      BY <1>2, <1>6, <3>1
    <3>3. segment' = Advanced(current', states'[current'])
      BY <1>1, <1>6, <2>3
    <3> QED
      BY <2>1, <2>3, <3>1, <3>2, <3>3
  <2> QED
    BY <2>2, <2>3
<1>7. CASE touched(acts) /\ implicit
  <2> DEFINE u == [LastTransition EXCEPT !.target = current']
  <2>1. Merges(current) /\ transitions # <<>>
    BY <1>7 DEF Merges
  <2>2. u.source = LastTransition.source /\ u.target = current'
    BY <1>0, <2>1 DEF IsTransition
  <2>3. transitions' = SetLast(u)
    BY <1>1, <1>7
  <2>4. ~segment.active => LastTransition.source >= candidate'
    BY <1>2, <1>7
  <2>5. Len(transitions') = Len(transitions)
    <3>1. transitions' = [transitions EXCEPT ![Len(transitions)] = u]
      BY <2>3 DEF SetLast
    <3> HIDE DEF u
    <3> QED
      BY <1>0, <2>1, <3>1, LastReplaced
  <2>6. segment' = IF segment.active /\ ~(Len(transitions) > segment.base)
                     THEN Advanced(current', states'[current']) ELSE segment
    BY <1>0, <1>1, <1>7, <2>5 DEF Advanced
  <2> HIDE DEF u
  <2> QED
    BY <2>1, <2>2, <2>3, <2>4, <2>6
<1>8. CASE touched(acts) /\ ~implicit
  <2>1. transitions' = Extended(current, current', acts)
    BY <1>1, <1>8
  <2>2. CASE Coalesces(current, acts)
    <3> DEFINE u == [LastTransition EXCEPT !.target = current', !.acts = acts]
    <3>1. segment.active /\ Len(transitions) > segment.base /\ transitions # <<>>
      BY <1>0, <2>2, SequenceLen DEF Coalesces, LastIsActive
    <3>2. u.source = LastTransition.source /\ u.target = current'
      BY <1>0, <3>1 DEF IsTransition
    <3>3. transitions' = SetLast(u)
      BY <2>1, <2>2 DEF Extended
    <3>4. segment' = segment
      <4>1. transitions' = [transitions EXCEPT ![Len(transitions)] = u]
        BY <3>3 DEF SetLast
      <4> HIDE DEF u
      <4>2. Len(transitions') = Len(transitions)
        BY <1>0, <3>1, <4>1, LastReplaced
      <4> QED
        BY <1>1, <1>8, <3>1, <4>2
    <3> HIDE DEF u
    <3> QED
      BY <3>1, <3>2, <3>3, <3>4
  <2>3. CASE ~Coalesces(current, acts)
    <3> DEFINE u == [id |-> made + 1, source |-> current, target |-> current', acts |-> acts]
    <3>1. transitions' = Append(transitions, u) /\ u.source = current /\ u.target = current'
      BY <2>1, <2>3 DEF Extended
    <3> HIDE DEF u
    <3>2. segment' = segment
      <4>1. Len(transitions') = Len(transitions) + 1
        BY <1>0, <3>1, Appended
      <4> QED
        BY <1>0, <1>1, <1>8, <4>1 DEF Advanced
    <3> QED
      BY <3>1, <3>2
  <2> QED
    BY <2>2, <2>3
<1> QED
  BY <1>6, <1>7, <1>8

LEMMA SnapshotLinked ==
  ASSUME Bounded, Linked, flush.events \in Seq(Event), TakeSnapshot
  PROVE  Linked'
<1> SUFFICES ASSUME Attributable'
    PROVE  /\ segment'.active => Chain(transitions', segment'.base, segment'.first, current')
           /\ ~segment'.active => LeadsFrom(transitions', candidate', current')
  BY DEF Linked
<1> DEFINE n == Len(transitions)
           Moves(u) == transitions' = SetLast(u) /\ u.source = LastTransition.source
                         /\ u.target = current'
           Adds(u) == transitions' = Append(transitions, u) /\ u.source = current
                        /\ u.target = current'
<1>1. /\ segment.active => Chain(transitions, segment.base, segment.first, current)
      /\ ~segment.active => LeadsFrom(transitions, candidate, current)
  <2>1. slips \subseteq slips'
    BY Zenon DEF TakeSnapshot, Slip
  <2> QED
    BY <2>1 DEF Linked, Attributable
<1>2. /\ IsSequence(transitions) /\ n \in Nat /\ segment.base \in Nat /\ segment.base <= n
      /\ segment.active \in BOOLEAN /\ segment \in Segment
      /\ candidate \in Nat /\ current \in Nat /\ candidate <= current
      /\ \A k \in 1 .. n : IsTransition(transitions[k]) /\ transitions[k].source \in Nat
      /\ InOrder(transitions, candidate, current) /\ (transitions = <<>> <=> n = 0)
  BY ListFacts
<1>3. candidate' \in {candidate, current}
  BY Zenon DEF TakeSnapshot
<1>4. LastTransition = transitions[n]
  BY DEF LastTransition
(* A new flow would start with no step.                                    *)
<1>5. ASSUME segment.active, Merges(current) => n = segment.base,
             segment' = Advanced(current', states'[current']), Len(transitions') = n
      PROVE  segment'.active /\ Chain(transitions', segment'.base, segment'.first, current')
  <2>1. n = segment.base
    <3> SUFFICES ASSUME n > segment.base, ~Merges(current) PROVE FALSE
      BY <1>2, <1>5
    <3> QED
      BY <1>1, <1>2, <1>4, <1>5 DEF Chain, Merges
  <2>2. Entries = <<>>
    BY <1>2, <1>5, <2>1, EntriesAre
  <2>3. segment'.active /\ segment'.first = current' /\ segment'.base = n
    BY <1>2, <1>5, <2>2 DEF Advanced, Segment
  <2> QED
    BY <1>2, <1>5, <2>3 DEF Chain
<1>6. ASSUME NEW u, Moves(u), n # 0
      PROVE  /\ Len(transitions') = n
             /\ \A b \in Nat : \A from, mid : b < n /\ Chain(transitions, b, from, mid)
                                            => Chain(transitions', b, from, current')
             /\ \A c : \A b : Splits(transitions, c, b) => Splits(transitions', c, b)
  <2>1. transitions' = [transitions EXCEPT ![Len(transitions)] = u]
    BY <1>6 DEF SetLast
  <2>2. transitions # <<>>
    BY <1>2, <1>6
  <2>3. Len(transitions') = n
    BY <1>2, <2>1, <2>2, LastReplaced
  <2>4. transitions'[n] = u
    BY <1>2, <2>1, <2>2, LastReplaced
  <2>5. \A k \in 1 .. n : k # n => transitions'[k] = transitions[k]
    BY <1>2, <2>1, <2>2, LastReplaced
  <2>6. \A k \in 1 .. n : transitions'[k].source = transitions[k].source
    BY <1>4, <1>6, <2>4, <2>5
  <2>7. ASSUME NEW c, NEW b, Splits(transitions, c, b) PROVE Splits(transitions', c, b)
    BY <1>2, <2>3, <2>6, <2>7 DEF Splits
  <2>8. ASSUME NEW b \in Nat, NEW from, NEW mid, b < n, Chain(transitions, b, from, mid)
        PROVE  Chain(transitions', b, from, current')
    <3>1. u.source = transitions[Len(transitions)].source /\ u.target = current'
      BY <1>4, <1>6
    <3>2. Chain(transitions', b, from, u.target)
      BY <1>2, <2>1, <2>8, <3>1, ChainEndMoves
    <3> QED
      BY <3>1, <3>2
  <2> QED
    BY <2>3, <2>7, <2>8
<1>7. ASSUME NEW u, Adds(u)
      PROVE  /\ \A b \in Nat : \A from : b <= n /\ Chain(transitions, b, from, current)
                                            => Chain(transitions', b, from, current')
             /\ \A c \in Nat : \A b : c <= current /\ Splits(transitions, c, b)
                                     => Splits(transitions', c, b)
             /\ Len(transitions') = n + 1
  <2>1. Len(transitions') = n + 1
    BY <1>2, <1>7, Appended
  <2>2. transitions'[n + 1] = u
    BY <1>2, <1>7, Appended
  <2>3. \A k \in 1 .. n : transitions'[k] = transitions[k]
    BY <1>2, <1>7, Appended
  <2>4. ASSUME NEW c \in Nat, NEW b, c <= current, Splits(transitions, c, b)
        PROVE  Splits(transitions', c, b)
    BY <1>2, <1>7, <2>1, <2>2, <2>3, <2>4 DEF Splits
  <2>5. ASSUME NEW b \in Nat, NEW from, b <= n, Chain(transitions, b, from, current)
        PROVE  Chain(transitions', b, from, current')
    <3>1. u.source = current /\ u.target = current' /\ transitions' = Append(transitions, u)
      BY <1>7
    <3>2. Chain(transitions', b, from, u.target)
      BY <1>2, <2>5, <3>1, ChainGrows
    <3> QED
      BY <3>1, <3>2
  <2> QED
    BY <2>1, <2>4, <2>5
(* From the candidate, whichever it is, the steps lead here.               *)
<1>8. ~segment.active => LeadsFrom(transitions, candidate', current)
  <2>1. CASE candidate' = candidate
    BY <1>1, <2>1
  <2>2. CASE candidate' = current
    BY <1>2, <2>2, ChainRestarts
  <2> QED
    BY <1>3, <2>1, <2>2
<1> HIDE DEF n, Moves, Adds
<1>9. CASE /\ UNCHANGED transitions
           /\ \/ UNCHANGED <<current, segment, candidate>>
              \/ /\ segment.active /\ ~Merges(current) /\ flush.changed
                 /\ segment' = Advanced(current', states'[current'])
  BY <1>1, <1>5, <1>9 DEF n
<1>10. CASE /\ Merges(current) /\ \E u : Moves(u)
            /\ ~segment.active => LastTransition.source >= candidate'
            /\ segment' = IF segment.active /\ ~(n > segment.base)
                            THEN Advanced(current', states'[current']) ELSE segment
  <2>1. PICK u : Moves(u)
    BY <1>10
  <2>2. n # 0 /\ LastTransition = transitions[n]
    BY <1>2, <1>4, <1>10 DEF Merges
  <2>3. CASE segment.active /\ n > segment.base
    BY <1>1, <1>2, <1>6, <1>10, <2>1, <2>2, <2>3
  <2>4. CASE segment.active /\ ~(n > segment.base)
    BY <1>2, <1>5, <1>6, <1>10, <2>1, <2>2, <2>4
  <2>5. CASE ~segment.active
    <3>1. PICK b \in 0 .. n : /\ Splits(transitions, candidate', b)
                              /\ Chain(transitions, b, candidate', current)
      BY <1>8, <2>5 DEF LeadsFrom, n
    <3>2. b \in Nat /\ b < n
      <4> SUFFICES ASSUME b = n PROVE FALSE
        BY <1>2, <3>1
      <4>1. transitions[n].source < candidate' /\ candidate' \in Nat
        BY <1>2, <1>3, <2>2, <3>1 DEF Splits
      <4> QED
        BY <1>2, <1>10, <2>2, <2>5, <4>1
    <3>3. /\ Splits(transitions', candidate', b) /\ Chain(transitions', b, candidate', current')
          /\ Len(transitions') = n
      BY <1>6, <2>1, <2>2, <3>1, <3>2
    <3>4. LeadsFrom(transitions', candidate', current')
      BY <3>1, <3>3 DEF LeadsFrom
    <3> QED
      BY <1>10, <2>5, <3>4
  <2> QED
    BY <1>2, <2>3, <2>4, <2>5
<1>11. CASE (\E u : Adds(u)) /\ segment' = segment
  <2>1. PICK u : Adds(u)
    BY <1>11
  <2>2. CASE segment.active
    BY <1>1, <1>2, <1>7, <1>11, <2>1, <2>2
  <2>3. CASE ~segment.active
    <3>1. PICK b \in 0 .. n : /\ Splits(transitions, candidate', b)
                              /\ Chain(transitions, b, candidate', current)
      BY <1>8, <2>3 DEF LeadsFrom, n
    <3>2. b \in Nat /\ b <= n /\ candidate' \in Nat /\ candidate' <= current
      BY <1>2, <1>3, <3>1
    <3>3. Splits(transitions', candidate', b)
      BY <1>7, <2>1, <3>1, <3>2
    <3>4. Chain(transitions', b, candidate', current') /\ Len(transitions') = n + 1
      BY <1>7, <2>1, <3>1, <3>2
    <3>5. LeadsFrom(transitions', candidate', current')
      BY <1>2, <3>1, <3>3, <3>4 DEF LeadsFrom
    <3> QED
      BY <1>11, <2>3, <3>5
  <2> QED
    BY <1>2, <2>2, <2>3
<1>12. CASE /\ segment.active /\ n > segment.base
            /\ \E u : Moves(u)
            /\ segment' = segment
  <2>1. PICK u : Moves(u)
    BY <1>12
  <2> QED
    BY <1>1, <1>2, <1>6, <1>12, <2>1
<1> QED
  BY <1>9, <1>10, <1>11, <1>12, SnapshotLinks DEF n, Moves, Adds

LEMMA LinkedKept ==
  ASSUME Linked, UNCHANGED <<transitions, current, candidate, segment>>, slips \subseteq slips'
  PROVE  Linked'
<1>1. Attributable' => Attributable
  BY DEF Attributable
<1> QED
  BY <1>1 DEF Linked

(* The flow starts where the candidate is: what leads from there is a path.*)
LEMMA StartLinked ==
  ASSUME Bounded, ~segment.active, Linked, StartFlow
  PROVE  Linked'
<1>1. /\ UNCHANGED <<transitions, current, candidate>> /\ slips \subseteq slips'
      /\ candidate <= current /\ candidate \in Nat /\ current \in Nat
      /\ Len(transitions) \in Nat /\ \A k \in 1 .. Len(transitions) : transitions[k].source \in Nat
  BY ListFacts DEF StartFlow, Slip
<1>2. segment'.active /\ segment'.first = candidate
  <2>1. segment' = [active |-> TRUE,
                    first |-> IF candidate < current THEN candidate ELSE current,
                    base |-> segment'.base, checkpoint |-> segment'.checkpoint,
                    revision |-> segment.revision + 1]
    BY DEF StartFlow
  <2> QED
    BY <1>1, <2>1
<1>3. Splits(transitions, candidate, segment'.base)
  <2>1. SegmentFits' /\ ListsTyped'
    BY StartFits DEF ListsFit
  <2>2. segment'.base \in Nat
    BY <2>1 DEF ListsTyped, Segment
  <2> QED
    BY <1>1, <1>2, <2>1, <2>2 DEF SegmentFits, Splits
<1>4. ASSUME Attributable' PROVE Chain(transitions, segment'.base, candidate, current)
  <2>1. LeadsFrom(transitions, candidate, current)
    BY <1>1, <1>4 DEF Linked, Attributable
  <2>2. PICK b \in 0 .. Len(transitions) :
          Splits(transitions, candidate, b) /\ Chain(transitions, b, candidate, current)
    BY <2>1 DEF LeadsFrom
  <2>3. b = segment'.base
    BY <1>1, <1>3, <2>2, SplitsOnce
  <2> QED
    BY <2>2, <2>3
<1> QED
  BY <1>1, <1>2, <1>4 DEF Linked

(* The next flow starts on the page where this one ends.                   *)
LEMMA FinishLinked ==
  ASSUME Bounded, Linked, FinishSegment
  PROVE  Linked'
<1>1. /\ UNCHANGED <<transitions, current>> /\ slips \subseteq slips'
      /\ \/ UNCHANGED <<segment, candidate>>
         \/ /\ segment' = [segment EXCEPT !.active = FALSE, !.first = 0,
                                          !.base = Len(transitions)]
            /\ candidate' = IF current = 1 THEN candidate ELSE current
  BY DEF FinishSegment, Slip
<1>2. CASE UNCHANGED <<segment, candidate>>
  BY <1>1, <1>2, LinkedKept
<1>3. CASE /\ segment' = [segment EXCEPT !.active = FALSE, !.first = 0,
                                         !.base = Len(transitions)]
           /\ candidate' = IF current = 1 THEN candidate ELSE current
  <2>1. ~segment'.active
    <3>1. segment \in Segment
      BY ListFacts
    <3> QED
      BY <1>3, <3>1 DEF Segment
  <2>2. candidate' = current
    BY <1>3, ListFacts
  <2>3. LeadsFrom(transitions, current, current)
    BY ListFacts, ChainRestarts
  <2> QED
    BY <1>1, <2>1, <2>2, <2>3 DEF Linked
<1> QED
  BY <1>1, <1>2, <1>3

LEMMA ChainCut ==
  ASSUME NEW ts, IsSequence(ts), NEW b \in Nat, NEW from, NEW to, Chain(ts, b, from, to),
         NEW cut \in b + 1 .. Len(ts), NEW r, r = SubSeq(ts, 1, cut)
  PROVE  Chain(r, b, from, ts[cut].target)
<1>1. Len(ts) \in Nat /\ cut \in 0 .. Len(ts)
  BY SequenceLen
<1>2. Len(r) = cut /\ \A k \in 1 .. cut : r[k] = ts[k]
  BY <1>1, CutShort
<1> QED
  BY <1>1, <1>2 DEF Chain

(* What a rewind keeps is a path; a flow that keeps nothing starts anew.   *)
LEMMA RewindLinked ==
  ASSUME Bounded, Linked, CommitRewind
  PROVE  Linked'
<1> DEFINE cut == segment.base + plan.keep
           kept == SubSeq(transitions, 1, cut)
<1>1. /\ plan.keep > 0 => /\ transitions' = [kept EXCEPT ![cut].target = current']
                          /\ segment' = NextRevision(segment.first, segment.base, segment.checkpoint)
      /\ ~plan.keep > 0 => /\ transitions' = kept
                           /\ segment' = NextRevision(current', cut, plan.page)
  BY DEF CommitRewind
<1>2. /\ segment.active /\ plan.keep \in 0 .. Len(transitions) - segment.base
      /\ segment \in Segment /\ segment.base \in Nat
      /\ IsSequence(transitions) /\ Len(transitions) \in Nat
      /\ segment.base <= Len(transitions)
      /\ \A k \in 1 .. Len(transitions) : IsTransition(transitions[k])
  BY ListFacts DEF CommitRewind, Bounded, PlanFits
<1>3. cut \in segment.base .. Len(transitions) /\ cut \in Nat /\ cut \in 0 .. Len(transitions)
  BY <1>2
<1> HIDE DEF cut
<1>4. IsSequence(kept) /\ Len(kept) = cut /\ \A k \in 1 .. cut : kept[k] = transitions[k]
  BY <1>2, <1>3, CutShort
<1>5. slips \subseteq slips'
  BY DEF CommitRewind, Slip
<1> HIDE DEF kept
<1>6. CASE plan.keep > 0
  <2> DEFINE u == [kept[cut] EXCEPT !.target = current']
  <2>1. cut \in segment.base + 1 .. Len(transitions) /\ kept # <<>> /\ IsTransition(kept[cut])
    BY <1>2, <1>3, <1>4, <1>6, SequenceLen DEF cut
  <2>2. u.source = kept[cut].source /\ u.target = current'
    BY <2>1 DEF IsTransition
  <2>3. transitions' = [kept EXCEPT ![Len(kept)] = u]
    BY <1>1, <1>4, <1>6, Zenon
  <2> HIDE DEF u
  <2>4. ASSUME Attributable' PROVE Chain(transitions', segment.base, segment.first, current')
    <3>1. Chain(transitions, segment.base, segment.first, current)
      BY <1>2, <1>5, <2>4 DEF Linked, Attributable
    <3>2. Chain(kept, segment.base, segment.first, transitions[cut].target)
      BY <1>2, <2>1, <3>1, ChainCut DEF kept
    <3>3. u.source = kept[Len(kept)].source /\ segment.base < Len(kept)
      BY <1>2, <1>4, <2>1, <2>2
    <3>4. Chain(transitions', segment.base, segment.first, u.target)
      BY <1>2, <1>4, <2>3, <3>2, <3>3, ChainEndMoves
    <3> QED
      BY <2>2, <3>4
  <2>5. /\ segment'.active /\ segment'.base = segment.base /\ segment'.first = segment.first
    BY <1>1, <1>2, <1>6 DEF NextRevision, Segment
  <2> QED
    BY <2>4, <2>5 DEF Linked
<1>7. CASE ~plan.keep > 0
  <2>1. segment'.active /\ segment'.base = cut /\ segment'.first = current'
    BY <1>1, <1>2, <1>7 DEF NextRevision, Segment
  <2>2. Chain(transitions', cut, current', current')
    BY <1>1, <1>3, <1>4, <1>7 DEF Chain
  <2> QED
    BY <2>1, <2>2 DEF Linked
<1> QED
  BY <1>6, <1>7

LEMMA StepLinked ==
  ASSUME Bounded, Viewed, Linked, flush.events \in Seq(Event), [Next]_vars
  PROVE  Linked'
<1>1. CASE UNCHANGED vars
  BY <1>1, LinkedKept DEF vars, recording, history
<1>2. CASE TakeSnapshot
  BY <1>2, SnapshotLinked
<1>3. CASE StartFlow
  <2>1. ~segment.active
    BY <1>3 DEF StartFlow, InBody, Viewed, Served
  <2> QED
    BY <1>3, <2>1, StartLinked
<1>4. CASE FinishSegment
  BY <1>4, FinishLinked
<1>5. CASE CommitRewind
  BY <1>5, RewindLinked
<1>6. CASE \/ \E e \in UNION {Offers[p] : p \in Pages} : UserActs(e)
           \/ Drift \/ WaitEnds \/ RecordEvent \/ TakeStep \/ SendStep \/ MonitorDecides
           \/ \E op \in {"start", "publish", "finish", "rewind"} : Serve(op)
  <2>1. UNCHANGED recording /\ slips \subseteq slips'
    BY <1>6 DEF UserActs, Drift, WaitEnds, RecordEvent, TakeStep, SendStep, MonitorDecides, Serve,
                Slip, history
  <2> QED
    BY <2>1, LinkedKept DEF recording
<1>7. CASE MonitorLooks \/ LoopLooks
  <2>1. UNCHANGED recording /\ slips \subseteq slips'
    BY <1>7 DEF MonitorLooks, LoopLooks, Look, Slip
  <2> QED
    BY <2>1, LinkedKept DEF recording
<1>8. CASE FlushFails
  <2>1. slips \subseteq slips' /\ UNCHANGED <<transitions, current, segment>>
    BY <1>8 DEF FlushFails
  <2>2. CASE UNCHANGED candidate
    BY <2>1, <2>2, LinkedKept
  <2>3. CASE candidate' = current /\ ~segment.active
    <3>1. LeadsFrom(transitions, current, current)
      BY ListFacts, ChainRestarts
    <3> QED
      BY <2>1, <2>3, <3>1 DEF Linked
  <2> QED
    BY <1>8, <2>2, <2>3 DEF FlushFails
<1>9. CASE RefuseFinish \/ PersistFails \/ RefuseRewind \/ StoreFlow
  <2>1. UNCHANGED recording /\ slips \subseteq slips'
    BY <1>9 DEF RefuseFinish, PersistFails, RefuseRewind, StoreFlow, Refuse, Slip
  <2> QED
    BY <2>1, LinkedKept DEF recording
<1>10. CASE PrepareRewind \/ Replay \/ Activate
  <2>1. UNCHANGED recording /\ slips \subseteq slips'
    BY <1>10 DEF PrepareRewind, Replay, Activate, Slip, history
  <2> QED
    BY <2>1, LinkedKept DEF recording
<1> QED
  BY <1>1, <1>2, <1>3, <1>4, <1>5, <1>6, <1>7, <1>8, <1>9, <1>10 DEF Next, LoopSteps

LEMMA InitLinked == Init => Linked
<1> SUFFICES ASSUME Init PROVE Linked
  OBVIOUS
<1>1. transitions = <<>> /\ current = 1 /\ candidate = 1 /\ segment.active = FALSE
  BY DEF Init
<1>2. Len(transitions) = 0 /\ 0 \in 0 .. Len(transitions)
  BY <1>1
<1>3. Splits(transitions, candidate, 0) /\ Chain(transitions, 0, candidate, current)
  BY <1>1, <1>2 DEF Splits, Chain
<1> QED
  BY <1>1, <1>2, <1>3 DEF Linked, LeadsFrom

LEMMA LinkedFollows ==
  ASSUME Bounded, Linked
  PROVE  SegmentIsAPath
<1> DEFINE targets == [k \in DOMAIN Entries |-> Entries[k].target]
           ends == <<segment.first>> \o targets
           n == Len(transitions)
           b == segment.base
<1> SUFFICES ASSUME segment.active, Attributable
    PROVE  /\ \A k \in DOMAIN Entries : Entries[k].source = ends[k]
           /\ ends[Len(ends)] = current
  BY Zenon DEF SegmentIsAPath, Attributable
<1>1. Chain(transitions, b, segment.first, current)
  BY DEF Linked
<1>2. /\ Len(Entries) = n - b /\ DOMAIN Entries = 1 .. n - b /\ n \in Nat /\ b \in Nat /\ b <= n
      /\ \A k \in 1 .. n - b : Entries[k] = transitions[b + k]
      /\ \A k \in 1 .. n : transitions[k].target \in Nat
      /\ segment.first \in Nat
  BY ListFacts, EntriesAre DEF Segment
<1>3. /\ Len(ends) = n - b + 1 /\ ends[1] = segment.first
      /\ \A k \in 1 .. n - b : ends[k + 1] = transitions[b + k].target
  <2>1. targets = [k \in 1 .. n - b |-> transitions[b + k].target]
    BY <1>2
  <2> DEFINE m == n - b
  <2>2. targets \in Seq(Nat) /\ Len(targets) = m
    <3>1. m \in Nat /\ \A k \in 1 .. m : b + k \in 1 .. n
      BY <1>2
    <3>2. targets = [k \in 1 .. m |-> transitions[b + k].target]
      BY <2>1
    <3>3. \A k \in 1 .. m : transitions[b + k].target \in Nat
      BY <1>2, <3>1
    <3> HIDE DEF targets, m
    <3>4. targets \in [1 .. m -> Nat]
      BY <3>2, <3>3
    <3>5. targets \in Seq(Nat)
      BY <3>1, <3>4, SeqDef
    <3>6. DOMAIN targets = 1 .. m
      BY <3>4
    <3> QED
      BY <3>1, <3>5, <3>6
  <2>3. \A k \in 1 .. n - b : targets[k] = transitions[b + k].target
    BY <2>1
  <2> HIDE DEF targets, m
  <2>4. <<segment.first>> \in Seq(Nat) /\ Len(<<segment.first>>) = 1
    BY <1>2
  <2>5. Len(ends) = 1 + m /\ ends[1] = segment.first /\ m \in Nat
    BY <2>2, <2>4
  <2>6. \A k \in 1 .. m : ends[k + 1] = targets[k]
    BY <2>2, <2>4
  <2>7. 1 + m = n - b + 1
    BY <1>2 DEF m
  <2> QED
    BY <2>3, <2>5, <2>6, <2>7 DEF m
<1> HIDE DEF ends, n
<1>4. ASSUME NEW k \in 1 .. n - b PROVE transitions[b + k].source = ends[k]
  <2>1. CASE k = 1
    BY <1>1, <1>2, <1>3, <2>1 DEF Chain, n
  <2>2. CASE k # 1
    <3>0. n \in Nat /\ b \in Nat
      BY <1>2
    <3> HIDE DEF b
    <3>1. /\ k - 1 \in 1 .. n - b /\ (k - 1) + 1 = k /\ b + (k - 1) \in b + 1 .. n - 1
          /\ (b + (k - 1)) + 1 = b + k
      BY <2>2, <3>0
    <3>2. transitions[b + (k - 1)].target = transitions[b + k].source
      BY <1>1, <3>1 DEF Chain, n, b
    <3> QED
      BY <1>3, <3>1, <3>2
  <2> QED
    BY <2>1, <2>2
<1>5. ends[n - b + 1] = current
  <2>1. CASE n = b
    BY <1>1, <1>2, <1>3, <2>1 DEF Chain, n
  <2>2. CASE n # b
    <3>1. n - b \in 1 .. n - b /\ b + (n - b) = n /\ n > b
      BY <1>2, <2>2
    <3> QED
      BY <1>1, <1>3, <3>1 DEF Chain, n
  <2> QED
    BY <2>1, <2>2
<1> QED
  BY <1>2, <1>3, <1>4, <1>5

-----------------------------------------------------------------------------
(* Types.                                                                  *)

Message == [id : Nat, revision : Nat]

EventsTyped ==
  /\ page \in Pages /\ arriving \in Seq(Event) /\ waiting \in BOOLEAN
  /\ pending \in Seq(Event)
  /\ flush \in [by : {"nobody", "monitor", "loop"}, events : Seq(Event), changed : BOOLEAN]
  /\ monitor \in {"asleep", "forcing"}

(* A step has an action at least.                                          *)
StepsTyped ==
  /\ transitions \in Seq(Transition) /\ made \in Nat
  /\ \A k \in 1 .. Len(transitions) : transitions[k].acts # <<>>

LoopTyped ==
  /\ rewinding \in BOOLEAN
  /\ loop \in [op : {"none", "start", "publish", "finish", "rewind"},
               at : {"idle", "flush", "flushing", "body", "store", "replay", "activate", "commit",
                     "ended"}]
  /\ plan \in [keep : Nat, target : Nat, page : Pages \union {NoPage}]
  /\ slips \subseteq SlipKind

QueuesTyped ==
  /\ outbox \in Seq(Message) /\ sending \in Seq(Message) /\ Len(sending) <= 1
  /\ told \subseteq Nat

RefsTyped ==
  /\ refs \in Seq(Step)
  /\ graph.states \subseteq Pages /\ graph.transitions \subseteq Step
  /\ flows \subseteq [checkpoint : Pages, steps : Seq(Step)]

Typed == EventsTyped /\ StepsTyped /\ LoopTyped /\ QueuesTyped /\ RefsTyped

LEMMA TypedFits ==
  ASSUME Bounded, Typed
  PROVE  TypeOK
BY DEF Bounded, ListsFit, ListsTyped, Segment, Typed, EventsTyped, StepsTyped, LoopTyped,
       QueuesTyped, RefsTyped, TypeOK, Message

LEMMA OfferedEvents == UNION {Offers[p] : p \in Pages} \subseteq Event
BY RecorderAssumption DEF RecorderAssumption, Event

LEMMA EventsStayTyped ==
  ASSUME Bounded, EventsTyped, Next
  PROVE  EventsTyped'
<1>1. CASE \E e \in UNION {Offers[p] : p \in Pages} : UserActs(e)
  <2>1. PICK e \in UNION {Offers[p] : p \in Pages} : UserActs(e)
    BY <1>1
  <2>2. e \in Event
    BY OfferedEvents
  <2>3. /\ arriving' = Append(arriving, e) /\ waiting' = TRUE
        /\ page' \in Leads[page] \union {page} /\ UNCHANGED <<pending, flush, monitor>>
    BY <2>1 DEF UserActs
  <2>4. Leads[page] \subseteq Pages
    BY RecorderAssumption DEF RecorderAssumption, EventsTyped
  <2> QED
    BY <2>2, <2>3, <2>4 DEF EventsTyped
<1>2. CASE Drift
  <2>1. Leads[page] \subseteq Pages
    BY RecorderAssumption DEF RecorderAssumption, EventsTyped
  <2>2. page' \in Leads[page] /\ UNCHANGED <<arriving, waiting, pending, flush, monitor>>
    BY <1>2 DEF Drift
  <2> QED
    BY <2>1, <2>2 DEF EventsTyped
<1>3. CASE WaitEnds
  BY <1>3 DEF WaitEnds, EventsTyped
<1>4. CASE RecordEvent
  <2>1. /\ arriving # <<>> /\ pending' = Append(pending, Head(arriving))
        /\ arriving' = Tail(arriving) /\ UNCHANGED <<page, waiting, flush, monitor>>
    BY <1>4 DEF RecordEvent
  <2>2. Head(arriving) \in Event /\ Tail(arriving) \in Seq(Event)
    BY <2>1 DEF EventsTyped
  <2> QED
    BY <2>1, <2>2 DEF EventsTyped
<1>5. CASE MonitorDecides
  BY <1>5 DEF MonitorDecides, browser, EventsTyped
<1>6. CASE MonitorLooks \/ LoopLooks
  <2>1. /\ UNCHANGED <<page, arriving, waiting>> /\ monitor' \in {"asleep", "forcing"}
        /\ \/ UNCHANGED <<flush, pending>>
           \/ \E who \in {"monitor", "loop"} : \E force : Look(who, force)
    BY <1>6 DEF MonitorLooks, LoopLooks, browser, EventsTyped
  <2>2. ASSUME NEW who \in {"monitor", "loop"}, NEW force, Look(who, force)
        PROVE  /\ flush' \in [by : {"nobody", "monitor", "loop"}, events : Seq(Event),
                              changed : BOOLEAN]
               /\ pending' \in Seq(Event)
    <3>1. Changed \in BOOLEAN
      BY DEF Changed
    <3> QED
      BY <2>2, <3>1 DEF Look, EventsTyped
  <2> QED
    BY <2>1, <2>2 DEF EventsTyped
<1>7. CASE TakeSnapshot \/ FlushFails
  <2>1. flush' = NoFlush /\ UNCHANGED <<page, arriving, waiting, pending, monitor>>
    BY <1>7, Zenon DEF TakeSnapshot, FlushFails, browser
  <2>2. NoFlush \in [by : {"nobody", "monitor", "loop"}, events : Seq(Event), changed : BOOLEAN]
    BY DEF NoFlush
  <2> QED
    BY <2>1, <2>2 DEF EventsTyped
<1>8. CASE StartFlow \/ CommitRewind
  <2>1. pending' = <<>> /\ UNCHANGED <<page, arriving, waiting, flush, monitor>>
    BY <1>8 DEF StartFlow, CommitRewind, browser
  <2> QED
    BY <2>1 DEF EventsTyped
<1>9. CASE Activate
  <2>1. plan.page \in Pages
    BY <1>9 DEF Activate, Bounded, PlanFits
  <2>2. page' = plan.page /\ UNCHANGED <<arriving, waiting, pending, flush, monitor>>
    BY <1>9 DEF Activate
  <2> QED
    BY <2>1, <2>2 DEF EventsTyped
<1>10. CASE \/ TakeStep \/ SendStep \/ RefuseFinish \/ FinishSegment \/ PersistFails \/ StoreFlow
            \/ RefuseRewind \/ PrepareRewind \/ Replay
            \/ \E op \in {"start", "publish", "finish", "rewind"} : Serve(op)
  <2>1. UNCHANGED <<page, arriving, waiting, pending, flush, monitor>>
    BY <1>10 DEF TakeStep, SendStep, RefuseFinish, FinishSegment, PersistFails, StoreFlow,
                 RefuseRewind, PrepareRewind, Replay, Serve, browser
  <2> QED
    BY <2>1 DEF EventsTyped
<1> QED
  BY <1>1, <1>2, <1>3, <1>4, <1>5, <1>6, <1>7, <1>8, <1>9, <1>10 DEF Next, LoopSteps

LEMMA StepsKept ==
  ASSUME StepsTyped, UNCHANGED <<transitions, made>>
  PROVE  StepsTyped'
BY DEF StepsTyped

LEMMA LastRetyped ==
  ASSUME NEW ts \in Seq(Transition), ts # <<>>, \A k \in 1 .. Len(ts) : ts[k].acts # <<>>,
         NEW u \in Transition, u.acts # <<>>, NEW r, r = [ts EXCEPT ![Len(ts)] = u]
  PROVE  r \in Seq(Transition) /\ \A k \in 1 .. Len(r) : r[k].acts # <<>>
<1>1. Len(ts) \in 1 .. Len(ts)
  OBVIOUS
<1>2. /\ r \in Seq(Transition) /\ Len(r) = Len(ts)
      /\ \A k \in 1 .. Len(ts) : r[k] = IF k = Len(ts) THEN u ELSE ts[k]
  BY <1>1, ExceptSeq
<1> QED
  BY <1>2

LEMMA AnotherTyped ==
  ASSUME NEW ts \in Seq(Transition), \A k \in 1 .. Len(ts) : ts[k].acts # <<>>,
         NEW u \in Transition, u.acts # <<>>, NEW r, r = Append(ts, u)
  PROVE  r \in Seq(Transition) /\ \A k \in 1 .. Len(r) : r[k].acts # <<>>
<1>1. /\ r \in Seq(Transition) /\ Len(r) = Len(ts) + 1 /\ r[Len(ts) + 1] = u /\ Len(ts) \in Nat
      /\ \A k \in 1 .. Len(ts) : r[k] = ts[k]
  OBVIOUS
<1> QED
  BY <1>1

(* A snapshot adds a step with what the events map to, or changes the last.*)
LEMMA SnapshotSets ==
  ASSUME Bounded, EventsTyped, StepsTyped, TakeSnapshot
  PROVE  \E acts \in Seq(Event) :
           \/ UNCHANGED transitions
           \/ \E u \in Transition :
                /\ transitions # <<>>
                /\ transitions' = [transitions EXCEPT ![Len(transitions)] = u]
                /\ u.acts = LastTransition.acts
           \/ \E u \in Transition :
                /\ transitions # <<>>
                /\ transitions' = [transitions EXCEPT ![Len(transitions)] = u]
                /\ u.acts = acts /\ acts # <<>>
           \/ \E u \in Transition :
                transitions' = Append(transitions, u) /\ u.acts = acts /\ acts # <<>>
<1> DEFINE implicit == flush.changed /\ flush.events = <<>>
           actions == ActionsOf(flush.events, Found(states[current]))
           touched(acts) == IF implicit THEN Merges(current) ELSE acts # <<>>
<1>1. PICK acts \in {actions, <<>>} :
        transitions' = IF ~touched(acts) THEN transitions
                       ELSE IF implicit
                              THEN SetLast([LastTransition EXCEPT !.target = current'])
                              ELSE Extended(current, current', acts)
  BY Zenon DEF TakeSnapshot
<1>2. acts \in Seq(Event)
  <2>1. flush.events \in Seq(Event)
    BY DEF EventsTyped
  <2>2. actions \in Seq(Event)
    BY <2>1, ActionsFit
  <2>3. acts = actions \/ acts = <<>>
    BY <1>1
  <2> HIDE DEF actions
  <2>4. <<>> \in Seq(Event)
    OBVIOUS
  <2> QED
    BY <2>2, <2>3, <2>4
<1>3. current' \in Nat /\ current \in Nat
  BY SnapshotFits DEF ListsFit, ListsTyped, Bounded
<1>4. transitions # <<>> => LastTransition \in Transition
  BY DEF StepsTyped, LastTransition
<1> HIDE DEF actions
<1>5. CASE ~touched(acts)
  BY <1>1, <1>2, <1>5
<1>6. CASE touched(acts) /\ implicit
  <2> DEFINE u == [LastTransition EXCEPT !.target = current']
  <2>1. transitions # <<>>
    BY <1>6 DEF Merges
  <2>2. u \in Transition /\ u.acts = LastTransition.acts
    BY <1>3, <1>4, <2>1 DEF Transition
  <2>3. transitions' = [transitions EXCEPT ![Len(transitions)] = u]
    BY <1>1, <1>6 DEF SetLast
  <2> QED
    BY <1>2, <2>1, <2>2, <2>3
<1>7. CASE touched(acts) /\ ~implicit
  <2>1. CASE Coalesces(current, acts)
    <3> DEFINE u == [LastTransition EXCEPT !.target = current', !.acts = acts]
    <3>1. transitions # <<>>
      BY <2>1, ListFacts DEF Coalesces, LastIsActive
    <3>2. u \in Transition /\ u.acts = acts
      BY <1>2, <1>3, <1>4, <3>1 DEF Transition
    <3>3. transitions' = [transitions EXCEPT ![Len(transitions)] = u]
      BY <1>1, <1>7, <2>1 DEF SetLast, Extended
    <3> QED
      BY <1>2, <1>7, <3>1, <3>2, <3>3
  <2>2. CASE ~Coalesces(current, acts)
    <3> DEFINE u == [id |-> made + 1, source |-> current, target |-> current', acts |-> acts]
    <3>1. u \in Transition /\ u.acts = acts
      BY <1>2, <1>3 DEF Transition, StepsTyped
    <3>2. transitions' = Append(transitions, u)
      BY <1>1, <1>7, <2>2 DEF Extended
    <3> QED
      BY <1>2, <1>7, <3>1, <3>2
  <2> QED
    BY <2>1, <2>2
<1> QED
  BY <1>5, <1>6, <1>7

LEMMA RewoundTyped ==
  ASSUME Bounded, StepsTyped, CommitRewind
  PROVE  StepsTyped'
<1> DEFINE cut == segment.base + plan.keep
           kept == SubSeq(transitions, 1, cut)
<1>1. /\ \/ /\ plan.keep > 0
            /\ transitions' = [kept EXCEPT ![cut].target = current']
         \/ transitions' = kept
      /\ UNCHANGED made
  BY DEF CommitRewind
<1>2. /\ plan.keep \in 0 .. Len(transitions) - segment.base /\ segment.base \in Nat
      /\ segment.base <= Len(transitions) /\ Len(transitions) \in Nat
  BY ListFacts DEF CommitRewind, Bounded, PlanFits
<1>3. cut \in 0 .. Len(transitions) /\ (plan.keep > 0 => cut \in 1 .. Len(transitions))
  BY <1>2
<1> HIDE DEF cut
<1>4. /\ kept \in Seq(Transition) /\ Len(kept) = cut
      /\ \A k \in 1 .. Len(kept) : kept[k].acts # <<>>
  <2>1. kept \in Seq(Transition)
    BY <1>2, <1>3 DEF StepsTyped
  <2>2. IsSequence(transitions)
    BY ListFacts
  <2>3. Len(kept) = cut /\ \A k \in 1 .. cut : kept[k] = transitions[k]
    BY <1>3, <2>2, CutShort
  <2> QED
    BY <1>2, <1>3, <2>1, <2>3 DEF StepsTyped
<1> HIDE DEF kept
<1>5. CASE plan.keep > 0 /\ transitions' = [kept EXCEPT ![cut].target = current']
  <2> DEFINE u == [kept[cut] EXCEPT !.target = current']
  <2>1. cut \in 1 .. Len(kept) /\ kept # <<>> /\ kept[cut] \in Transition /\ kept[cut].acts # <<>>
    BY <1>3, <1>4, <1>5
  <2>2. current' \in Nat
    BY RewindFits DEF ListsFit, ListsTyped
  <2>3. u \in Transition /\ u.acts # <<>>
    BY <2>1, <2>2 DEF Transition
  <2>4. transitions' = [kept EXCEPT ![Len(kept)] = u]
    BY <1>4, <1>5, Zenon
  <2> HIDE DEF u
  <2>5. transitions' \in Seq(Transition) /\ \A k \in 1 .. Len(transitions') : transitions'[k].acts # <<>>
    BY <1>4, <2>1, <2>3, <2>4, LastRetyped
  <2> QED
    BY <1>1, <2>5 DEF StepsTyped
<1>6. CASE transitions' = kept
  BY <1>1, <1>4, <1>6 DEF StepsTyped
<1> QED
  BY <1>1, <1>5, <1>6

LEMMA StepsStayTyped ==
  ASSUME Bounded, EventsTyped, StepsTyped, Next
  PROVE  StepsTyped'
<1>1. CASE TakeSnapshot
  <2>1. made' \in Nat
    <3>1. made' = IF Len(transitions') > Len(transitions) THEN made + 1 ELSE made
      BY <1>1, Zenon DEF TakeSnapshot
    <3> QED
      BY <3>1 DEF StepsTyped
  <2>2. transitions # <<>> => LastTransition.acts # <<>>
    BY ListFacts DEF StepsTyped, LastTransition
  <2>3. transitions' \in Seq(Transition) /\ \A k \in 1 .. Len(transitions') : transitions'[k].acts # <<>>
    <3>0. transitions \in Seq(Transition) /\ \A k \in 1 .. Len(transitions) : transitions[k].acts # <<>>
      BY DEF StepsTyped
    <3>1. CASE UNCHANGED transitions
      BY <3>0, <3>1
    <3>2. ASSUME NEW u \in Transition, transitions # <<>>, u.acts # <<>>,
                 transitions' = [transitions EXCEPT ![Len(transitions)] = u]
          PROVE  transitions' \in Seq(Transition) /\ \A k \in 1 .. Len(transitions') : transitions'[k].acts # <<>>
      BY <3>0, <3>2, LastRetyped
    <3>3. ASSUME NEW u \in Transition, u.acts # <<>>, transitions' = Append(transitions, u)
          PROVE  transitions' \in Seq(Transition) /\ \A k \in 1 .. Len(transitions') : transitions'[k].acts # <<>>
      BY <3>0, <3>3, AnotherTyped
    <3> QED
      BY <1>1, <2>2, <3>1, <3>2, <3>3, SnapshotSets
  <2> QED
    BY <2>1, <2>3 DEF StepsTyped
<1>2. CASE CommitRewind
  BY <1>2, RewoundTyped
<1>3. CASE \/ \E e \in UNION {Offers[p] : p \in Pages} : UserActs(e)
           \/ Drift \/ WaitEnds \/ RecordEvent \/ TakeStep \/ SendStep \/ MonitorDecides
           \/ MonitorLooks \/ LoopLooks \/ FlushFails
           \/ \E op \in {"start", "publish", "finish", "rewind"} : Serve(op)
  BY <1>3, StepsKept DEF UserActs, Drift, WaitEnds, RecordEvent, TakeStep, SendStep, MonitorDecides,
     MonitorLooks, LoopLooks, FlushFails, Serve, recording
<1>4. CASE StartFlow \/ RefuseFinish \/ FinishSegment \/ PersistFails \/ StoreFlow
           \/ RefuseRewind \/ PrepareRewind \/ Replay \/ Activate
  BY <1>4, StepsKept DEF StartFlow, RefuseFinish, FinishSegment, PersistFails, StoreFlow,
     RefuseRewind, PrepareRewind, Replay, Activate, recording
<1> QED
  BY <1>1, <1>2, <1>3, <1>4 DEF Next, LoopSteps

LEMMA SlipsAre ==
  ASSUME Next
  PROVE  slips \subseteq SlipKind => slips' \subseteq SlipKind
<1>1. CASE TakeSnapshot
  <2>1. slips' \subseteq slips \union {"unresolved", "unmapped", "unexplained"}
    BY <1>1, Zenon DEF TakeSnapshot, Slip
  <2> QED
    BY <2>1 DEF SlipKind
<1>2. CASE \/ \E e \in UNION {Offers[p] : p \in Pages} : UserActs(e)
           \/ MonitorLooks \/ LoopLooks \/ FlushFails
  BY <1>2 DEF UserActs, MonitorLooks, LoopLooks, Look, FlushFails, Slip, SlipKind
<1>3. CASE \/ Drift \/ WaitEnds \/ RecordEvent \/ TakeStep \/ SendStep \/ MonitorDecides
           \/ \E op \in {"start", "publish", "finish", "rewind"} : Serve(op)
  BY <1>3 DEF Drift, WaitEnds, RecordEvent, TakeStep, SendStep, MonitorDecides, Serve, history
<1>4. CASE FinishSegment \/ CommitRewind
  BY <1>4 DEF FinishSegment, CommitRewind, Slip, SlipKind
<1>5. CASE StartFlow \/ RefuseFinish \/ PersistFails \/ StoreFlow \/ RefuseRewind
  BY <1>5 DEF StartFlow, RefuseFinish, PersistFails, StoreFlow, RefuseRewind, Refuse, Slip, SlipKind
<1>6. CASE PrepareRewind \/ Replay \/ Activate
  BY <1>6 DEF PrepareRewind, Replay, Activate, Slip, SlipKind, history
<1> QED
  BY <1>1, <1>2, <1>3, <1>4, <1>5, <1>6 DEF Next, LoopSteps

LEMMA LoopStaysTyped ==
  ASSUME Bounded, LoopTyped, Next
  PROVE  LoopTyped'
<1>0. slips' \subseteq SlipKind
  BY SlipsAre DEF LoopTyped
<1>1. CASE \/ \E e \in UNION {Offers[p] : p \in Pages} : UserActs(e)
           \/ Drift \/ WaitEnds \/ RecordEvent \/ TakeStep \/ SendStep \/ MonitorDecides
           \/ MonitorLooks
  <2>1. UNCHANGED <<rewinding, loop, plan>>
    BY <1>1 DEF UserActs, Drift, WaitEnds, RecordEvent, TakeStep, SendStep, MonitorDecides,
                MonitorLooks
  <2> QED
    BY <1>0, <2>1 DEF LoopTyped
<1>2. CASE TakeSnapshot \/ FlushFails
  <2>1. UNCHANGED <<rewinding, plan>>
    BY <1>2, Zenon DEF TakeSnapshot, FlushFails
  <2>2. \/ UNCHANGED loop \/ loop' = AtRest
        \/ loop' = [loop EXCEPT !.at = "body"] \/ loop' = [loop EXCEPT !.at = "ended"]
    <3>1. CASE TakeSnapshot
      <4>1. \E who, steps : Flushed(who, steps)
        BY <3>1, Zenon DEF TakeSnapshot
      <4> QED
        BY <4>1 DEF Flushed
    <3>2. CASE FlushFails
      BY <3>2 DEF FlushFails
    <3> QED
      BY <1>2, <3>1, <3>2
  <2> QED
    BY <1>0, <2>1, <2>2 DEF LoopTyped, AtRest
<1>3. CASE LoopLooks \/ \E op \in {"start", "publish", "finish", "rewind"} : Serve(op)
  <2>1. /\ UNCHANGED <<rewinding, plan>>
        /\ \/ loop' = AtRest
           \/ loop' = [loop EXCEPT !.at = "flushing"] \/ loop' = [loop EXCEPT !.at = "body"]
           \/ \E op \in {"start", "publish", "finish", "rewind"} : loop' = [op |-> op, at |-> "flush"]
    BY <1>3 DEF LoopLooks, Serve
  <2> QED
    BY <1>0, <2>1 DEF LoopTyped, AtRest
<1>4. CASE StartFlow \/ RefuseFinish \/ FinishSegment \/ PersistFails \/ StoreFlow \/ RefuseRewind
  <2>1. /\ UNCHANGED <<rewinding, plan>>
        /\ loop' = AtRest \/ loop' = [loop EXCEPT !.at = "store"]
    BY <1>4 DEF StartFlow, RefuseFinish, FinishSegment, PersistFails, StoreFlow, RefuseRewind, Refuse
  <2> QED
    BY <1>0, <2>1 DEF LoopTyped, AtRest
<1>5. CASE PrepareRewind
  <2>1. PICK keep \in 0 .. Len(Entries) :
          plan' = [keep |-> keep, page |-> NoPage,
                   target |-> IF keep = 0 THEN segment.first ELSE Entries[keep].target]
    BY <1>5 DEF PrepareRewind
  <2>2. rewinding' = TRUE /\ loop' = [loop EXCEPT !.at = "replay"] /\ segment.active
    BY <1>5 DEF PrepareRewind
  <2> DEFINE n == Len(transitions)
             b == segment.base
  <2>a. /\ IsSequence(transitions) /\ n \in Nat /\ b \in Nat /\ b <= n /\ segment.first \in Nat
        /\ \A k \in 1 .. n : transitions[k].target \in Nat
    BY ListFacts DEF Segment
  <2>b. Len(Entries) = n - b /\ \A k \in 1 .. n - b : Entries[k] = transitions[b + k]
    BY <2>2, <2>a, EntriesAre
  <2>c. ASSUME NEW k \in 1 .. Len(Entries) PROVE Entries[k].target \in Nat
    <3>1. b + k \in 1 .. n /\ Entries[k] = transitions[b + k]
      BY <2>a, <2>b
    <3> QED
      BY <2>a, <3>1
  <2>3. /\ Len(Entries) \in Nat /\ segment.first \in Nat
        /\ \A k \in 1 .. Len(Entries) : Entries[k].target \in Nat
    BY <2>a, <2>b, <2>c
  <2>4. plan' \in [keep : Nat, target : Nat, page : Pages \union {NoPage}]
    BY <2>1, <2>3
  <2> QED
    BY <1>0, <2>2, <2>4 DEF LoopTyped
<1>6. CASE Replay \/ Activate \/ CommitRewind
  <2>1. /\ rewinding' \in BOOLEAN
        /\ plan' = NoPlan \/ plan' = plan \/ \E p \in Pages : plan' = [plan EXCEPT !.page = p]
        /\ \/ loop' = AtRest \/ loop' = [loop EXCEPT !.at = "activate"]
           \/ loop' = [loop EXCEPT !.at = "commit"]
    BY <1>6 DEF Replay, Activate, CommitRewind, GiveUp, LoopTyped
  <2> QED
    BY <1>0, <2>1 DEF LoopTyped, AtRest, NoPlan
<1> QED
  BY <1>1, <1>2, <1>3, <1>4, <1>5, <1>6 DEF Next, LoopSteps

LEMMA QueuesStayTyped ==
  ASSUME Bounded, StepsTyped, StepsTyped', QueuesTyped, Next
  PROVE  QueuesTyped'
<1>1. CASE TakeSnapshot
  <2> DEFINE m == Payload(transitions')
  <2>1. /\ UNCHANGED <<sending, told>>
        /\ \/ outbox' = outbox \/ outbox' = outbox \o <<>>
           \/ Len(transitions') > segment.base /\ outbox' = outbox \o Payload(transitions')
    <3>1. /\ UNCHANGED <<sending, told>>
          /\ \E acts : LET announced == acts /\ Len(transitions') > segment.base
                       IN  Flushed(flush.by, IF announced THEN Payload(transitions') ELSE <<>>)
      BY <1>1, Zenon DEF TakeSnapshot
    <3> QED
      BY <3>1 DEF Flushed
  <2>2. ASSUME Len(transitions') > segment.base, outbox' = outbox \o Payload(transitions')
        PROVE  outbox' \in Seq(Message)
    <3>1. Len(transitions') \in 1 .. Len(transitions') /\ segment \in Segment
      BY <2>2, ListFacts DEF StepsTyped
    <3>2. transitions'[Len(transitions')] \in Transition
      BY <3>1 DEF StepsTyped
    <3>3. segment.revision \in Nat /\ transitions'[Len(transitions')].id \in Nat
      BY <3>1, <3>2 DEF Segment, Transition
    <3>4. [id |-> transitions'[Len(transitions')].id, revision |-> segment.revision] \in Message
      BY <3>3 DEF Message
    <3>5. Payload(transitions') \in Seq(Message)
      BY <3>4 DEF Payload
    <3> QED
      BY <2>2, <3>5 DEF QueuesTyped
  <2> QED
    BY <2>1, <2>2 DEF QueuesTyped
<1>2. CASE TakeStep
  <2>1. /\ sending' = <<Head(outbox)>> /\ outbox' = Tail(outbox) /\ outbox # <<>> /\ UNCHANGED told
    BY <1>2 DEF TakeStep
  <2>2. Head(outbox) \in Message /\ Tail(outbox) \in Seq(Message)
    BY <2>1 DEF QueuesTyped
  <2> QED
    BY <2>1, <2>2 DEF QueuesTyped
<1>3. CASE SendStep
  <2>1. /\ sending # <<>> /\ sending' = <<>> /\ UNCHANGED outbox
        /\ told' \subseteq told \union {Head(sending).id}
    BY <1>3 DEF SendStep
  <2>2. Head(sending) \in Message
    BY <2>1 DEF QueuesTyped
  <2> QED
    BY <2>1, <2>2 DEF QueuesTyped, Message
<1>4. CASE StartFlow
  <2>1. UNCHANGED <<outbox, sending>>
    BY <1>4 DEF StartFlow
  <2>2. \A k \in 1 .. Len(transitions) : transitions[k].id \in Nat
    <3>1. \A k \in 1 .. Len(transitions) : transitions[k] \in Transition
      BY DEF StepsTyped
    <3> QED
      BY <3>1 DEF Transition
  <2> DEFINE first == IF candidate < current THEN candidate ELSE current
  <2>3. told' = {transitions[k].id : k \in CountBefore(first) + 1 .. Len(transitions)}
    BY <1>4 DEF StartFlow
  <2>4. first \in Nat
    BY ListFacts
  <2> HIDE DEF first
  <2>5. CountBefore(first) \in Nat /\ Len(transitions) \in Nat
    BY <2>4, ListFacts, CountBeforeIs DEF Bounded, ListsFit
  <2>6. \A k \in CountBefore(first) + 1 .. Len(transitions) : transitions[k].id \in Nat
    BY <2>2, <2>5
  <2> QED
    BY <2>1, <2>3, <2>6 DEF QueuesTyped
<1>5. CASE PrepareRewind
  BY <1>5 DEF PrepareRewind, QueuesTyped
<1>6. CASE CommitRewind
  <2> DEFINE cut == segment.base + plan.keep
             kept == SubSeq(transitions, 1, cut)
  <2>1. /\ outbox' = <<>> /\ UNCHANGED sending
        /\ told' = {kept[k].id : k \in segment.base + 1 .. cut}
    BY <1>6 DEF CommitRewind
  <2>2. /\ cut \in 0 .. Len(transitions) /\ segment.base \in Nat /\ Len(transitions) \in Nat
    BY <1>6, ListFacts DEF CommitRewind, Bounded, PlanFits
  <2>3. \A k \in 1 .. cut : kept[k] = transitions[k]
    <3>1. IsSequence(transitions)
      BY ListFacts
    <3> HIDE DEF cut
    <3> QED
      BY <2>2, <3>1, CutShort
  <2>4. \A k \in 1 .. Len(transitions) : transitions[k].id \in Nat
    <3>1. \A k \in 1 .. Len(transitions) : transitions[k] \in Transition
      BY DEF StepsTyped
    <3> QED
      BY <3>1 DEF Transition
  <2> HIDE DEF cut, kept
  <2>5. \A k \in segment.base + 1 .. cut : kept[k].id \in Nat
    BY <2>2, <2>3, <2>4
  <2> QED
    BY <2>1, <2>5 DEF QueuesTyped
<1>7. CASE \/ \E e \in UNION {Offers[p] : p \in Pages} : UserActs(e)
           \/ Drift \/ WaitEnds \/ RecordEvent \/ MonitorDecides
           \/ MonitorLooks \/ LoopLooks \/ FlushFails
           \/ \E op \in {"start", "publish", "finish", "rewind"} : Serve(op)
  <2>1. UNCHANGED <<outbox, sending, told>>
    BY <1>7 DEF UserActs, Drift, WaitEnds, RecordEvent, MonitorDecides, MonitorLooks, LoopLooks,
                FlushFails, Serve, client
  <2> QED
    BY <2>1 DEF QueuesTyped
<1>8. CASE RefuseFinish \/ FinishSegment \/ PersistFails \/ StoreFlow \/ RefuseRewind \/ Replay
           \/ Activate
  <2>1. UNCHANGED <<outbox, sending, told>>
    BY <1>8 DEF RefuseFinish, FinishSegment, PersistFails, StoreFlow, RefuseRewind, Replay,
                Activate, client
  <2> QED
    BY <2>1 DEF QueuesTyped
<1> QED
  BY <1>1, <1>2, <1>3, <1>4, <1>5, <1>6, <1>7, <1>8 DEF Next, LoopSteps

(* The pages and actions of the active steps.                              *)
LEMMA RefsAreSteps ==
  ASSUME Bounded, StepsTyped, segment.active
  PROVE  /\ Entries \in Seq(Transition)
         /\ \A k \in DOMAIN Entries : /\ Ref(Entries[k]) \in Step
                                      /\ states[Entries[k].source] \in Pages
                                      /\ states[Entries[k].target] \in Pages
         /\ states[segment.first] \in Pages
<1> DEFINE n == Len(transitions)
           b == segment.base
<1>1. /\ Len(Entries) = n - b /\ DOMAIN Entries = 1 .. n - b /\ n \in Nat /\ b \in Nat /\ b <= n
      /\ \A k \in 1 .. n - b : Entries[k] = transitions[b + k]
      /\ segment.first \in Nat /\ states \in Seq(Pages) /\ current \in Nat /\ candidate \in Nat
      /\ candidate >= 1 /\ current <= Len(states) /\ IsSequence(transitions)
  BY ListFacts, EntriesAre DEF Segment
<1>2. segment.first \in 1 .. Len(states) /\ segment.first >= candidate
  BY <1>1 DEF Bounded, ListsFit, SegmentFits
<1>3. \A k \in b + 1 .. n : /\ k \in 1 .. n /\ transitions[k].source >= segment.first
                            /\ transitions[k].source \in Nat /\ transitions[k].target \in Nat
  BY <1>1, ListFacts DEF Bounded, ListsFit, SegmentFits
<1>4. ASSUME NEW k \in b + 1 .. n
      PROVE  transitions[k].source \in 1 .. Len(states) /\ transitions[k].target \in 1 .. Len(states)
  <2>1. transitions[k].source >= candidate
    BY <1>1, <1>2, <1>3
  <2>2. transitions[k].source <= transitions[k].target /\ transitions[k].target <= current
    BY <1>3, <2>1 DEF Bounded, ListsFit, InOrder
  <2> QED
    BY <1>1, <1>2, <1>3, <2>2
<1>5. Entries \in Seq(Transition)
  BY <1>1 DEF Entries, StepsTyped
<1>6. ASSUME NEW k \in 1 .. n - b
      PROVE  /\ Ref(Entries[k]) \in Step
             /\ states[Entries[k].source] \in Pages /\ states[Entries[k].target] \in Pages
  <2>1. Entries[k] = transitions[b + k] /\ b + k \in b + 1 .. n
    BY <1>1
  <2> DEFINE from == transitions[b + k].source
             to == transitions[b + k].target
  <2>2. states[from] \in Pages /\ states[to] \in Pages
    <3>1. from \in 1 .. Len(states) /\ to \in 1 .. Len(states)
      BY <1>4, <2>1
    <3> HIDE DEF from, to
    <3> QED
      BY <1>1, <3>1
  <2>3. Entries[k].acts \in Seq(Event)
    <3>1. b + k \in 1 .. n
      BY <1>1, <2>1
    <3>2. transitions[b + k] \in Transition
      BY <3>1 DEF StepsTyped
    <3> QED
      BY <2>1, <3>2 DEF Transition
  <2>4. Entries[k].source = from /\ Entries[k].target = to
    BY <2>1
  <2> HIDE DEF from, to
  <2> QED
    BY <2>2, <2>3, <2>4 DEF Ref, Step
<1> QED
  BY <1>1, <1>2, <1>5, <1>6

(* What is left when a step may be left out.                               *)
LEMMA ProjectedAre ==
  ASSUME NEW es, IsSequence(es), NEW projected \in {es} \union WithoutOne(es)
  PROVE  /\ IsSequence(projected)
         /\ \A k \in 1 .. Len(projected) : \E l \in 1 .. Len(es) : projected[k] = es[l]
<1>1. PICK S : es \in Seq(S)
  BY DEF IsSequence
<1>2. CASE projected = es
  BY <1>2, SequenceLen
<1>3. CASE projected \in WithoutOne(es)
  <2>1. PICK k \in DOMAIN es : projected = SubSeq(es, 1, k - 1) \o SubSeq(es, k + 1, Len(es))
    BY <1>3 DEF WithoutOne
  <2> DEFINE before == SubSeq(es, 1, k - 1)
             after == SubSeq(es, k + 1, Len(es))
  <2>2. k \in 1 .. Len(es) /\ Len(es) \in Nat
    BY <1>1, <2>1
  <2>3. /\ before \in Seq(S) /\ Len(before) = k - 1
        /\ \A i \in 1 .. k - 1 : before[i] = es[i]
    BY <1>1, <2>2
  <2>4. /\ after \in Seq(S) /\ Len(after) = Len(es) - k
        /\ \A i \in 1 .. Len(es) - k : after[i] = es[k + i]
    BY <1>1, <2>2
  <2>0. projected = before \o after
    BY <2>1
  <2> HIDE DEF before, after
  <2>5. /\ projected \in Seq(S) /\ Len(projected) = Len(es) - 1
        /\ \A i \in 1 .. Len(es) - 1 :
             projected[i] = IF i <= k - 1 THEN before[i] ELSE after[i - (k - 1)]
    BY <2>0, <2>2, <2>3, <2>4
  <2>6. ASSUME NEW i \in 1 .. Len(es) - 1 PROVE \E l \in 1 .. Len(es) : projected[i] = es[l]
    <3>1. CASE i <= k - 1
      <4>1. projected[i] = es[i] /\ i \in 1 .. Len(es)
        BY <2>2, <2>3, <2>5, <3>1
      <4> QED
        BY <4>1
    <3>2. CASE ~(i <= k - 1)
      <4>1. /\ i - (k - 1) \in 1 .. Len(es) - k /\ k + (i - (k - 1)) = i + 1
            /\ i + 1 \in 1 .. Len(es)
        BY <2>2, <3>2
      <4>2. projected[i] = es[i + 1]
        BY <2>4, <2>5, <3>2, <4>1
      <4> QED
        BY <4>1, <4>2
    <3> QED
      BY <3>1, <3>2
  <2>7. IsSequence(projected)
    BY <2>5 DEF IsSequence
  <2> QED
    BY <2>2, <2>5, <2>6, <2>7
<1> QED
  BY <1>2, <1>3

(* So the path of what is projected consists of steps.                     *)
LEMMA ProjectedTyped ==
  ASSUME Bounded, StepsTyped, segment.active, NEW projected, IsSequence(projected),
         \A k \in 1 .. Len(projected) : \E l \in 1 .. Len(Entries) : projected[k] = Entries[l]
  PROVE  /\ RefsOf(projected) \in Seq(Step)
         /\ graph.states \subseteq Pages => Persisted(projected).states \subseteq Pages
         /\ graph.transitions \subseteq Step => Persisted(projected).transitions \subseteq Step
<1>1. /\ Len(projected) \in Nat /\ DOMAIN projected = 1 .. Len(projected)
  BY SequenceLen
<1>2. ASSUME NEW k \in DOMAIN projected
      PROVE  /\ Ref(projected[k]) \in Step
             /\ states[projected[k].source] \in Pages /\ states[projected[k].target] \in Pages
  <2>1. PICK l \in 1 .. Len(Entries) : projected[k] = Entries[l]
    BY <1>1
  <2>2. l \in DOMAIN Entries
    BY RefsAreSteps
  <2> QED
    BY <2>1, <2>2, RefsAreSteps
<1>3. RefsOf(projected) \in Seq(Step)
  <2>1. RefsOf(projected) \in [1 .. Len(projected) -> Step]
    BY <1>1, <1>2 DEF RefsOf
  <2> QED
    BY <1>1, <2>1, SeqDef
<1>4. states[segment.first] \in Pages
  BY RefsAreSteps
<1>5. graph.states \subseteq Pages => Persisted(projected).states \subseteq Pages
  BY <1>2, <1>4 DEF Persisted
<1>6. graph.transitions \subseteq Step => Persisted(projected).transitions \subseteq Step
  BY <1>2 DEF Persisted
<1> QED
  BY <1>3, <1>5, <1>6

LEMMA RefsKept ==
  ASSUME RefsTyped, UNCHANGED <<refs, graph, flows>>
  PROVE  RefsTyped'
BY DEF RefsTyped

LEMMA RefsStayTyped ==
  ASSUME Bounded, StepsTyped, PathIsReady, RefsTyped, Next
  PROVE  RefsTyped'
<1>1. CASE FinishSegment
  <2>1. PICK projected \in {Entries} \union WithoutOne(Entries) :
          /\ graph' = IF projected = <<>> THEN graph ELSE Persisted(projected)
          /\ refs' = RefsOf(projected) \/ UNCHANGED refs
    BY <1>1 DEF FinishSegment
  <2>2. segment.active /\ UNCHANGED flows
    BY <1>1 DEF FinishSegment, Entries
  <2>3. IsSequence(Entries)
    BY <2>2, RefsAreSteps DEF IsSequence
  <2>4. /\ IsSequence(projected)
        /\ \A k \in 1 .. Len(projected) : \E l \in 1 .. Len(Entries) : projected[k] = Entries[l]
    BY <2>3, ProjectedAre
  <2>5. /\ RefsOf(projected) \in Seq(Step)
        /\ Persisted(projected).states \subseteq Pages
        /\ Persisted(projected).transitions \subseteq Step
    BY <2>2, <2>4, ProjectedTyped DEF RefsTyped
  <2> QED
    BY <2>1, <2>2, <2>5 DEF RefsTyped
<1>2. CASE PersistFails
  <2>1. PICK k \in DOMAIN Entries : graph' = Persisted(SubSeq(Entries, 1, k))
    BY <1>2 DEF PersistFails
  <2>2. segment.active /\ UNCHANGED <<refs, flows>>
    BY <1>2 DEF PersistFails, Entries
  <2>3. /\ IsSequence(Entries) /\ k \in 0 .. Len(Entries) /\ Len(Entries) \in Nat
    BY <2>1, <2>2, RefsAreSteps DEF IsSequence
  <2> DEFINE projected == SubSeq(Entries, 1, k)
  <2>4. /\ IsSequence(projected) /\ Len(projected) = k
        /\ \A i \in 1 .. k : projected[i] = Entries[i]
    BY <2>3, CutShort
  <2>5. graph' = Persisted(projected)
    BY <2>1
  <2> HIDE DEF projected
  <2>6. \A i \in 1 .. Len(projected) : \E l \in 1 .. Len(Entries) : projected[i] = Entries[l]
    BY <2>3, <2>4
  <2>7. /\ Persisted(projected).states \subseteq Pages
        /\ Persisted(projected).transitions \subseteq Step
    BY <2>2, <2>4, <2>6, ProjectedTyped DEF RefsTyped
  <2> QED
    BY <2>2, <2>5, <2>7 DEF RefsTyped
<1>3. CASE StoreFlow
  <2>1. /\ refs' = <<>> /\ UNCHANGED graph
        /\ flows' = flows \/ flows' = flows \union {[checkpoint |-> segment.checkpoint, steps |-> refs]}
    BY <1>3 DEF StoreFlow
  <2>2. IsPath(segment.checkpoint, refs) /\ segment.checkpoint \in graph.states
    BY <1>3 DEF StoreFlow, PathIsReady
  <2>3. segment.checkpoint \in Pages /\ refs \in Seq(Step)
    BY <2>2 DEF RefsTyped
  <2>4. [checkpoint |-> segment.checkpoint, steps |-> refs] \in [checkpoint : Pages, steps : Seq(Step)]
    BY <2>3
  <2> QED
    BY <2>1, <2>4 DEF RefsTyped
<1>4. CASE \/ \E e \in UNION {Offers[p] : p \in Pages} : UserActs(e)
           \/ Drift \/ WaitEnds \/ RecordEvent \/ TakeStep \/ SendStep \/ MonitorDecides
           \/ MonitorLooks \/ LoopLooks \/ FlushFails
           \/ \E op \in {"start", "publish", "finish", "rewind"} : Serve(op)
  BY <1>4, RefsKept DEF UserActs, Drift, WaitEnds, RecordEvent, TakeStep, SendStep, MonitorDecides,
     MonitorLooks, LoopLooks, FlushFails, Serve, stored
<1>5. CASE StartFlow \/ RefuseFinish \/ RefuseRewind \/ PrepareRewind \/ Replay \/ Activate
           \/ CommitRewind
  BY <1>5, RefsKept DEF StartFlow, RefuseFinish, RefuseRewind, PrepareRewind, Replay, Activate,
     CommitRewind, stored
<1>6. CASE TakeSnapshot
  <2>1. UNCHANGED <<refs, graph, flows>>
    BY <1>6, Zenon DEF TakeSnapshot, stored
  <2> QED
    BY <2>1, RefsKept
<1> QED
  BY <1>1, <1>2, <1>3, <1>4, <1>5, <1>6 DEF Next, LoopSteps

LEMMA StepTyped ==
  ASSUME Bounded, PathIsReady, Typed, [Next]_vars
  PROVE  Typed'
<1>1. CASE Next
  <2>1. EventsTyped' /\ StepsTyped' /\ LoopTyped' /\ RefsTyped'
    BY <1>1, EventsStayTyped, StepsStayTyped, LoopStaysTyped, RefsStayTyped DEF Typed
  <2>2. QueuesTyped'
    BY <1>1, <2>1, QueuesStayTyped DEF Typed
  <2> QED
    BY <2>1, <2>2 DEF Typed
<1>2. CASE UNCHANGED vars
  <2>1. EventsTyped' /\ StepsTyped' /\ LoopTyped'
    BY <1>2 DEF vars, browser, recording, history, Typed, EventsTyped, StepsTyped, LoopTyped
  <2>2. QueuesTyped' /\ RefsTyped'
    BY <1>2 DEF vars, client, stored, Typed, QueuesTyped, RefsTyped
  <2> QED
    BY <2>1, <2>2 DEF Typed
<1> QED
  BY <1>1, <1>2

LEMMA InitTyped == Init => Typed
<1> SUFFICES ASSUME Init PROVE Typed
  OBVIOUS
<1>1. EventsTyped
  <2>1. Home \in Pages
    BY RecorderAssumption DEF RecorderAssumption
  <2>2. NoFlush \in [by : {"nobody", "monitor", "loop"}, events : Seq(Event), changed : BOOLEAN]
    <3>1. <<>> \in Seq(Event)
      OBVIOUS
    <3> QED
      BY <3>1 DEF NoFlush
  <2>3. page = Home /\ arriving = <<>> /\ waiting = FALSE /\ pending = <<>> /\ flush = NoFlush
        /\ monitor = "asleep"
    BY DEF Init
  <2>4. waiting \in BOOLEAN
    BY DEF Init
  <2>5. arriving \in Seq(Event) /\ pending \in Seq(Event)
    BY <2>3
  <2>6. monitor \in {"asleep", "forcing"}
    BY <2>3
  <2> QED
    BY <2>1, <2>2, <2>3, <2>4, <2>5, <2>6, Zenon DEF EventsTyped
<1>2. StepsTyped
  BY DEF Init, StepsTyped
<1>3. LoopTyped
  BY DEF Init, LoopTyped, AtRest, NoPlan, SlipKind
<1>4. QueuesTyped
  BY DEF Init, QueuesTyped
<1>5. RefsTyped
  BY DEF Init, RefsTyped
<1> QED
  BY <1>1, <1>2, <1>3, <1>4, <1>5 DEF Typed

-----------------------------------------------------------------------------
(* What is stored happened.                                                *)

Clean == slips \intersect {"late", "hasty", "unmapped", "unresolved", "lost", "halfway"} = {}

(* The events that no step has been made of yet.                           *)
Held == IF flush = NoFlush THEN pending ELSE flush.events

(* After these, the page was once more the one the recorder knows.         *)
CameBack == arriving # <<>> \/ (flush # NoFlush /\ ~flush.changed)

Seen == \A q \in trail.from : <<q, trail.on, page>> \in shown

FlushFits == flush # NoFlush => (pending = <<>> /\ (flush.changed \/ flush.events # <<>>))

WasShown(t, pages, seen) == <<pages[t.source], Last(t.acts), pages[t.target]>> \in seen

StepsHappened ==
  \A k \in 1 .. Len(transitions) :
    transitions[k].source >= candidate => WasShown(transitions[k], states, shown)

PathHappened(steps, seen) ==
  \A k \in DOMAIN steps : <<steps[k][1], Last(steps[k][2]), steps[k][3]>> \in seen

StoredHappened ==
  /\ \A f \in flows : PathHappened(f.steps, shown)
  /\ loop.at = "store" => PathHappened(refs, shown)

(* The events that wait were caused on the page the recorder knows, the    *)
(* last of them is the user's last one, and no more than one is late.      *)
HeldFits ==
  /\ Len(arriving) <= 1
  /\ (Held # <<>> \/ arriving # <<>>) => states[current] \in trail.from
  /\ (arriving = <<>> /\ Held # <<>>) => trail.on = Last(Held)
  /\ arriving # <<>> => trail.on = arriving[1]
  /\ (flush # NoFlush /\ flush.changed) => arriving = <<>>
  /\ (Held # <<>> /\ CameBack) => <<states[current], Last(Held), states[current]>> \in shown

(* The last step leads to the page the recorder knows.                     *)
LeadsHere ==
  /\ transitions # <<>>
  /\ LastTransition.target = current /\ LastTransition.source >= candidate

(* Then the user's last event is its last, or goes on where it left off.   *)
LastFits ==
  LeadsHere =>
    LET last == Last(LastTransition.acts)
        from == states[LastTransition.source]
    IN
    /\ (Held = <<>> /\ arriving = <<>>) => trail.on = last
    /\ (AllOn(Held, last.on) /\ AllOn(arriving, last.on)) =>
         (from \in trail.from /\ trail.on.on = last.on)
    /\ (Held # <<>> /\ AllOn(Held, last.on) /\ CameBack) =>
         <<from, Last(Held), states[current]>> \in shown

(* The replayed path ended where the recorder is about to look.            *)
ReplayFits == trail = Replayed /\ \A q \in trail.from : <<q, trail.on, plan.page>> \in shown

InputFits ==
  /\ loop.at = "commit" => ReplayFits
  /\ loop.at # "commit" => (HeldFits /\ LastFits)

Happened == /\ Seen /\ FlushFits
            /\ Clean => (StepsHappened /\ StoredHappened /\ InputFits)

LEMMA SlipsStay ==
  ASSUME Next
  PROVE  slips \subseteq slips'
<1>1. CASE TakeSnapshot
  BY <1>1, Zenon DEF TakeSnapshot, Slip
<1>2. CASE \/ \E e \in UNION {Offers[p] : p \in Pages} : UserActs(e)
           \/ MonitorLooks \/ LoopLooks \/ FlushFails
  BY <1>2 DEF UserActs, MonitorLooks, LoopLooks, Look, FlushFails, Slip
<1>3. CASE \/ Drift \/ WaitEnds \/ RecordEvent \/ TakeStep \/ SendStep \/ MonitorDecides
           \/ \E op \in {"start", "publish", "finish", "rewind"} : Serve(op)
  BY <1>3 DEF Drift, WaitEnds, RecordEvent, TakeStep, SendStep, MonitorDecides, Serve, history
<1>4. CASE FinishSegment \/ CommitRewind
  BY <1>4 DEF FinishSegment, CommitRewind, Slip
<1>5. CASE StartFlow \/ RefuseFinish \/ PersistFails \/ StoreFlow \/ RefuseRewind
  BY <1>5 DEF StartFlow, RefuseFinish, PersistFails, StoreFlow, RefuseRewind, Refuse, Slip
<1>6. CASE PrepareRewind \/ Replay \/ Activate
  BY <1>6 DEF PrepareRewind, Replay, Activate, Slip, history
<1> QED
  BY <1>1, <1>2, <1>3, <1>4, <1>5, <1>6 DEF Next, LoopSteps

LEMMA CleanBefore ==
  ASSUME Clean', slips \subseteq slips'
  PROVE  Clean
BY DEF Clean

-----------------------------------------------------------------------------
(* Most steps move neither the recorder's indexes nor the events.          *)
LEMMA StepsStayShown ==
  ASSUME StepsHappened, UNCHANGED <<states, transitions>>, candidate \in Nat, candidate' \in Nat,
         \A k \in 1 .. Len(transitions) : transitions[k].source \in Nat,
         candidate <= candidate', shown \subseteq shown'
  PROVE  StepsHappened'
BY DEF StepsHappened, WasShown

LEMMA StoredStaysShown ==
  ASSUME StoredHappened, UNCHANGED flows, shown \subseteq shown',
         loop'.at = "store" => (loop.at = "store" /\ UNCHANGED refs)
  PROVE  StoredHappened'
BY DEF StoredHappened, PathHappened

LEMMA HeldKept ==
  ASSUME HeldFits, UNCHANGED <<arriving, flush, pending, trail, states, current>>,
         shown \subseteq shown'
  PROVE  HeldFits'
BY DEF HeldFits, Held, CameBack

LEMMA LastKept ==
  ASSUME LastFits, UNCHANGED <<arriving, flush, pending, trail, states, transitions, current>>,
         candidate \in Nat, candidate' \in Nat,
         transitions # <<>> => LastTransition.source \in Nat,
         candidate <= candidate', shown \subseteq shown'
  PROVE  LastFits'
<1> SUFFICES ASSUME LeadsHere' PROVE LastFits'
  BY DEF LastFits
<1>1. LeadsHere
  BY DEF LeadsHere, LastTransition
<1> QED
  BY <1>1 DEF LastFits, Held, CameBack, LastTransition

LEMMA ReplayKept ==
  ASSUME ReplayFits, UNCHANGED <<trail, plan, segment, transitions, states>>, shown \subseteq shown'
  PROVE  ReplayFits'
<1>1. UNCHANGED Replayed
  BY DEF Replayed, Entries
<1> QED
  BY <1>1 DEF ReplayFits

(* What nothing of this depends on.                                        *)
LEMMA OthersHappened ==
  ASSUME Bounded, Happened, slips \subseteq slips',
         UNCHANGED <<page, arriving, pending, flush, states, transitions, current, trail, shown,
                     flows, refs>>,
         candidate' \in Nat, candidate <= candidate',
         (loop'.at = "commit" \/ loop.at = "commit") =>
           (loop'.at = loop.at /\ UNCHANGED <<plan, segment>>),
         loop'.at = "store" => loop.at = "store"
  PROVE  Happened'
<1>1. Seen' /\ FlushFits'
  BY DEF Happened, Seen, FlushFits
<1>2. ASSUME Clean' PROVE StepsHappened' /\ StoredHappened' /\ InputFits'
  <2>1. StepsHappened /\ StoredHappened /\ InputFits
    BY <1>2, CleanBefore DEF Happened
  <2>2. StepsHappened' /\ StoredHappened'
    BY <2>1, ListFacts, StepsStayShown, StoredStaysShown
  <2>3. transitions # <<>> => LastTransition.source \in Nat
    BY ListFacts DEF LastTransition
  <2>4. InputFits'
    <3>1. CASE loop'.at = "commit"
      BY <2>1, <3>1, ReplayKept DEF InputFits
    <3>2. CASE loop'.at # "commit"
      BY <2>1, <2>3, <3>2, ListFacts, HeldKept, LastKept DEF InputFits
    <3> QED
      BY <3>1, <3>2 DEF InputFits
  <2> QED
    BY <2>2, <2>4
<1> QED
  BY <1>1, <1>2 DEF Happened

(* The event was caused on the page the recorder knows, or the user is     *)
(* hasty; typing goes on from the pages the last event was on.             *)
LEMMA ActsHappened ==
  ASSUME Bounded, Typed, Happened, NEW e \in UNION {Offers[p] : p \in Pages}, UserActs(e)
  PROVE  Happened'
<1> DEFINE continues == trail.from # {} /\ OnSame(trail.on, e)
           from == {page} \union (IF continues THEN trail.from ELSE {})
<1>1. /\ loop.at = "idle" /\ arriving' = Append(arriving, e)
      /\ trail' = [on |-> e, from |-> from]
      /\ shown' = shown \union {<<q, e, page'>> : q \in from}
      /\ slips' = slips \union (IF page # states[current] \/ arriving # <<>> \/ flush # NoFlush
                                  THEN {"hasty"} ELSE {})
      /\ UNCHANGED <<pending, flush, states, transitions, current, candidate, loop, flows, refs>>
  BY DEF UserActs, Slip, recording, stored
<1>2. trail'.on = e /\ trail'.from = from /\ page \in from
  BY <1>1
<1>3. Seen' /\ FlushFits'
  BY <1>1, <1>2 DEF Happened, Seen, FlushFits
<1>4. ASSUME Clean' PROVE StepsHappened' /\ StoredHappened' /\ InputFits'
  <2>1. page = states[current] /\ arriving = <<>> /\ flush = NoFlush
    BY <1>1, <1>4 DEF Clean
  <2>2. StepsHappened /\ StoredHappened /\ HeldFits /\ LastFits
    BY <1>1, <1>4, CleanBefore DEF Happened, InputFits
  <2>3. StepsHappened' /\ StoredHappened'
    BY <1>1, <2>2, ListFacts, StepsStayShown, StoredStaysShown
  <2>4. Held' = Held /\ Held = pending
    BY <1>1, <2>1 DEF Held
  <2>5. Len(arriving') = 1 /\ arriving'[1] = e /\ arriving' # <<>>
    BY <1>1, <2>1
  <2>6. shown \subseteq shown'
    BY <1>1
  <2>7. ASSUME Held # <<>>, NEW q \in trail.from
        PROVE  <<q, Last(Held), states[current]>> \in shown
    <3>1. trail.on = Last(Held)
      BY <2>1, <2>2, <2>7 DEF HeldFits
    <3> QED
      BY <2>1, <2>7, <3>1 DEF Happened, Seen
  <2>8. HeldFits'
    <3>1. Held # <<>> => <<states[current], Last(Held), states[current]>> \in shown
      BY <2>2, <2>7 DEF HeldFits
    <3> QED
      BY <1>1, <1>2, <2>1, <2>4, <2>5, <2>6, <3>1 DEF HeldFits
  <2>9. LastFits'
    <3> DEFINE last == Last(LastTransition.acts)
               start == states[LastTransition.source]
    <3> SUFFICES ASSUME LeadsHere'
        PROVE  LastFits'
      BY DEF LastFits
    <3>1. LeadsHere /\ UNCHANGED <<last, start>>
      BY <1>1 DEF LeadsHere, LastTransition
    <3>2. AllOn(Held, last.on) => start \in trail.from /\ trail.on.on = last.on
      BY <2>1, <2>2, <3>1 DEF LastFits, AllOn
    <3>3. AllOn(arriving', last.on) => e.on = last.on
      BY <2>5 DEF AllOn
    <3>4. AllOn(Held, last.on) /\ AllOn(arriving', last.on) =>
            start \in trail'.from /\ trail'.on.on = last.on
      BY <1>2, <3>2, <3>3 DEF OnSame
    <3>5. Held # <<>> /\ AllOn(Held, last.on) => <<start, Last(Held), states[current]>> \in shown
      BY <2>7, <3>2
    <3> HIDE DEF last, start
    <3>6. LastFits' = (/\ (Held' = <<>> /\ arriving' = <<>>) => trail'.on = last'
                       /\ (AllOn(Held', last'.on) /\ AllOn(arriving', last'.on)) =>
                            (start' \in trail'.from /\ trail'.on.on = last'.on)
                       /\ (Held' # <<>> /\ AllOn(Held', last'.on) /\ CameBack') =>
                            <<start', Last(Held'), states'[current']>> \in shown')
      BY DEF LastFits, last, start
    <3> QED
      BY <1>1, <2>4, <2>5, <2>6, <3>1, <3>4, <3>5, <3>6
  <2> QED
    BY <1>1, <2>3, <2>8, <2>9 DEF InputFits
<1> QED
  BY <1>3, <1>4 DEF Happened

(* Another page is shown after the last event.                             *)
LEMMA DriftHappened ==
  ASSUME Bounded, Happened, Drift
  PROVE  Happened'
<1>1. /\ shown' = shown \union ShownAfter(page')
      /\ UNCHANGED <<arriving, pending, flush, states, transitions, current, candidate, segment,
                     loop, plan, flows, refs, trail, slips>>
  BY DEF Drift, recording, stored
<1>2. shown \subseteq shown' /\ \A q \in trail.from : <<q, trail.on, page'>> \in shown'
  BY <1>1 DEF ShownAfter
<1>3. Seen' /\ FlushFits'
  BY <1>1, <1>2 DEF Happened, Seen, FlushFits
<1>4. ASSUME Clean' PROVE StepsHappened' /\ StoredHappened' /\ InputFits'
  <2>1. StepsHappened /\ StoredHappened /\ InputFits
    BY <1>1, <1>4, CleanBefore DEF Happened
  <2>2. StepsHappened' /\ StoredHappened'
    BY <1>1, <1>2, <2>1, ListFacts, StepsStayShown, StoredStaysShown
  <2>3. loop.at = "commit" => ReplayFits'
    BY <1>1, <1>2, <2>1, ReplayKept DEF InputFits
  <2>4. loop.at # "commit" => HeldFits' /\ LastFits'
    <3>1. transitions # <<>> => LastTransition.source \in Nat
      BY ListFacts DEF LastTransition
    <3> QED
      BY <1>1, <1>2, <2>1, <3>1, ListFacts, HeldKept, LastKept DEF InputFits
  <2> QED
    BY <1>1, <2>2, <2>3, <2>4 DEF InputFits
<1> QED
  BY <1>3, <1>4 DEF Happened

LEMMA OnlyOne ==
  ASSUME NEW s \in Seq(Event), s # <<>>, Len(s) <= 1
  PROVE  Len(s) = 1 /\ Head(s) = s[1] /\ Tail(s) = <<>>
<1>1. Len(s) = 1
  <2>1. IsSequence(s)
    BY DEF IsSequence
  <2>2. Len(s) \in Nat /\ Len(s) # 0
    BY <2>1, SequenceLen
  <2>3. \A n \in Nat : n # 0 /\ n <= 1 => n = 1
    OBVIOUS
  <2> QED
    BY <2>2, <2>3, Zenon
<1>2. Tail(s) \in Seq(Event) /\ Len(Tail(s)) = 0
  BY <1>1
<1>3. Tail(s) = <<>>
  <2>1. IsSequence(Tail(s))
    BY <1>2 DEF IsSequence
  <2> QED
    BY <1>2, <2>1, SequenceLen
<1> QED
  BY <1>1, <1>3

(* The event that comes next to the recorder is the user's last.           *)
LEMMA RecordHappened ==
  ASSUME Bounded, Typed, Happened, RecordEvent
  PROVE  Happened'
<1>1. /\ arriving # <<>> /\ flush = NoFlush /\ pending' = Append(pending, Head(arriving))
      /\ arriving' = Tail(arriving)
      /\ UNCHANGED <<page, flush, states, transitions, current, candidate, segment,
                     loop, plan, flows, refs, trail, shown, slips>>
  BY DEF RecordEvent, recording, stored, history
<1>2. Seen' /\ FlushFits'
  BY <1>1 DEF Happened, Seen, FlushFits
<1>3. ASSUME Clean' PROVE StepsHappened' /\ StoredHappened' /\ InputFits'
  <2>1. StepsHappened /\ StoredHappened /\ InputFits
    BY <1>1, <1>3, CleanBefore DEF Happened
  <2>2. StepsHappened' /\ StoredHappened'
    BY <1>1, <2>1, ListFacts, StepsStayShown, StoredStaysShown
  <2>3. loop.at = "commit" => ReplayFits'
    BY <1>1, <2>1, ReplayKept DEF InputFits
  <2>4. ASSUME loop.at # "commit" PROVE HeldFits' /\ LastFits'
    <3>1. HeldFits /\ LastFits /\ Held = pending
      BY <1>1, <2>1, <2>4 DEF InputFits, Held
    <3>2. arriving \in Seq(Event) /\ pending \in Seq(Event) /\ Len(arriving) <= 1
      BY <3>1 DEF Typed, EventsTyped, HeldFits
    <3>3. arriving' = <<>> /\ Head(arriving) = arriving[1] /\ Len(arriving) = 1
      BY <1>1, <3>2, OnlyOne
    <3>4. /\ Held' = Append(pending, arriving[1]) /\ Held' # <<>> /\ Last(Held') = arriving[1]
          /\ ~CameBack'
      BY <1>1, <3>2, <3>3 DEF Held, CameBack, Last
    <3>5. ASSUME NEW el, AllOn(Held', el) PROVE AllOn(Held, el) /\ AllOn(arriving, el)
      BY <3>1, <3>2, <3>3, <3>4, <3>5 DEF AllOn
    <3>6. HeldFits'
      BY <1>1, <3>1, <3>3, <3>4 DEF HeldFits
    <3>7. LastFits'
      <4> SUFFICES ASSUME LeadsHere' PROVE LastFits'
        BY DEF LastFits
      <4>1. LeadsHere
        BY <1>1 DEF LeadsHere, LastTransition
      <4> QED
        BY <1>1, <3>1, <3>4, <3>5, <4>1 DEF LastFits, LastTransition
    <3> QED
      BY <3>6, <3>7
  <2> QED
    BY <1>1, <2>2, <2>3, <2>4 DEF InputFits
<1> QED
  BY <1>2, <1>3 DEF Happened

(* What is shown at a look is what the user's last event led to.           *)
LEMMA LooksHappened ==
  ASSUME Bounded, Typed, Happened, MonitorLooks \/ LoopLooks
  PROVE  Happened'
<1>1. /\ UNCHANGED <<page, arriving, states, transitions, current, candidate, segment,
                     plan, flows, refs, trail, shown>>
      /\ slips \subseteq slips'
      /\ \/ UNCHANGED <<flush, pending>>
         \/ \E who \in {"monitor", "loop"} : \E force : Look(who, force)
      /\ \/ UNCHANGED loop
         \/ loop.at = "flush" /\ loop'.at \in {"idle", "flushing", "body"}
  <2>1. CASE MonitorLooks
    BY <2>1 DEF MonitorLooks, Look, Slip, browser, recording, stored
  <2>2. CASE LoopLooks
    <3>1. loop'.at \in {"idle", "flushing", "body"}
      <4>1. \/ loop' = [loop EXCEPT !.at = "flushing"] \/ loop' = AtRest
            \/ loop' = [loop EXCEPT !.at = "body"]
        BY <2>2 DEF LoopLooks
      <4> QED
        BY <4>1 DEF AtRest, Bounded, TasksTyped
    <3> QED
      BY <2>2, <3>1 DEF LoopLooks, Look, Slip, browser, recording, stored
  <2> QED
    BY <2>1, <2>2
<1>2. CASE UNCHANGED <<flush, pending>>
  <2>1. loop'.at = "store" => loop.at = "store"
    BY <1>1
  <2>2. (loop'.at = "commit" \/ loop.at = "commit") =>
           (loop'.at = loop.at /\ UNCHANGED <<plan, segment>>)
    BY <1>1
  <2>3. candidate' \in Nat /\ candidate <= candidate'
    BY <1>1, ListFacts
  <2> QED
    BY <1>1, <1>2, <2>1, <2>2, <2>3, OthersHappened
<1>3. ASSUME NEW who \in {"monitor", "loop"}, NEW force, Look(who, force) PROVE Happened'
  <2>1. /\ flush = NoFlush /\ flush' = [by |-> who, events |-> pending, changed |-> Changed]
        /\ pending' = <<>> /\ ~Declines(force)
        /\ slips' = slips \union (IF Changed /\ arriving # <<>> THEN {"late"} ELSE {})
    BY <1>3 DEF Look, Slip
  <2>2. /\ flush' # NoFlush /\ flush'.events = pending /\ flush'.changed = Changed
    BY <2>1 DEF NoFlush
  <2>3. Changed \/ pending # <<>>
    BY <2>1 DEF Declines
  <2>4. Held = pending /\ Held' = pending
    BY <2>1, <2>2 DEF Held
  <2>5. Seen' /\ FlushFits'
    BY <1>1, <2>1, <2>2, <2>3 DEF Happened, Seen, FlushFits
  <2>6. loop.at # "commit" /\ loop'.at # "commit"
    <3>1. ~rewinding
      BY <2>1 DEF Declines
    <3> QED
      BY <1>1, <3>1 DEF Bounded, PlanFits
  <2>7. ASSUME Clean' PROVE StepsHappened' /\ StoredHappened' /\ InputFits'
    <3>1. StepsHappened /\ StoredHappened /\ HeldFits /\ LastFits
      BY <1>1, <2>6, <2>7, CleanBefore DEF Happened, InputFits
    <3>2. StepsHappened' /\ StoredHappened'
      BY <1>1, <3>1, ListFacts, StepsStayShown, StoredStaysShown
    <3>3. Changed => arriving = <<>>
      BY <2>1, <2>7 DEF Clean
    <3>4. ASSUME Held # <<>>, arriving = <<>>, ~Changed, NEW q \in trail.from
          PROVE  <<q, Last(Held), states[current]>> \in shown
      <4>1. trail.on = Last(Held) /\ page = states[current]
        BY <3>1, <3>4 DEF HeldFits, Changed
      <4> QED
        BY <3>4, <4>1 DEF Happened, Seen
    <3>5. CameBack' => arriving # <<>> \/ ~Changed
      BY <1>1, <2>2 DEF CameBack
    <3>6. (arriving # <<>> => CameBack) /\ (Changed => ~CameBack')
      BY <1>1, <2>2, <3>3 DEF CameBack
    <3>7. HeldFits'
      <4>1. (Held # <<>> /\ CameBack') => <<states[current], Last(Held), states[current]>> \in shown
        BY <3>1, <3>4, <3>5, <3>6 DEF HeldFits
      <4> QED
        BY <1>1, <2>2, <2>4, <3>1, <3>3, <4>1 DEF HeldFits
    <3>8. LastFits'
      <4> DEFINE last == Last(LastTransition.acts)
                 start == states[LastTransition.source]
      <4> SUFFICES ASSUME LeadsHere' PROVE LastFits'
        BY DEF LastFits
      <4>1. LeadsHere /\ UNCHANGED <<last, start>>
        BY <1>1 DEF LeadsHere, LastTransition
      <4>2. /\ (Held = <<>> /\ arriving = <<>>) => trail.on = last
            /\ (AllOn(Held, last.on) /\ AllOn(arriving, last.on)) =>
                 (start \in trail.from /\ trail.on.on = last.on)
            /\ (Held # <<>> /\ AllOn(Held, last.on) /\ CameBack) =>
                 <<start, Last(Held), states[current]>> \in shown
        BY <3>1, <4>1 DEF LastFits
      <4>3. ASSUME Held # <<>>, AllOn(Held, last.on), CameBack'
            PROVE  <<start, Last(Held), states[current]>> \in shown
        <5>1. CASE arriving # <<>>
          BY <3>6, <4>2, <4>3, <5>1
        <5>2. CASE arriving = <<>>
          <6>1. AllOn(arriving, last.on)
            BY <5>2 DEF AllOn
          <6> HIDE DEF last, start
          <6> QED
            BY <3>4, <3>5, <4>2, <4>3, <5>2, <6>1
        <5> QED
          BY <5>1, <5>2
      <4> HIDE DEF last, start
      <4>4. LastFits' = (/\ (Held' = <<>> /\ arriving' = <<>>) => trail'.on = last'
                         /\ (AllOn(Held', last'.on) /\ AllOn(arriving', last'.on)) =>
                              (start' \in trail'.from /\ trail'.on.on = last'.on)
                         /\ (Held' # <<>> /\ AllOn(Held', last'.on) /\ CameBack') =>
                              <<start', Last(Held'), states'[current']>> \in shown')
        BY DEF LastFits, last, start
      <4> QED
        BY <1>1, <2>4, <4>1, <4>2, <4>3, <4>4
    <3> QED
      BY <2>6, <3>2, <3>7, <3>8 DEF InputFits
  <2> QED
    BY <2>5, <2>7 DEF Happened
<1> QED
  BY <1>1, <1>2, <1>3

(* A flush that fails is lost.                                             *)
LEMMA FailureHappened ==
  ASSUME Happened, FlushFails
  PROVE  Happened'
<1>1. /\ flush' = NoFlush /\ "lost" \in slips' /\ UNCHANGED <<page, trail, shown>>
  BY DEF FlushFails, browser
<1> QED
  BY <1>1 DEF Happened, Seen, FlushFits, Clean

(* A flow that starts forgets the events that wait.                        *)
LEMMA StartHappened ==
  ASSUME Bounded, Happened, StartFlow
  PROVE  Happened'
<1>1. /\ loop.at = "body" /\ loop' = AtRest /\ flush = NoFlush /\ pending' = <<>>
      /\ slips' = slips \union (IF pending # <<>> THEN {"lost"} ELSE {})
      /\ UNCHANGED <<page, arriving, flush, states, transitions, current, candidate, trail, shown,
                     flows, refs>>
  BY DEF StartFlow, InBody, Slip, browser, stored
<1>2. CASE pending = <<>>
  BY <1>1, <1>2, ListFacts, OthersHappened DEF AtRest
<1>3. CASE pending # <<>>
  <2>1. ~Clean'
    BY <1>1, <1>3 DEF Clean
  <2> QED
    BY <1>1, <2>1 DEF Happened, Seen, FlushFits
<1> QED
  BY <1>2, <1>3

(* What is going to be stored are steps of the segment.                    *)
LEMMA FinishHappened ==
  ASSUME Bounded, Happened, FinishSegment
  PROVE  Happened'
<1>1. PICK projected \in {Entries} \union WithoutOne(Entries) :
        \/ refs' = RefsOf(projected)
        \/ loop'.at = "idle"
  BY DEF FinishSegment, AtRest
<1>2. /\ loop.at = "body" /\ loop'.at # "commit"
      /\ UNCHANGED <<page, arriving, pending, flush, states, transitions, current, trail, shown,
                     flows>>
      /\ candidate' = candidate \/ candidate' = current
      /\ slips \subseteq slips' /\ segment.active
  BY DEF FinishSegment, InBody, AtRest, Slip, browser, Entries
<1>3. candidate' \in Nat /\ candidate <= candidate'
  BY <1>2, ListFacts
<1>4. Seen' /\ FlushFits'
  BY <1>2 DEF Happened, Seen, FlushFits
<1>5. ASSUME Clean' PROVE StepsHappened' /\ StoredHappened' /\ InputFits'
  <2>1. StepsHappened /\ StoredHappened /\ HeldFits /\ LastFits
    BY <1>2, <1>5, CleanBefore DEF Happened, InputFits
  <2>2. StepsHappened'
    BY <1>2, <1>3, <2>1, ListFacts, StepsStayShown
  <2>3. InputFits'
    <3>1. transitions # <<>> => LastTransition.source \in Nat
      BY ListFacts DEF LastTransition
    <3>2. HeldFits' /\ LastFits'
      BY <1>2, <1>3, <2>1, <3>1, ListFacts, HeldKept, LastKept
    <3> QED
      BY <1>2, <3>2 DEF InputFits
  <2>4. StoredHappened'
    <3>1. \A f \in flows' : PathHappened(f.steps, shown')
      BY <1>2, <2>1 DEF StoredHappened
    <3>2. ASSUME refs' = RefsOf(projected) PROVE PathHappened(refs', shown)
      <4> DEFINE n == Len(transitions)
                 b == segment.base
      <4>1. /\ IsSequence(transitions) /\ n \in Nat /\ b \in Nat /\ b <= n
            /\ \A k \in 1 .. n : transitions[k].source \in Nat
            /\ candidate \in Nat /\ segment.first \in Nat
        BY ListFacts DEF Segment
      <4>2. /\ Len(Entries) = n - b /\ IsSequence(Entries)
            /\ \A k \in 1 .. n - b : Entries[k] = transitions[b + k]
        <5>1. Entries = SubSeq(transitions, b + 1, n)
          BY <1>2 DEF Entries
        <5>2. PICK S : transitions \in Seq(S)
          BY <4>1 DEF IsSequence
        <5>3. Entries \in Seq(S)
          BY <4>1, <5>1, <5>2
        <5> QED
          BY <1>2, <4>1, <5>3, EntriesAre DEF IsSequence
      <4>3. /\ IsSequence(projected)
            /\ \A k \in 1 .. Len(projected) : \E l \in 1 .. Len(Entries) : projected[k] = Entries[l]
        BY <4>2, ProjectedAre
      <4>4. DOMAIN projected = 1 .. Len(projected)
        BY <4>3, SequenceLen
      <4>5. ASSUME NEW k \in DOMAIN projected
            PROVE  WasShown(projected[k], states, shown)
        <5>1. PICK l \in 1 .. n - b : projected[k] = transitions[b + l]
          BY <4>2, <4>3, <4>4
        <5>2. b + l \in 1 .. n /\ b + l \in b + 1 .. n
          BY <4>1
        <5>3. transitions[b + l].source >= segment.first /\ candidate <= segment.first
          BY <1>2, <5>2 DEF Bounded, ListsFit, SegmentFits
        <5>4. transitions[b + l].source >= candidate
          BY <4>1, <5>2, <5>3
        <5> QED
          BY <2>1, <5>1, <5>2, <5>4 DEF StepsHappened
      <4>6. DOMAIN refs' = DOMAIN projected /\ \A k \in DOMAIN projected : refs'[k] = Ref(projected[k])
        BY <3>2 DEF RefsOf
      <4> QED
        BY <4>5, <4>6 DEF PathHappened, Ref, WasShown
    <3>3. loop'.at = "store" => PathHappened(refs', shown')
      BY <1>1, <1>2, <3>2
    <3> QED
      BY <3>1, <3>3 DEF StoredHappened
  <2> QED
    BY <2>2, <2>3, <2>4
<1> QED
  BY <1>4, <1>5 DEF Happened

LEMMA StoreHappened ==
  ASSUME Bounded, Happened, StoreFlow
  PROVE  Happened'
<1>1. /\ loop.at = "store" /\ loop' = AtRest /\ slips \subseteq slips'
      /\ \/ flows' = flows \union {[checkpoint |-> segment.checkpoint, steps |-> refs]}
         \/ UNCHANGED flows
      /\ UNCHANGED <<page, arriving, pending, flush, states, transitions, current, candidate, trail,
                     shown>>
  BY DEF StoreFlow, browser, recording
<1>2. Seen' /\ FlushFits'
  BY <1>1 DEF Happened, Seen, FlushFits
<1>3. ASSUME Clean' PROVE StepsHappened' /\ StoredHappened' /\ InputFits'
  <2>1. StepsHappened /\ StoredHappened /\ HeldFits /\ LastFits
    BY <1>1, <1>3, CleanBefore DEF Happened, InputFits
  <2>2. StepsHappened'
    BY <1>1, <2>1, ListFacts, StepsStayShown
  <2>3. InputFits'
    <3>1. transitions # <<>> => LastTransition.source \in Nat
      BY ListFacts DEF LastTransition
    <3>2. HeldFits' /\ LastFits'
      BY <1>1, <2>1, <3>1, ListFacts, HeldKept, LastKept
    <3> QED
      BY <1>1, <3>2 DEF InputFits, AtRest
  <2>4. PathHappened(refs, shown)
    BY <1>1, <2>1 DEF StoredHappened
  <2>5. StoredHappened'
    BY <1>1, <2>1, <2>4 DEF StoredHappened, AtRest
  <2> QED
    BY <2>2, <2>3, <2>5
<1> QED
  BY <1>2, <1>3 DEF Happened

(* The recorder will look at the page on which the replayed path ended.    *)
LEMMA ActivateHappened ==
  ASSUME Bounded, Happened, Activate
  PROVE  Happened'
<1>1. /\ loop.at = "activate" /\ page' = plan.page /\ trail' = Replayed
      /\ shown' = shown \union {<<q, trail'.on, page'>> : q \in trail'.from}
      /\ slips \subseteq slips'
      /\ UNCHANGED <<pending, flush, states, transitions, current, candidate, segment, flows, refs>>
      /\ \/ loop' = [loop EXCEPT !.at = "commit"] /\ UNCHANGED plan
         \/ "halfway" \in slips'
  BY DEF Activate, recording, stored
<1>2. shown \subseteq shown' /\ \A q \in trail'.from : <<q, trail'.on, page'>> \in shown'
  BY <1>1
<1>3. Seen' /\ FlushFits'
  BY <1>1, <1>2 DEF Happened, Seen, FlushFits
<1>4. ASSUME Clean' PROVE StepsHappened' /\ StoredHappened' /\ InputFits'
  <2>1. StepsHappened /\ StoredHappened
    BY <1>1, <1>4, CleanBefore DEF Happened
  <2>2. loop' = [loop EXCEPT !.at = "commit"] /\ UNCHANGED plan
    BY <1>1, <1>4 DEF Clean
  <2>3. loop'.at = "commit"
    BY <2>2 DEF Bounded, TasksTyped
  <2>4. StepsHappened'
    BY <1>1, <1>2, <2>1, ListFacts, StepsStayShown
  <2>5. StoredHappened'
    BY <1>1, <1>2, <2>1, <2>3, StoredStaysShown
  <2>6. UNCHANGED Replayed
    BY <1>1, <2>2 DEF Replayed, Entries
  <2>7. ReplayFits'
    BY <1>1, <1>2, <2>2, <2>6 DEF ReplayFits
  <2> QED
    BY <2>3, <2>4, <2>5, <2>7 DEF InputFits
<1> QED
  BY <1>3, <1>4 DEF Happened

-----------------------------------------------------------------------------
(* A snapshot.                                                             *)

(* When nothing has gone wrong, the actions are what the events did.       *)
LEMMA SnapshotRecords ==
  ASSUME Bounded, Typed, FlushFits, TakeSnapshot, Clean'
  PROVE  \/ /\ flush.changed /\ flush.events = <<>>
            /\ transitions' = IF Merges(current)
                                THEN SetLast([LastTransition EXCEPT !.target = current'])
                                ELSE transitions
         \/ /\ flush.events # <<>>
            /\ \E acts \in Seq(Event) :
                 /\ acts # <<>> /\ Last(acts) = Last(flush.events)
                 /\ \A el : AllOn(acts, el) => AllOn(flush.events, el)
                 /\ transitions' = Extended(current, current', acts)
<1> DEFINE implicit == flush.changed /\ flush.events = <<>>
           actions == ActionsOf(flush.events, Found(states[current]))
           touched(acts) == IF implicit THEN Merges(current) ELSE acts # <<>>
<1>1. PICK acts :
        /\ acts \in {actions, <<>>}
        /\ acts # actions => "unresolved" \in slips'
        /\ Len(actions) < Len(Compact(flush.events)) => "unmapped" \in slips'
        /\ transitions' = IF ~touched(acts) THEN transitions
                          ELSE IF implicit
                                 THEN SetLast([LastTransition EXCEPT !.target = current'])
                                 ELSE Extended(current, current', acts)
  <2>1. PICK acts \in {actions, <<>>} :
          /\ Slip((IF acts # actions THEN {"unresolved"} ELSE {})
               \union (IF Len(actions) < Len(Compact(flush.events)) THEN {"unmapped"} ELSE {})
               \union (IF implicit /\ ~segment.active
                            /\ ~(touched(acts) /\ LastTransition.source >= candidate')
                         THEN {"unexplained"} ELSE {}))
          /\ transitions' = IF ~touched(acts) THEN transitions
                            ELSE IF implicit
                                   THEN SetLast([LastTransition EXCEPT !.target = current'])
                                   ELSE Extended(current, current', acts)
    BY Zenon DEF TakeSnapshot
  <2> HIDE DEF actions, touched, implicit
  <2> QED
    BY <2>1 DEF Slip
<1>2. acts = actions /\ ~(Len(actions) < Len(Compact(flush.events)))
  <2> HIDE DEF actions, touched, implicit
  <2> QED
    BY <1>1 DEF Clean
<1>3. flush # NoFlush /\ flush.events \in Seq(Event)
  BY Zenon DEF TakeSnapshot, Typed, EventsTyped
<1>4. CASE flush.events = <<>>
  <2>1. implicit
    BY <1>3, <1>4 DEF FlushFits
  <2> HIDE DEF actions
  <2> QED
    BY <1>1, <2>1
<1>5. CASE flush.events # <<>>
  <2>1. /\ acts \in Seq(Event) /\ acts # <<>> /\ Last(acts) = Last(flush.events)
        /\ \A el : AllOn(acts, el) => AllOn(flush.events, el)
    BY <1>2, <1>3, <1>5, EventsAreMapped
  <2> HIDE DEF actions
  <2> QED
    BY <1>1, <1>5, <2>1
<1> QED
  BY <1>4, <1>5

(* What there is to say of a last step.                                    *)
LastGood(u) ==
  u.source >= candidate' =>
    /\ <<states'[u.source], Last(u.acts), states'[current']>> \in shown
    /\ arriving = <<>> => trail.on = Last(u.acts)
    /\ AllOn(arriving, Last(u.acts).on) =>
         (states'[u.source] \in trail.from /\ trail.on.on = Last(u.acts).on)

LEMMA SnapshotMoves ==
  ASSUME Bounded, TakeSnapshot
  PROVE  /\ flush # NoFlush /\ flush' = NoFlush
         /\ UNCHANGED <<page, arriving, pending, trail, shown, flows, refs>>
         /\ candidate' \in {candidate, current}
         /\ flush.changed \in BOOLEAN
         /\ flush.changed => (current' = Len(states) + 1 /\ states'[current'] = page)
         /\ ~flush.changed => (current' = current /\ states'[current'] = states[current])
         /\ \A i \in 1 .. Len(states) : states'[i] = states[i]
<1>1. /\ flush # NoFlush /\ flush' = NoFlush
      /\ UNCHANGED <<page, arriving, pending, trail, shown, flows, refs>>
  BY Zenon DEF TakeSnapshot, browser, stored
<1>2. candidate' \in {candidate, current}
  BY Zenon DEF TakeSnapshot
<1>3. flush.changed \in BOOLEAN /\ page \in Pages /\ states \in Seq(Pages)
  BY ListFacts DEF Bounded, TasksTyped
<1>4. /\ states' = IF flush.changed THEN Append(states, page) ELSE states
      /\ current' = IF flush.changed THEN Len(states') ELSE current
  BY Zenon DEF TakeSnapshot
<1>5. CASE flush.changed
  <2>1. states' = Append(states, page) /\ current' = Len(states')
    BY <1>4, <1>5
  <2>2. /\ Len(Append(states, page)) = Len(states) + 1
        /\ Append(states, page)[Len(states) + 1] = page
        /\ \A i \in 1 .. Len(states) : Append(states, page)[i] = states[i]
    BY <1>3
  <2> QED
    BY <1>1, <1>2, <1>3, <1>5, <2>1, <2>2
<1>6. CASE ~flush.changed
  BY <1>1, <1>2, <1>3, <1>4, <1>6
<1> QED
  BY <1>3, <1>5, <1>6

(* The other steps keep their pages.                                       *)
LEMMA LastIsGood ==
  ASSUME Bounded, StepsHappened, TakeSnapshot,
         NEW u, u.target = current', LastGood(u),
         \/ transitions # <<>> /\ transitions' = [transitions EXCEPT ![Len(transitions)] = u]
         \/ transitions' = Append(transitions, u)
  PROVE  StepsHappened' /\ (pending = <<>> => LastFits')
<1> DEFINE n == Len(transitions)
           m == Len(transitions')
<1>1. /\ IsSequence(transitions) /\ n \in Nat /\ current \in Nat /\ candidate \in Nat
      /\ candidate <= current /\ current <= Len(states) /\ 1 <= candidate /\ Len(states) \in Nat
      /\ \A k \in 1 .. n : transitions[k].source \in Nat /\ transitions[k].target \in Nat
  BY ListFacts
<1>2. /\ m \in Nat \ {0} /\ transitions'[m] = u
      /\ \A k \in 1 .. m : k # m => k \in 1 .. n /\ transitions'[k] = transitions[k]
  <2>1. CASE transitions # <<>> /\ transitions' = [transitions EXCEPT ![Len(transitions)] = u]
    BY <1>1, <2>1, LastReplaced
  <2>2. CASE transitions' = Append(transitions, u)
    BY <1>1, <2>2, Appended
  <2> QED
    BY <2>1, <2>2
<1>3. /\ UNCHANGED <<arriving, trail, shown>> /\ candidate' \in {candidate, current}
      /\ \A i \in 1 .. Len(states) : states'[i] = states[i]
      /\ flush' = NoFlush /\ UNCHANGED pending
  BY SnapshotMoves
<1>4. ASSUME NEW k \in 1 .. n, transitions[k].source >= candidate'
      PROVE  WasShown(transitions[k], states', shown)
  <2>1. transitions[k].source >= candidate
    BY <1>1, <1>3, <1>4
  <2>2. transitions[k].source \in 1 .. Len(states) /\ transitions[k].target \in 1 .. Len(states)
    <3>1. transitions[k].source <= transitions[k].target /\ transitions[k].target <= current
      BY <2>1 DEF Bounded, ListsFit, InOrder
    <3> QED
      BY <1>1, <2>1, <3>1
  <2>3. WasShown(transitions[k], states, shown)
    BY <2>1 DEF StepsHappened
  <2> QED
    BY <1>3, <2>2, <2>3 DEF WasShown
<1>5. u.source >= candidate' => WasShown(u, states', shown)
  BY DEF LastGood, WasShown
<1>6. StepsHappened'
  <2> SUFFICES ASSUME NEW k \in 1 .. m, transitions'[k].source >= candidate'
      PROVE  WasShown(transitions'[k], states', shown')
    BY DEF StepsHappened
  <2> QED
    BY <1>2, <1>3, <1>4, <1>5
<1>7. ASSUME pending = <<>> PROVE LastFits'
  <2> SUFFICES ASSUME LeadsHere' PROVE LastFits'
    BY DEF LastFits
  <2>1. LastTransition' = u
    BY <1>2 DEF LastTransition
  <2>2. u.source >= candidate'
    BY <2>1 DEF LeadsHere
  <2>3. Held' = <<>>
    BY <1>3, <1>7 DEF Held
  <2> QED
    BY <1>3, <2>1, <2>2, <2>3 DEF LastFits, LastGood
<1> QED
  BY <1>6, <1>7

(* Typing goes on in the same field: its events were caused on the page    *)
(* where the last step starts, or on a page it led through.                *)
LEMMA SnapshotHappened ==
  ASSUME Bounded, Typed, Happened, TakeSnapshot
  PROVE  Happened'
<1> DEFINE n == Len(transitions)
           events == flush.events
           last == Last(LastTransition.acts)
           start == states[LastTransition.source]
<1>1. /\ flush # NoFlush /\ flush' = NoFlush
      /\ UNCHANGED <<page, arriving, pending, trail, shown, flows, refs>>
      /\ candidate' \in {candidate, current}
      /\ flush.changed \in BOOLEAN
      /\ flush.changed => (current' = Len(states) + 1 /\ states'[current'] = page)
      /\ ~flush.changed => (current' = current /\ states'[current'] = states[current])
      /\ \A i \in 1 .. Len(states) : states'[i] = states[i]
  BY SnapshotMoves
<1>2. /\ IsSequence(transitions) /\ n \in Nat /\ current \in Nat /\ candidate \in Nat
      /\ candidate <= current /\ current <= Len(states) /\ 1 <= candidate /\ Len(states) \in Nat
      /\ \A k \in 1 .. n : transitions[k].source \in Nat /\ transitions[k].target \in Nat
      /\ (transitions # <<>> => n # 0)
  BY ListFacts
<1>3. Seen' /\ FlushFits' /\ pending = <<>>
  BY <1>1 DEF Happened, Seen, FlushFits
<1>4. loop.at # "commit" /\ loop'.at # "commit" /\ (loop'.at = "store" => loop.at = "store")
  <2>1. loop.at # "commit"
    BY <1>1 DEF Bounded, PlanFits
  <2>2. \/ UNCHANGED loop \/ loop' = AtRest \/ loop' = [loop EXCEPT !.at = "body"]
    <3>1. \E who, steps : Flushed(who, steps)
      BY Zenon DEF TakeSnapshot
    <3> QED
      BY <3>1 DEF Flushed
  <2> QED
    BY <2>1, <2>2 DEF AtRest, Bounded, TasksTyped
<1>5. ASSUME Clean' PROVE StepsHappened' /\ StoredHappened' /\ InputFits'
  <2>1. StepsHappened /\ StoredHappened /\ HeldFits /\ LastFits
    <3>1. slips \subseteq slips'
      BY Zenon DEF TakeSnapshot, Slip
    <3> QED
      BY <1>4, <1>5, <3>1, CleanBefore DEF Happened, InputFits
  <2>2. Held = events /\ Held' = <<>> /\ (~flush.changed => CameBack)
    BY <1>1, <1>3 DEF Held, CameBack
  <2>3. flush.changed => arriving = <<>>
    BY <1>1, <2>1 DEF HeldFits
  <2>4. HeldFits'
    BY <1>1, <2>1, <2>2, <2>3 DEF HeldFits
  <2>5. StoredHappened'
    BY <1>1, <1>4, <2>1, StoredStaysShown
  <2>6. LeadsHere =>
          /\ LastTransition.source \in 1 .. Len(states)
          /\ (events = <<>> /\ arriving = <<>>) => trail.on = last
          /\ (AllOn(events, last.on) /\ AllOn(arriving, last.on)) =>
               (start \in trail.from /\ trail.on.on = last.on)
          /\ (events # <<>> /\ AllOn(events, last.on) /\ ~flush.changed) =>
               <<start, Last(events), states[current]>> \in shown
    <3> SUFFICES ASSUME LeadsHere
        PROVE  /\ LastTransition.source \in 1 .. Len(states)
               /\ (events = <<>> /\ arriving = <<>>) => trail.on = last
               /\ (AllOn(events, last.on) /\ AllOn(arriving, last.on)) =>
                    (start \in trail.from /\ trail.on.on = last.on)
               /\ (events # <<>> /\ AllOn(events, last.on) /\ ~flush.changed) =>
                    <<start, Last(events), states[current]>> \in shown
      OBVIOUS
    <3>1. /\ (Held = <<>> /\ arriving = <<>>) => trail.on = last
          /\ (AllOn(Held, last.on) /\ AllOn(arriving, last.on)) =>
               (start \in trail.from /\ trail.on.on = last.on)
          /\ (Held # <<>> /\ AllOn(Held, last.on) /\ CameBack) =>
               <<start, Last(Held), states[current]>> \in shown
      BY <2>1 DEF LastFits
    <3>2. LastTransition.source \in 1 .. Len(states)
      <4>1. /\ n \in 1 .. n /\ LastTransition = transitions[n]
            /\ LastTransition.source >= candidate
        BY <1>2 DEF LeadsHere, LastTransition
      <4>2. transitions[n].source <= transitions[n].target /\ transitions[n].target <= current
        BY <4>1 DEF Bounded, ListsFit, InOrder
      <4> QED
        BY <1>2, <4>1, <4>2
    <3> HIDE DEF last, start
    <3> QED
      BY <2>2, <3>1, <3>2
  <2>7. ASSUME NEW q \in trail.from, flush.changed PROVE <<q, trail.on, states'[current']>> \in shown
    BY <1>1, <2>7 DEF Happened, Seen
  <2>8. events # <<>> => states[current] \in trail.from
    BY <2>1, <2>2 DEF HeldFits
  <2>9. events # <<>> /\ arriving = <<>> => trail.on = Last(events)
    BY <2>1, <2>2 DEF HeldFits
  <2>10. arriving # <<>> => trail.on = arriving[1] /\ Len(arriving) \in Nat /\ 1 <= Len(arriving)
    <3>1. arriving \in Seq(Event)
      BY DEF Typed, EventsTyped
    <3>2. IsSequence(arriving)
      BY <3>1 DEF IsSequence
    <3>3. arriving # <<>> => Len(arriving) \in Nat /\ Len(arriving) # 0
      BY <3>2, SequenceLen
    <3>4. \A i \in Nat : i # 0 => 1 <= i
      OBVIOUS
    <3> QED
      BY <2>1, <3>3, <3>4 DEF HeldFits
  <2>11. ASSUME arriving # <<>>, NEW el, AllOn(arriving, el) PROVE trail.on.on = el
    <3>1. 1 \in 1 .. Len(arriving)
      BY <2>10, <2>11
    <3> QED
      BY <2>10, <2>11, <3>1 DEF AllOn
  <2>12. AllOn(<<>>, last.on)
    BY DEF AllOn
  (* The last step leads on.                                               *)
  <2>13. ASSUME NEW u, u.target = current', u.source = LastTransition.source, LeadsHere => LastGood(u),
                transitions # <<>>, LastTransition.target = current,
                transitions' = [transitions EXCEPT ![Len(transitions)] = u]
         PROVE  StepsHappened' /\ LastFits'
    <3>1. LastGood(u)
      <4>1. u.source >= candidate' => u.source >= candidate
        <5>1. u.source \in Nat
          BY <1>2, <2>13 DEF LastTransition
        <5> QED
          BY <1>1, <1>2, <5>1
      <4>2. u.source >= candidate' => LeadsHere
        BY <2>13, <4>1 DEF LeadsHere
      <4> QED
        BY <2>13, <4>2 DEF LastGood
    <3> QED
      BY <1>3, <2>1, <2>13, <3>1, LastIsGood
  <2>14. ASSUME flush.changed, events = <<>>,
                transitions' = IF Merges(current)
                                 THEN SetLast([LastTransition EXCEPT !.target = current'])
                                 ELSE transitions
         PROVE  StepsHappened' /\ LastFits'
    <3>1. CASE Merges(current)
      <4> DEFINE u == [LastTransition EXCEPT !.target = current']
      <4>1. transitions # <<>> /\ LastTransition.target = current
        BY <3>1 DEF Merges
      <4>2. /\ u.target = current' /\ u.source = LastTransition.source
            /\ u.acts = LastTransition.acts
        <5>1. IsTransition(LastTransition)
          BY <1>2, <4>1, ListFacts DEF LastTransition
        <5> QED
          BY <5>1 DEF IsTransition
      <4>3. transitions' = [transitions EXCEPT ![Len(transitions)] = u]
        BY <2>14, <3>1 DEF SetLast
      <4> HIDE DEF u
      <4>4. LeadsHere => LastGood(u)
        <5> SUFFICES ASSUME LeadsHere PROVE LastGood(u)
          OBVIOUS
        <5>1. Last(u.acts) = last
          BY <4>2
        <5>2. arriving = <<>>
          BY <2>3, <2>14
        <5>3. trail.on = last /\ start \in trail.from
          BY <2>6, <2>12, <2>14, <5>2
        <5>4. states'[u.source] = start
          BY <1>1, <2>6, <4>2
        <5>5. <<states'[u.source], Last(u.acts), states'[current']>> \in shown
          BY <2>7, <2>14, <5>1, <5>3, <5>4
        <5> QED
          BY <5>1, <5>3, <5>4, <5>5 DEF LastGood
      <4> QED
        BY <2>13, <4>1, <4>2, <4>3, <4>4
    <3>2. CASE ~Merges(current)
      <4>1. UNCHANGED transitions
        BY <2>14, <3>2
      <4>2. StepsHappened'
        <5> SUFFICES ASSUME NEW k \in 1 .. n, transitions[k].source >= candidate'
            PROVE  WasShown(transitions[k], states', shown')
          BY <4>1 DEF StepsHappened
        <5>1. transitions[k].source >= candidate
          BY <1>1, <1>2
        <5>2. transitions[k].source <= transitions[k].target /\ transitions[k].target <= current
          BY <5>1 DEF Bounded, ListsFit, InOrder
        <5>3. transitions[k].source \in 1 .. Len(states) /\ transitions[k].target \in 1 .. Len(states)
          BY <1>2, <5>1, <5>2
        <5>4. WasShown(transitions[k], states, shown)
          BY <2>1, <5>1 DEF StepsHappened
        <5> QED
          BY <1>1, <5>3, <5>4 DEF WasShown
      <4>3. LastFits'
        <5> SUFFICES ASSUME LeadsHere' PROVE FALSE
          BY DEF LastFits
        <5>1. /\ n \in 1 .. n /\ transitions[n].target = current' /\ transitions[n].source >= candidate'
          BY <1>2, <4>1 DEF LeadsHere, LastTransition
        <5>2. transitions[n].source >= candidate
          BY <1>1, <1>2, <5>1
        <5>3. transitions[n].target <= current
          BY <5>1, <5>2 DEF Bounded, ListsFit, InOrder
        <5> QED
          BY <1>1, <1>2, <2>14, <5>1, <5>3
      <4> QED
        BY <4>2, <4>3
    <3> QED
      BY <3>1, <3>2
  <2>15. ASSUME events # <<>>, NEW acts \in Seq(Event), acts # <<>>, Last(acts) = Last(events),
                \A el : AllOn(acts, el) => AllOn(events, el),
                transitions' = Extended(current, current', acts)
         PROVE  StepsHappened' /\ LastFits'
    <3>1. CASE Coalesces(current, acts)
      <4> DEFINE u == [LastTransition EXCEPT !.target = current', !.acts = acts]
      <4>1. PICK el \in Elements :
              /\ TypesOnlyInto(acts, el)
              /\ TypesOnlyInto(LastTransition.acts, el) \/ IsFocusClick(LastTransition.acts, el)
        BY <3>1 DEF Coalesces
      <4>2. transitions # <<>> /\ LastTransition.target = current
        BY <3>1, ListFacts DEF Coalesces, LastIsActive
      <4>3. /\ u.target = current' /\ u.source = LastTransition.source /\ u.acts = acts
        <5>1. LastTransition \in Transition
          <6>1. n \in 1 .. n
            BY <1>2, <4>2
          <6>2. transitions[n] \in Transition
            BY <6>1 DEF Typed, StepsTyped
          <6> QED
            BY <6>2 DEF LastTransition
        <5> QED
          BY <5>1 DEF Transition
      <4>4. transitions' = [transitions EXCEPT ![Len(transitions)] = u]
        BY <2>15, <3>1 DEF Extended, SetLast
      <4>5. last.on = el /\ AllOn(acts, el) /\ Last(acts).on = el
        <5>1. LastTransition.acts \in Seq(Event) /\ LastTransition.acts # <<>>
          <6>1. n \in 1 .. n
            BY <1>2, <4>2
          <6>2. transitions[n] \in Transition /\ transitions[n].acts # <<>>
            BY <6>1 DEF Typed, StepsTyped
          <6> QED
            BY <6>2 DEF LastTransition, Transition
        <5>2. ASSUME NEW s \in Seq(Event), s # <<>>, TypesOnlyInto(s, el) \/ IsFocusClick(s, el)
              PROVE  AllOn(s, el) /\ Last(s).on = el
          <6>1. IsSequence(s)
            BY DEF IsSequence
          <6>2. Len(s) \in Nat /\ Len(s) # 0 /\ DOMAIN s = 1 .. Len(s)
            BY <5>2, <6>1, SequenceLen
          <6>3. Len(s) \in 1 .. Len(s)
            BY <6>2
          <6>4. AllOn(s, el)
            BY <5>2, <6>2 DEF TypesOnlyInto, IsFocusClick, AllOn
          <6> QED
            BY <6>3, <6>4 DEF AllOn, Last
        <5> QED
          BY <2>15, <4>1, <5>1, <5>2
      <4> HIDE DEF u
      <4>6. LeadsHere => LastGood(u)
        <5> SUFFICES ASSUME LeadsHere PROVE LastGood(u)
          OBVIOUS
        <5>1. Last(u.acts) = Last(events) /\ Last(u.acts).on = last.on
          BY <2>15, <4>3, <4>5
        <5>2. AllOn(events, last.on)
          BY <2>15, <4>5
        <5>3. states'[u.source] = start
          BY <1>1, <2>6, <4>3
        <5>4. AllOn(arriving, last.on) => (start \in trail.from /\ trail.on.on = last.on)
          BY <2>6, <5>2
        <5>5. arriving = <<>> => trail.on = Last(u.acts)
          BY <2>9, <2>15, <5>1
        <5>6. <<states'[u.source], Last(u.acts), states'[current']>> \in shown
          <6>1. CASE flush.changed
            <7>1. arriving = <<>>
              BY <2>3, <6>1
            <7>2. start \in trail.from
              BY <2>12, <5>4, <7>1
            <7> QED
              BY <2>7, <5>3, <5>5, <6>1, <7>1, <7>2
          <6>2. CASE ~flush.changed
            BY <1>1, <2>6, <2>15, <5>1, <5>2, <5>3, <6>2
          <6> QED
            BY <6>1, <6>2
        <5> HIDE DEF last, start
        <5> QED
          BY <5>1, <5>3, <5>4, <5>5, <5>6 DEF LastGood
      <4> QED
        BY <2>13, <4>2, <4>3, <4>4, <4>6
    <3>2. CASE ~Coalesces(current, acts)
      <4> DEFINE u == [id |-> made + 1, source |-> current, target |-> current', acts |-> acts]
      <4>1. u.target = current' /\ u.source = current /\ u.acts = acts
        OBVIOUS
      <4>2. transitions' = Append(transitions, u)
        BY <2>15, <3>2 DEF Extended
      <4> HIDE DEF u
      <4>3. LastGood(u)
        <5>1. states'[u.source] = states[current] /\ Last(u.acts) = Last(events)
          BY <1>1, <1>2, <2>15, <4>1
        <5>2. arriving = <<>> => trail.on = Last(u.acts)
          BY <2>9, <2>15, <5>1
        <5>3. states[current] \in trail.from
          BY <2>8, <2>15
        <5>4. AllOn(arriving, Last(u.acts).on) => trail.on.on = Last(u.acts).on
          BY <2>11, <5>2
        <5>5. <<states'[u.source], Last(u.acts), states'[current']>> \in shown
          <6>1. CASE flush.changed
            BY <2>3, <2>7, <5>1, <5>2, <5>3, <6>1
          <6>2. CASE ~flush.changed
            BY <1>1, <2>1, <2>2, <2>15, <5>1, <6>2 DEF HeldFits
          <6> QED
            BY <6>1, <6>2
        <5> QED
          BY <5>1, <5>2, <5>3, <5>4, <5>5 DEF LastGood
      <4> QED
        BY <1>3, <2>1, <4>1, <4>2, <4>3, LastIsGood
    <3> QED
      BY <3>1, <3>2
  <2>16. StepsHappened' /\ LastFits'
    <3>1. FlushFits
      BY DEF Happened
    <3>2. CASE events # <<>>
      BY <1>5, <2>15, <3>1, <3>2, SnapshotRecords
    <3>3. CASE events = <<>>
      BY <1>5, <2>14, <3>1, <3>3, SnapshotRecords
    <3> QED
      BY <3>2, <3>3
  <2> QED
    BY <1>4, <2>4, <2>5, <2>16 DEF InputFits
<1> QED
  BY <1>3, <1>5 DEF Happened

-----------------------------------------------------------------------------
(* A rewind.                                                               *)

(* What is kept lies before the state rewound to, except that the last     *)
(* step leads to where the replay ended.                                   *)
LEMMA RewindKeeps ==
  ASSUME Bounded, CommitRewind
  PROVE  LET cut == segment.base + plan.keep IN
         /\ cut \in 0 .. Len(transitions) /\ Len(transitions') = cut
         /\ plan.keep \in Nat
         /\ \A k \in 1 .. cut : /\ transitions'[k].source = transitions[k].source
                                /\ transitions'[k].acts = transitions[k].acts
         /\ \A k \in 1 .. cut : plan.keep = 0 \/ k # cut => transitions'[k] = transitions[k]
         /\ plan.keep > 0 => /\ cut \in 1 .. Len(transitions)
                             /\ transitions'[cut].target = current'
                             /\ transitions[cut].target = plan.target
                             /\ Entries[plan.keep] = transitions[cut]
         /\ plan.keep = 0 => \A k \in 1 .. cut : transitions[k].source < candidate
         /\ plan.target \in 1 .. Len(states)
         /\ states'[current'] = plan.page
         /\ \A i \in 1 .. plan.target : i # current' => states'[i] = states[i]
         /\ plan.target <= current'
         /\ current' = plan.target => plan.page = states[plan.target]
         /\ UNCHANGED candidate
<1> DEFINE cut == segment.base + plan.keep
           kept == SubSeq(transitions, 1, cut)
           n == Len(transitions)
           matched == plan.page = states[plan.target]
           rest == IF matched THEN UpTo(plan.target) ELSE Append(UpTo(plan.target), plan.page)
<1>1. /\ IsSequence(transitions) /\ n \in Nat /\ segment.base \in Nat /\ segment.base <= n
      /\ segment.active /\ plan.keep \in 0 .. n - segment.base
      /\ states \in Seq(Pages) /\ Len(states) \in Nat /\ plan.page \in Pages
      /\ plan.target = IF plan.keep = 0 THEN segment.first ELSE transitions[cut].target
      /\ current \in Nat /\ candidate \in Nat /\ segment.first \in Nat
      /\ 1 <= candidate /\ current <= Len(states)
      /\ \A k \in 1 .. n : /\ IsTransition(transitions[k])
                           /\ transitions[k].source \in Nat /\ transitions[k].target \in Nat
  BY ListFacts DEF CommitRewind, Bounded, PlanFits, Segment
<1>2. /\ candidate <= segment.first /\ segment.first <= current
      /\ \A k \in 1 .. segment.base : transitions[k].source < candidate
      /\ \A k \in segment.base + 1 .. n : transitions[k].source >= segment.first
  BY <1>1 DEF Bounded, ListsFit, SegmentFits
<1>3. /\ cut \in 0 .. n /\ plan.keep \in Nat
      /\ plan.keep > 0 => cut \in 1 .. n /\ cut \in segment.base + 1 .. n
      /\ plan.keep = 0 => cut = segment.base
  BY <1>1
<1>4. /\ transitions' = IF plan.keep > 0 THEN [kept EXCEPT ![cut].target = current'] ELSE kept
      /\ states' = rest /\ current' = Len(rest) /\ UNCHANGED candidate
  BY DEF CommitRewind
<1>5. /\ IsSequence(kept) /\ Len(kept) = cut /\ \A k \in 1 .. cut : kept[k] = transitions[k]
  <2> HIDE DEF cut
  <2> QED
    BY <1>1, <1>3, CutShort
<1>6. plan.target \in 1 .. Len(states)
  <2>1. CASE plan.keep = 0
    BY <1>1, <1>2, <2>1
  <2>2. CASE plan.keep > 0
    <3>1. cut \in 1 .. n /\ transitions[cut].source >= candidate
      BY <1>1, <1>2, <1>3, <2>2
    <3>2. transitions[cut].source <= transitions[cut].target /\ transitions[cut].target <= current
      BY <3>1 DEF Bounded, ListsFit, InOrder
    <3> HIDE DEF cut
    <3> QED
      BY <1>1, <2>2, <3>1, <3>2
  <2> QED
    BY <1>3, <2>1, <2>2
<1>7. /\ Len(transitions') = cut
      /\ \A k \in 1 .. cut : plan.keep = 0 \/ k # cut => transitions'[k] = transitions[k]
      /\ plan.keep > 0 => /\ transitions'[cut].target = current'
                          /\ transitions'[cut].source = transitions[cut].source
                          /\ transitions'[cut].acts = transitions[cut].acts
  <2>1. CASE plan.keep = 0
    BY <1>3, <1>4, <1>5, <2>1
  <2>2. CASE plan.keep > 0
    <3> DEFINE u == [kept[cut] EXCEPT !.target = current']
    <3>1. cut \in 1 .. n /\ cut = Len(kept) /\ kept # <<>> /\ kept[cut] = transitions[cut]
      BY <1>3, <1>5, <2>2
    <3>2. transitions' = [kept EXCEPT ![Len(kept)] = u]
      <4>1. transitions' = [kept EXCEPT ![cut].target = current']
        BY <1>4, <2>2
      <4> HIDE DEF cut, kept
      <4> QED
        BY <3>1, <4>1, Zenon
    <3>3. IsTransition(kept[cut])
      BY <1>1, <3>1
    <3>4. u.target = current' /\ u.source = kept[cut].source /\ u.acts = kept[cut].acts
      BY <3>3 DEF IsTransition
    <3> HIDE DEF u, kept, cut
    <3>5. /\ Len(transitions') = Len(kept) /\ transitions'[Len(kept)] = u
          /\ \A k \in 1 .. Len(kept) : k # Len(kept) => transitions'[k] = kept[k]
      BY <1>5, <3>1, <3>2, LastReplaced
    <3> QED
      BY <1>5, <2>2, <3>1, <3>4, <3>5
  <2> QED
    BY <1>3, <2>1, <2>2
<1>8. plan.keep > 0 => Entries[plan.keep] = transitions[cut]
  <2>1. /\ DOMAIN Entries = 1 .. n - segment.base
        /\ \A k \in DOMAIN Entries : Entries[k] = transitions[segment.base + k]
    BY <1>1, EntriesAre
  <2> QED
    BY <1>1, <2>1
<1>9. /\ states'[current'] = plan.page
      /\ \A i \in 1 .. plan.target : i # current' => states'[i] = states[i]
      /\ plan.target <= current' /\ (current' = plan.target => matched)
  <2> DEFINE upto == UpTo(plan.target)
  <2>1. /\ upto \in Seq(Pages) /\ Len(upto) = plan.target
        /\ \A i \in 1 .. plan.target : upto[i] = states[i]
    <3>1. upto \in Seq(Pages)
      BY <1>1, <1>6 DEF UpTo
    <3>2. IsSequence(states) /\ plan.target \in 0 .. Len(states)
      BY <1>1, <1>6 DEF IsSequence
    <3> QED
      BY <3>1, <3>2, CutShort DEF UpTo
  <2>2. rest = IF matched THEN upto ELSE Append(upto, plan.page)
    OBVIOUS
  <2> HIDE DEF upto
  <2>3. CASE matched
    <3>1. states' = upto /\ current' = plan.target
      BY <1>4, <2>1, <2>2, <2>3
    <3> QED
      BY <1>6, <2>1, <2>3, <3>1
  <2>4. CASE ~matched
    <3>a. states' = Append(upto, plan.page) /\ current' = Len(Append(upto, plan.page))
      BY <1>4, <2>2, <2>4
    <3>b. Len(Append(upto, plan.page)) = Len(upto) + 1
      BY <2>1
    <3>1. states' = Append(upto, plan.page) /\ current' = plan.target + 1
      BY <2>1, <3>a, <3>b
    <3>2. /\ Append(upto, plan.page)[plan.target + 1] = plan.page
          /\ \A i \in 1 .. plan.target : Append(upto, plan.page)[i] = upto[i]
      BY <1>1, <1>6, <2>1
    <3> QED
      BY <1>6, <2>1, <3>1, <3>2
  <2> QED
    BY <2>3, <2>4
<1>10. \A k \in 1 .. cut : /\ transitions'[k].source = transitions[k].source
                           /\ transitions'[k].acts = transitions[k].acts
  <2> HIDE DEF cut
  <2> QED
    BY <1>3, <1>7
<1>11. plan.keep > 0 => transitions[cut].target = plan.target
  BY <1>1, <1>3
<1>12. plan.keep = 0 => \A k \in 1 .. cut : transitions[k].source < candidate
  BY <1>2, <1>3
<1> HIDE DEF cut
<1> QED
  BY <1>3, <1>4, <1>6, <1>7, <1>8, <1>9, <1>10, <1>11, <1>12 DEF cut

LEMMA RewindHappened ==
  ASSUME Bounded, Happened, CommitRewind
  PROVE  Happened'
<1> DEFINE cut == segment.base + plan.keep
<1>1. /\ loop.at = "commit" /\ flush = NoFlush /\ flush' = flush /\ pending' = <<>>
      /\ loop' = AtRest
      /\ slips' = slips \union (IF arriving # <<>> THEN {"late"} ELSE {})
      /\ UNCHANGED <<page, arriving, trail, shown, flows, refs>>
  BY DEF CommitRewind, Slip, GiveUp, browser, stored
<1>2. Seen' /\ FlushFits'
  BY <1>1 DEF Happened, Seen, FlushFits
<1>3. /\ cut \in 0 .. Len(transitions) /\ Len(transitions') = cut /\ plan.keep \in Nat
      /\ \A k \in 1 .. cut : /\ transitions'[k].source = transitions[k].source
                             /\ transitions'[k].acts = transitions[k].acts
      /\ \A k \in 1 .. cut : plan.keep = 0 \/ k # cut => transitions'[k] = transitions[k]
      /\ plan.keep > 0 => /\ cut \in 1 .. Len(transitions)
                          /\ transitions'[cut].target = current'
                          /\ transitions[cut].target = plan.target
                          /\ Entries[plan.keep] = transitions[cut]
      /\ plan.keep = 0 => \A k \in 1 .. cut : transitions[k].source < candidate
      /\ plan.target \in 1 .. Len(states)
      /\ states'[current'] = plan.page
      /\ \A i \in 1 .. plan.target : i # current' => states'[i] = states[i]
      /\ plan.target <= current'
      /\ current' = plan.target => plan.page = states[plan.target]
      /\ UNCHANGED candidate
  BY RewindKeeps
<1>4. /\ Len(transitions) \in Nat /\ candidate \in Nat /\ current \in Nat /\ 1 <= candidate
      /\ \A k \in 1 .. Len(transitions) :
           transitions[k].source \in Nat /\ transitions[k].target \in Nat
  BY ListFacts
<1>5. current' \in Nat
  BY RewindFits, ListFacts DEF ListsFit, ListsTyped
<1> HIDE DEF cut
(* The pages up to the state rewound to stay the same.                     *)
<1>6. ASSUME NEW i \in 1 .. plan.target PROVE states'[i] = states[i]
  BY <1>3, <1>5
<1>7. ASSUME Clean' PROVE StepsHappened' /\ StoredHappened' /\ InputFits'
  <2>1. StepsHappened /\ StoredHappened /\ ReplayFits
    <3>1. slips \subseteq slips'
      BY <1>1
    <3> QED
      BY <1>1, <1>7, <3>1, CleanBefore DEF Happened, InputFits
  <2>2. arriving = <<>>
    BY <1>1, <1>7 DEF Clean
  <2>3. Held' = <<>>
    BY <1>1 DEF Held
  <2>4. HeldFits'
    BY <1>1, <2>2, <2>3 DEF HeldFits
  <2>5. StoredHappened'
    BY <1>1, <2>1 DEF StoredHappened, AtRest
  <2>6. ASSUME NEW k \in 1 .. cut, transitions[k].source >= candidate
        PROVE  /\ plan.keep > 0 /\ transitions[k].source \in 1 .. plan.target
               /\ k # cut => transitions[k].target \in 1 .. plan.target
    <3>1. plan.keep > 0 /\ k \in 1 .. Len(transitions) /\ cut \in 1 .. Len(transitions)
      BY <1>3, <1>4, <2>6
    <3>2. /\ transitions[k].source <= transitions[k].target
          /\ \A l \in k + 1 .. Len(transitions) : transitions[k].target <= transitions[l].source
      BY <2>6, <3>1 DEF Bounded, ListsFit, InOrder
    <3>3. CASE k = cut
      BY <1>3, <1>4, <2>6, <3>1, <3>2, <3>3
    <3>4. CASE k # cut
      <4>1. cut \in k + 1 .. Len(transitions)
        BY <1>4, <3>1, <3>4
      <4>2. transitions[k].target <= transitions[cut].source
        BY <3>2, <4>1
      <4>3. transitions[cut].source >= candidate
        BY <1>4, <2>6, <3>1, <3>2, <4>2
      <4>4. transitions[cut].source <= transitions[cut].target
        BY <3>1, <4>3 DEF Bounded, ListsFit, InOrder
      <4> QED
        BY <1>3, <1>4, <2>6, <3>1, <3>2, <4>2, <4>4
    <3> QED
      BY <3>3, <3>4
  (* The last kept step leads to where the replay ended.                   *)
  <2>7. ASSUME plan.keep > 0, transitions[cut].source >= candidate
        PROVE  /\ trail.on = Last(transitions'[cut].acts)
               /\ states'[transitions'[cut].source] \in trail.from
               /\ WasShown(transitions'[cut], states', shown)
    <3>1. cut \in 1 .. cut
      BY <1>3, <2>7
    <3>2. transitions[cut].source \in 1 .. plan.target
      BY <2>6, <2>7, <3>1
    <3>3. /\ trail.on = Last(transitions[cut].acts)
          /\ trail.from = {states[transitions[cut].source]}
      <4>1. trail = [on |-> Last(transitions[cut].acts), from |-> {states[transitions[cut].source]}]
        <5>1. trail = Replayed /\ plan.keep # 0 /\ Entries[plan.keep] = transitions[cut]
          BY <1>3, <2>1, <2>7 DEF ReplayFits
        <5> QED
          BY <5>1, Zenon DEF Replayed, Last
      <4> QED
        BY <4>1
    <3>4. <<states[transitions[cut].source], trail.on, plan.page>> \in shown
      BY <2>1, <3>3 DEF ReplayFits
    <3>5. states'[transitions'[cut].source] = states[transitions[cut].source]
      BY <1>3, <1>6, <3>1, <3>2
    <3> QED
      BY <1>3, <2>7, <3>1, <3>3, <3>4, <3>5 DEF WasShown
  <2>8. StepsHappened'
    <3> SUFFICES ASSUME NEW k \in 1 .. cut, transitions'[k].source >= candidate
        PROVE  WasShown(transitions'[k], states', shown)
      BY <1>1, <1>3 DEF StepsHappened
    <3>1. transitions[k].source >= candidate /\ k \in 1 .. Len(transitions)
      BY <1>3, <1>4
    <3>2. plan.keep > 0 /\ transitions[k].source \in 1 .. plan.target
      BY <2>6, <3>1
    <3>3. CASE k = cut
      BY <2>7, <3>1, <3>2, <3>3
    <3>4. CASE k # cut
      <4>1. transitions[k].target \in 1 .. plan.target /\ transitions'[k] = transitions[k]
        BY <1>3, <2>6, <3>1, <3>4
      <4>2. WasShown(transitions[k], states, shown)
        BY <2>1, <3>1 DEF StepsHappened
      <4> QED
        BY <1>6, <3>2, <4>1, <4>2 DEF WasShown
    <3> QED
      BY <3>3, <3>4
  <2>9. LastFits'
    <3> SUFFICES ASSUME LeadsHere' PROVE LastFits'
      BY DEF LastFits
    <3>1. /\ cut \in 1 .. cut /\ LastTransition' = transitions'[cut]
          /\ transitions'[cut].source >= candidate
      <4>1. transitions' # <<>> /\ LastTransition'.source >= candidate'
        BY DEF LeadsHere
      <4>2. IsSequence(transitions')
        BY RewindFits DEF ListsFit, ListsTyped
      <4>3. cut # 0
        BY <1>3, <4>1, <4>2, SequenceLen
      <4> QED
        BY <1>3, <4>1, <4>3 DEF LastTransition
    <3>2. transitions[cut].source >= candidate
      BY <1>3, <3>1
    <3>3. plan.keep > 0
      BY <2>6, <3>1, <3>2
    <3>4. trail.on = Last(LastTransition'.acts) /\ states'[LastTransition'.source] \in trail.from
      BY <2>7, <3>1, <3>2, <3>3
    <3> QED
      BY <1>1, <2>2, <2>3, <3>4 DEF LastFits
  <2>10. InputFits'
    BY <1>1, <2>4, <2>9 DEF InputFits, AtRest
  <2> QED
    BY <2>5, <2>8, <2>10
<1> QED
  BY <1>2, <1>7 DEF Happened

-----------------------------------------------------------------------------
LEMMA StepHappened ==
  ASSUME Bounded, Typed, Happened, [Next]_vars
  PROVE  Happened'
<1>0. candidate \in Nat /\ candidate <= candidate
  BY ListFacts
<1>1. CASE \E e \in UNION {Offers[p] : p \in Pages} : UserActs(e)
  BY <1>1, ActsHappened
<1>2. CASE Drift
  BY <1>2, DriftHappened
<1>3. CASE RecordEvent
  BY <1>3, RecordHappened
<1>4. CASE MonitorLooks \/ LoopLooks
  BY <1>4, LooksHappened
<1>5. CASE TakeSnapshot
  BY <1>5, SnapshotHappened
<1>6. CASE FlushFails
  BY <1>6, FailureHappened
<1>7. CASE StartFlow
  BY <1>7, StartHappened
<1>8. CASE FinishSegment
  BY <1>8, FinishHappened
<1>9. CASE StoreFlow
  BY <1>9, StoreHappened
<1>10. CASE Activate
  BY <1>10, ActivateHappened
<1>11. CASE CommitRewind
  BY <1>11, RewindHappened
<1>12. CASE WaitEnds \/ TakeStep \/ SendStep \/ MonitorDecides
  <2>1. UNCHANGED <<page, arriving, pending, flush, states, transitions, current, candidate,
                    segment, loop, plan, trail, shown, flows, refs, slips>>
    BY <1>12 DEF WaitEnds, TakeStep, SendStep, MonitorDecides, browser, recording, stored, history
  <2> QED
    BY <1>0, <2>1, OthersHappened
<1>13. CASE \/ \E op \in {"start", "publish", "finish", "rewind"} : Serve(op)
            \/ RefuseFinish \/ PersistFails \/ RefuseRewind
  <2>1. /\ UNCHANGED <<page, arriving, pending, flush, states, transitions, current, candidate,
                       trail, shown, flows, refs>>
        /\ slips \subseteq slips'
        /\ loop.at \in {"idle", "body"} /\ loop'.at \in {"idle", "flush"}
    BY <1>13 DEF Serve, RefuseFinish, PersistFails, RefuseRewind, Refuse, Slip, InBody, AtRest,
                 browser, recording, stored
  <2> QED
    BY <1>0, <2>1, OthersHappened
<1>14. CASE PrepareRewind \/ Replay
  <2>1. /\ UNCHANGED <<page, arriving, pending, flush, states, transitions, current, candidate,
                       trail, shown, flows, refs>>
        /\ slips \subseteq slips'
        /\ loop.at \in {"body", "replay"}
    BY <1>14 DEF PrepareRewind, Replay, Slip, InBody, browser, recording, stored, history
  <2>2. loop'.at \in {"idle", "replay", "activate"}
    <3>1. \/ loop' = AtRest \/ loop' = [loop EXCEPT !.at = "replay"]
          \/ loop' = [loop EXCEPT !.at = "activate"]
      BY <1>14 DEF PrepareRewind, Replay, GiveUp
    <3> QED
      BY <3>1 DEF AtRest, Bounded, TasksTyped
  <2> QED
    BY <1>0, <2>1, <2>2, OthersHappened
<1>15. CASE UNCHANGED vars
  <2>1. UNCHANGED <<page, arriving, pending, flush, states, transitions, current, candidate,
                    segment, loop, plan, trail, shown, flows, refs, slips>>
    BY <1>15 DEF vars, browser, recording, stored, history
  <2> QED
    BY <1>0, <2>1, OthersHappened
<1> QED
  BY <1>1, <1>2, <1>3, <1>4, <1>5, <1>6, <1>7, <1>8, <1>9, <1>10, <1>11, <1>12, <1>13, <1>14,
     <1>15 DEF Next, LoopSteps

LEMMA InitHappened == Init => Happened
<1> SUFFICES ASSUME Init PROVE Happened
  OBVIOUS
<1>1. /\ arriving = <<>> /\ pending = <<>> /\ transitions = <<>> /\ flush = NoFlush
      /\ loop = AtRest /\ flows = {} /\ trail = [on |-> NoEvent, from |-> {}]
  BY DEF Init
<1>2. trail.from = {} /\ Held = <<>> /\ loop.at = "idle"
  BY <1>1 DEF Held, AtRest
<1>3. Seen /\ FlushFits
  BY <1>1, <1>2 DEF Seen, FlushFits
<1>4. StepsHappened /\ StoredHappened
  BY <1>1, <1>2 DEF StepsHappened, StoredHappened
<1>5. HeldFits /\ LastFits
  BY <1>1, <1>2 DEF HeldFits, LastFits, LeadsHere
<1> QED
  BY <1>2, <1>3, <1>4, <1>5 DEF Happened, InputFits

LEMMA HappenedFits ==
  ASSUME Happened
  PROVE  FlowsHappened
BY DEF Happened, Clean, StoredHappened, PathHappened, FlowsHappened, Last

(* However events, requests and failures interleave: the types are right,  *)
(* the segment is a path to the page shown, and what is stored happened.   *)
THEOREM RecordingsAreTrue == Spec => []RecordingIsTrue
<1> DEFINE IInv == Bounded /\ PathIsReady /\ Viewed /\ Linked /\ Typed /\ Happened
<1>1. Init => IInv
  <2> SUFFICES ASSUME Init PROVE IInv
    OBVIOUS
  <2>1. Bounded /\ PathIsReady /\ Viewed
    BY InitBounded, InitViewed DEF Init, PathIsReady, FlowsArePaths, AtRest
  <2> QED
    BY <2>1, InitLinked, InitTyped, InitHappened
<1>2. IInv /\ [Next]_vars => IInv'
  <2> SUFFICES ASSUME IInv, [Next]_vars PROVE IInv'
    OBVIOUS
  <2>1. Bounded' /\ PathIsReady'
    BY StepBounded, StepIsReady
  <2>2. Viewed'
    BY StepViewed
  <2>3. Linked'
    <3>1. flush.events \in Seq(Event)
      BY DEF Typed, EventsTyped
    <3> QED
      BY <3>1, StepLinked
  <2>4. Typed' /\ Happened'
    BY StepTyped, StepHappened
  <2> QED
    BY <2>1, <2>2, <2>3, <2>4
<1>3. IInv => RecordingIsTrue
  BY TypedFits, LinkedFollows, HappenedFits DEF RecordingIsTrue
<1> QED
  BY <1>1, <1>2, <1>3, PTL DEF Spec
=============================================================================
