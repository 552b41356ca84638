-------------------------- MODULE SharedGraphProofs --------------------------
(***************************************************************************)
(* Theorems about SharedGraph, for any site, any number of sessions and    *)
(* any number of actions: recipes that are sure lead to their states, and  *)
(* only better ones replace them; transitions happened, if not always from *)
(* the state they are stored for, are found again, and have no twins but   *)
(* those that two sessions made at once.                                   *)
(***************************************************************************)
EXTENDS SharedGraph, WellFoundedInduction, TLAPS

(* What the variables hold.                                                *)
Button == UNION {DOMAIN Effect[h] : h \in Hash}
Key == {a.key : a \in Button}
Locator == {a.locator : a \in Button}
Page == [url : Url, hash : Hash]
Recipe == [url : Url, hash : Hash, initial : BOOLEAN, actions : Seq(Button),
           fallbackUrl : Url \union {0}, fallbackActions : Seq(Button), sure : BOOLEAN]
Ids == Hash \X Hash \X Key
Edge == [id : Ids, source : Hash, target : Hash, key : Key, locator : Locator]
Ref == [id : Ids, source : Hash, target : Hash]

Pc == {"seed", "idle", "info", "explore", "register", "persist", "find", "merge", "again",
       "failed"}

Local == [pc : Pc, source : Hash \union {None}, url : Url \union {0}, info : Recipe \union {None},
          page : Page \union {Lost}, from : Hash \union {None}, action : Button \union {None},
          target : Hash \union {None}, offer : Recipe \union {None}, found : Ids \union {None}, overtaken : BOOLEAN,
          ref : Ref \union {None}]

Typed ==
  /\ at \in [Session -> Local]
  /\ left \in [Session -> Nat] /\ \A s \in Session : left[s] <= Actions[s]
  /\ DOMAIN urls \subseteq Hash /\ urls \in [DOMAIN urls -> Url]
  /\ DOMAIN recipes \subseteq DOMAIN urls /\ recipes \in [DOMAIN recipes -> Recipe]
  /\ scores \in [DOMAIN recipes -> Seq(Nat)]
  /\ writer \in [DOMAIN recipes -> Session]
  /\ edges \in Seq(Edge)

(* A fallback is never empty, and only a recipe from where sessions start  *)
(* can do without one.                                                     *)
Made(r) ==
  /\ r.fallbackUrl = 0 <=> r.fallbackActions = <<>>
  /\ r.fallbackUrl = 0 => r.initial
  /\ r.initial => r.url = Base

Leads(h, r) == r.sure => ByCheckpoint(h, r) \/ ByFallback(h, r)

(* States from which a session may have gone astray.                       *)
Shady == doubted \union Flaky

(* A control point comes with the locals that are about to be used, for    *)
(* the states that have been seen, those that have a recipe, and those     *)
(* that are shady: only there is a session elsewhere than it thinks.       *)
Fits(l, seen, known, shady) ==
  /\ l.pc \in {"info", "explore", "again"} => l.source \in known /\ l.action = None
  /\ l.pc = "info" => l.page \in Page /\ l.page.hash = l.source
  /\ l.pc = "explore" => l.page = Lost \/ l.page.hash = l.source \/ l.source \in shady
  /\ l.pc \in {"explore", "again"} => l.info \in Recipe /\ Made(l.info) /\ Leads(l.source, l.info)
  /\ l.pc \in {"register", "persist"} =>
       l.target \in seen /\ l.offer \in Recipe /\ Made(l.offer) /\ Leads(l.target, l.offer)
  /\ l.pc \in {"find", "merge"} => l.action # None
  /\ l.pc \in {"register", "persist", "find", "merge"} /\ l.action # None =>
       /\ l.source \in known /\ l.info \in Recipe /\ Made(l.info) /\ Leads(l.source, l.info)
       /\ l.from \in Hash /\ l.action \in DOMAIN Effect[l.from]
       /\ l.target = Effect[l.from][l.action].hash
       /\ l.from = l.source \/ l.source \in shady
  /\ l.pc = "persist" => l.target \in known
  /\ l.pc \in {"seed", "idle"} => l.action = None

Places == \A s \in Session : Fits(at[s], DOMAIN urls, DOMAIN recipes, Shady)

(* The score is that of the recipe, or of the one it had its fallback from *)
Scored(h, r, score) ==
  /\ \A i \in {1, 2, 4, 5} : score[i] = Score(h, r)[i]
  /\ score[3] = Len(r.fallbackActions) \/ (r.initial /\ score[3] = 0)

(* What an offer becomes next to the recipes there are.                    *)
AddedTo(rs, h, r) ==
  IF h \in DOMAIN rs /\ r.fallbackUrl = 0
  THEN [r EXCEPT !.fallbackUrl = rs[h].fallbackUrl, !.fallbackActions = rs[h].fallbackActions]
  ELSE r

Recipes ==
  /\ \A h \in DOMAIN recipes : Made(recipes[h]) /\ Leads(h, recipes[h])
  /\ \A h \in DOMAIN recipes : recipes[h].sure \/ h \in doubted
  /\ \A h \in DOMAIN recipes : Len(scores[h]) = 5
  /\ \A h \in DOMAIN recipes \ raced : Scored(h, recipes[h], scores[h])
  /\ \A s \in Session : at[s].pc = "persist" /\ writer[at[s].target] = s =>
       /\ scores[at[s].target] = Score(at[s].target, at[s].offer)
       /\ at[s].target \notin raced =>
            recipes[at[s].target] = AddedTo(recipes, at[s].target, at[s].offer)

(* The action of an edge leads from a state to its target.                 *)
Happened(e, h, shady) ==
  LET a == [key |-> e.key, locator |-> e.locator]
  IN  /\ h \in Hash /\ a \in DOMAIN Effect[h] /\ Effect[h][a].hash = e.target
      /\ h = e.source \/ e.source \in shady

(* An edge from one state to another under an identifier.                  *)
Stored(es, id, source, target) ==
  \E i \in DOMAIN es : es[i].id = id /\ es[i].source = source /\ es[i].target = target

Edges ==
  /\ \A i \in DOMAIN edges :
       /\ edges[i].id \in DOMAIN origin /\ Happened(edges[i], origin[edges[i].id], Shady)
       /\ edges[i].id[1] = edges[i].source /\ edges[i].id[2] = edges[i].target
  /\ \A i, j \in DOMAIN edges : edges[i].id = edges[j].id => i = j
  /\ NoTwins /\ RefsResolve

Finds ==
  \A s \in Session : at[s].pc = "merge" =>
    /\ at[s].found # None => Stored(edges, at[s].found, at[s].source, at[s].target)
    /\ at[s].found = None /\ ~at[s].overtaken =>
         \A i \in DOMAIN edges : ~Equivalent(edges[i], at[s])

Sound == Typed /\ Places /\ Recipes /\ Edges /\ Finds

-----------------------------------------------------------------------------
(* Induction, over sets of numbers.                                        *)

LEMMA LeastNumber ==
  ASSUME NEW S \in SUBSET Nat, S # {}
  PROVE  \E n \in S : \A m \in S : n <= m
<1> DEFINE Below == OpToRel(<, Nat)
<1>1. IsWellFoundedOn(Below, Nat)
  BY NatLessThanWellFounded, Zenon
<1>2. PICK n \in S : \A m \in S : ~(<<m, n>> \in Below)
  <2> HIDE DEF Below
  <2> QED
    BY <1>1, WFMin, Zenon
<1>3. \A m \in S : ~(m < n)
  BY <1>2 DEF OpToRel
<1> QED
  BY <1>3

LEMMA SetInduction ==
  ASSUME NEW S \in SUBSET Nat, 0 \in S, \A n \in S : n + 1 \in S
  PROVE  \A n \in Nat : n \in S
<1> SUFFICES ASSUME NEW m \in Nat, m \notin S PROVE FALSE
  OBVIOUS
<1>1. PICK n \in Nat \ S : \A k \in Nat \ S : n <= k
  <2>1. Nat \ S \in SUBSET Nat /\ Nat \ S # {}
    OBVIOUS
  <2> QED
    BY <2>1, LeastNumber
<1>2. n - 1 \in Nat /\ ~(n <= n - 1)
  BY <1>1
<1>3. n - 1 \in S
  BY <1>1, <1>2
<1> QED
  BY <1>1, <1>3

-----------------------------------------------------------------------------
(* Where a replay ends.                                                    *)

LEMMA SiteFacts ==
  /\ Url \subseteq Nat \ {0} /\ Base \in Url /\ \A u \in Url : Load[u] \in Hash
  /\ None \notin Hash /\ None \notin Button
  /\ \A h \in Hash : \A a \in DOMAIN Effect[h] :
       /\ a \in Button /\ Effect[h][a].hash \in Hash /\ Effect[h][a].url \in Url \union {Stay}
  /\ \A a \in Button : a = [key |-> a.key, locator |-> a.locator]
                       /\ a.key \in Key /\ a.locator \in Locator
  /\ None \notin Ids
  /\ Lost \notin Page /\ Lost.hash = None
  /\ Actions \in [Session -> Nat]
<1>1. /\ Url \subseteq Nat \ {0} /\ Base \in Url /\ \A u \in Url : Load[u] \in Hash
      /\ None \notin Hash /\ Actions \in [Session -> Nat]
  BY SharedGraphAssumption DEF SharedGraphAssumption
<1>2. /\ \A h \in Hash : \A a \in DOMAIN Effect[h] :
           /\ a \in Button /\ Effect[h][a].hash \in Hash /\ Effect[h][a].url \in Url \union {Stay}
      /\ \A a \in Button : a = [key |-> a.key, locator |-> a.locator] /\ a # None
  BY SharedGraphAssumption DEF SharedGraphAssumption, Button
<1>3. \A a \in Button : a.key \in Key /\ a.locator \in Locator
  BY DEF Key, Locator
<1>4. \A k \in Key : \A g, e \in Hash : None # <<g, e, k>>
  BY SharedGraphAssumption DEF SharedGraphAssumption, Button, Key
<1>5. None \notin Ids
  <2> SUFFICES ASSUME None \in Ids PROVE FALSE
    OBVIOUS
  <2>1. PICK g \in Hash, e \in Hash, k \in Key : None = <<g, e, k>>
    BY DEF Ids
  <2> QED
    BY <1>4, <2>1
<1>6. Lost \notin Page /\ Lost.hash = None
  BY <1>1 DEF Lost, Page
<1> QED
  BY <1>1, <1>2, <1>3, <1>5, <1>6

LEMMA StepType ==
  ASSUME NEW page \in Page \union {Lost}, NEW a
  PROVE  /\ Step(page, a) \in Page \union {Lost}
         /\ page \in Page /\ a \in DOMAIN Effect[page.hash] =>
              Step(page, a) \in Page /\ Step(page, a).hash = Effect[page.hash][a].hash
<1>1. CASE page = Lost \/ a \notin DOMAIN Effect[page.hash]
  BY <1>1, SiteFacts DEF Step
<1>2. CASE page \in Page /\ a \in DOMAIN Effect[page.hash]
  <2> DEFINE e == Effect[page.hash][a]
             next == [url |-> IF e.url = Stay THEN page.url ELSE e.url, hash |-> e.hash]
  <2>1. page # Lost /\ page.hash \in Hash /\ page.url \in Url
    BY <1>2, SiteFacts DEF Page
  <2>2. e.hash \in Hash /\ e.url \in Url \union {Stay}
    BY <1>2, <2>1, SiteFacts
  <2>3. Step(page, a) = next
    BY <1>2, <2>1 DEF Step
  <2> HIDE DEF e
  <2>4. next \in Page /\ next.hash = e.hash
    BY <2>1, <2>2 DEF Page
  <2> QED
    BY <2>3, <2>4 DEF e
<1> QED
  BY <1>1, <1>2

(* The pages that a replay shows, up to the nth action.                    *)
Shows(f, url, actions, n) ==
  f = [i \in 0 .. n |-> IF i = 0 THEN [url |-> url, hash |-> Load[url]]
                        ELSE Step(f[i - 1], actions[i])]

LEMMA ShowsSomething ==
  ASSUME NEW url, NEW actions
  PROVE  \A n \in Nat : \E f : Shows(f, url, actions, n)
<1> DEFINE S == {n \in Nat : \E f : Shows(f, url, actions, n)}
<1>1. 0 \in S
  <2> DEFINE f == [i \in 0 .. 0 |-> [url |-> url, hash |-> Load[url]]]
  <2>1. f = [i \in 0 .. 0 |-> IF i = 0 THEN [url |-> url, hash |-> Load[url]]
                             ELSE Step(f[i - 1], actions[i])]
    OBVIOUS
  <2> QED
    BY <2>1 DEF Shows
<1>2. ASSUME NEW n \in S PROVE n + 1 \in S
  <2>1. PICK f : Shows(f, url, actions, n)
    OBVIOUS
  <2> DEFINE g == [i \in 0 .. n + 1 |-> IF i = n + 1 THEN Step(f[n], actions[n + 1]) ELSE f[i]]
  <2>2. ASSUME NEW i \in 0 .. n + 1
        PROVE  g[i] = IF i = 0 THEN [url |-> url, hash |-> Load[url]]
                      ELSE Step(g[i - 1], actions[i])
    <3>1. CASE i = n + 1
      <4>1. i # 0 /\ i - 1 = n /\ n \in 0 .. n + 1 /\ n # n + 1
        BY <3>1
      <4>2. g[i] = Step(f[n], actions[n + 1]) /\ g[i - 1] = f[n]
        BY <3>1, <4>1
      <4> QED
        BY <3>1, <4>1, <4>2
    <3>2. CASE i = 0
      BY <2>1, <3>2 DEF Shows
    <3>3. CASE i # 0 /\ i # n + 1
      <4>1. i \in 0 .. n /\ i - 1 \in 0 .. n
        BY <3>3
      <4>2. g[i] = f[i] /\ g[i - 1] = f[i - 1]
        BY <4>1
      <4>3. f[i] = Step(f[i - 1], actions[i])
        BY <2>1, <3>3, <4>1 DEF Shows
      <4> QED
        BY <3>3, <4>2, <4>3
    <3> QED
      BY <3>1, <3>2, <3>3
  <2>3. Shows(g, url, actions, n + 1)
    BY <2>2 DEF Shows
  <2> QED
    BY <2>3
<1>3. S \in SUBSET Nat
  OBVIOUS
<1> HIDE DEF S
<1>4. \A n \in Nat : n \in S
  BY <1>1, <1>2, <1>3, SetInduction
<1> QED
  BY <1>4 DEF S

(* ... which depend on no more than the first n actions.                   *)
LEMMA ShowsTheSame ==
  ASSUME NEW url, NEW actions \in Seq(Button), NEW more \in Seq(Button),
         NEW n \in Nat, NEW k \in Nat, NEW f, NEW g,
         n <= k, Shows(f, url, actions, n), Shows(g, url, more, k),
         \A i \in 1 .. n : actions[i] = more[i]
  PROVE  \A i \in 0 .. n : f[i] = g[i]
<1> DEFINE S == {i \in Nat : i <= n => f[i] = g[i]}
<1>1. 0 \in S
  BY DEF Shows
<1>2. ASSUME NEW i \in S PROVE i + 1 \in S
  <2> SUFFICES ASSUME i + 1 <= n PROVE f[i + 1] = g[i + 1]
    OBVIOUS
  <2>1. i + 1 # 0 /\ i + 1 \in 0 .. n /\ i + 1 \in 0 .. k /\ i + 1 \in 1 .. n /\ (i + 1) - 1 = i
    OBVIOUS
  <2>2. f[i + 1] = Step(f[i], actions[i + 1])
    BY <2>1 DEF Shows
  <2>3. g[i + 1] = Step(g[i], more[i + 1])
    BY <2>1 DEF Shows
  <2>4. f[i] = g[i]
    BY <2>1
  <2> QED
    BY <2>1, <2>2, <2>3, <2>4
<1>3. S \in SUBSET Nat
  OBVIOUS
<1> HIDE DEF S
<1>4. \A i \in Nat : i \in S
  BY <1>1, <1>2, <1>3, SetInduction
<1> QED
  BY <1>4 DEF S

LEMMA RunShows ==
  ASSUME NEW url, NEW actions \in Seq(Button)
  PROVE  \E f : Shows(f, url, actions, Len(actions)) /\ Run(url, actions) = f[Len(actions)]
<1> DEFINE f == CHOOSE f : Shows(f, url, actions, Len(actions))
<1>1. Len(actions) \in Nat
  OBVIOUS
<1>2. Shows(f, url, actions, Len(actions))
  BY <1>1, ShowsSomething
<1>3. Run(url, actions) = f[Len(actions)]
  BY DEF Run, Shows
<1> QED
  BY <1>2, <1>3

LEMMA RunNothing ==
  ASSUME NEW url
  PROVE  Run(url, <<>>) = [url |-> url, hash |-> Load[url]]
<1>1. <<>> \in Seq(Button) /\ Len(<<>>) = 0
  OBVIOUS
<1>2. PICK f : Shows(f, url, <<>>, Len(<<>>)) /\ Run(url, <<>>) = f[Len(<<>>)]
  BY <1>1, RunShows
<1> QED
  BY <1>1, <1>2 DEF Shows

LEMMA RunOneMore ==
  ASSUME NEW url, NEW actions \in Seq(Button), NEW a \in Button
  PROVE  Run(url, Append(actions, a)) = Step(Run(url, actions), a)
<1> DEFINE more == Append(actions, a)
           n == Len(actions)
<1>1. /\ more \in Seq(Button) /\ Len(more) = n + 1 /\ more[n + 1] = a /\ n \in Nat
      /\ \A i \in 1 .. n : actions[i] = more[i]
  OBVIOUS
<1> HIDE DEF more
<1>2. PICK f : Shows(f, url, actions, Len(actions)) /\ Run(url, actions) = f[Len(actions)]
  BY RunShows
<1>3. PICK g : Shows(g, url, more, Len(more)) /\ Run(url, more) = g[Len(more)]
  BY <1>1, RunShows
<1> HIDE DEF n
<1>4. f[n] = g[n]
  <2>1. /\ Shows(f, url, actions, n) /\ Shows(g, url, more, n + 1)
        /\ n \in Nat /\ n + 1 \in Nat /\ n <= n + 1
        /\ \A i \in 1 .. n : actions[i] = more[i]
        /\ more \in Seq(Button)
    BY <1>1, <1>2, <1>3 DEF n
  <2>2. \A i \in 0 .. n : f[i] = g[i]
    BY <2>1, ShowsTheSame
  <2> QED
    BY <2>1, <2>2
<1>5. g[n + 1] = Step(g[n], more[n + 1])
  <2>1. n + 1 \in 0 .. n + 1 /\ n + 1 # 0 /\ (n + 1) - 1 = n
    BY <1>1
  <2>2. Shows(g, url, more, n + 1)
    BY <1>1, <1>3
  <2> QED
    BY <2>1, <2>2 DEF Shows
<1> QED
  BY <1>1, <1>2, <1>3, <1>4, <1>5 DEF n, more

LEMMA RunType ==
  ASSUME NEW url \in Url, NEW actions \in Seq(Button)
  PROVE  Run(url, actions) \in Page \union {Lost}
<1>1. PICK f : Shows(f, url, actions, Len(actions)) /\ Run(url, actions) = f[Len(actions)]
  BY RunShows
<1> DEFINE n == Len(actions)
           S == {i \in Nat : i <= n => f[i] \in Page \union {Lost}}
<1>n. n \in Nat
  OBVIOUS
<1> HIDE DEF n
<1>2. 0 \in S
  <2>1. f[0] = [url |-> url, hash |-> Load[url]]
    BY <1>1, <1>n DEF Shows, n
  <2> QED
    BY <2>1, SiteFacts DEF Page
<1>3. ASSUME NEW i \in S PROVE i + 1 \in S
  <2> SUFFICES ASSUME i + 1 <= n PROVE f[i + 1] \in Page \union {Lost}
    OBVIOUS
  <2>1. i + 1 # 0 /\ i + 1 \in 0 .. n /\ (i + 1) - 1 = i /\ i <= n
    BY <1>n
  <2>2. f[i + 1] = Step(f[i], actions[i + 1])
    BY <1>1, <2>1 DEF Shows, n
  <2>3. f[i] \in Page \union {Lost}
    BY <2>1
  <2> QED
    BY <2>2, <2>3, StepType
<1>4. S \in SUBSET Nat
  OBVIOUS
<1> HIDE DEF S
<1>5. n \in S
  BY <1>2, <1>3, <1>4, <1>n, SetInduction
<1> QED
  BY <1>1, <1>5, <1>n DEF S, n


-----------------------------------------------------------------------------
(* Recipes: what is built of one that leads to its state leads on.         *)

LEMMA RunLeads ==
  ASSUME NEW url \in Url, NEW actions \in Seq(Button), NEW source \in Hash,
         Run(url, actions).hash = source, NEW a \in DOMAIN Effect[source]
  PROVE  Run(url, Append(actions, a)).hash = Effect[source][a].hash
<1>1. Run(url, actions) \in Page /\ a \in Button
  BY RunType, SiteFacts
<1>2. Step(Run(url, actions), a).hash = Effect[source][a].hash
  BY <1>1, StepType
<1> QED
  BY <1>1, <1>2, RunOneMore

LEMMA InitialGood ==
  ASSUME NEW page, page = [url |-> Base, hash |-> Load[Base]]
  PROVE  /\ page.hash \in Hash
         /\ InitialRecipe(page) \in Recipe /\ Made(InitialRecipe(page))
         /\ Leads(page.hash, InitialRecipe(page))
<1> DEFINE r == InitialRecipe(page)
<1>1. page.hash \in Hash /\ page.url = Base /\ page.hash = Load[Base] /\ Base \in Url
  BY SiteFacts
<1>2. r \in Recipe /\ r.url = Base /\ r.actions = <<>>
  BY <1>1 DEF InitialRecipe, Recipe
<1>3. Made(r)
  BY <1>1 DEF InitialRecipe, Made
<1>4. ByCheckpoint(page.hash, r)
  <2>1. Run(Base, <<>>) = [url |-> Base, hash |-> Load[Base]]
    BY RunNothing
  <2> HIDE DEF r
  <2> QED
    BY <1>1, <1>2, <2>1 DEF ByCheckpoint
<1> QED
  BY <1>1, <1>2, <1>3, <1>4 DEF Leads

LEMMA BuildGood ==
  ASSUME NEW source \in Hash, NEW info \in Recipe, Made(info), Leads(source, info),
         NEW a \in Button, NEW page \in Page
  PROVE  /\ BuildReplayInfo(source, info, a, page) \in Recipe
         /\ Made(BuildReplayInfo(source, info, a, page))
         /\ a \in DOMAIN Effect[source] /\ page.hash = Effect[source][a].hash =>
              Leads(page.hash, BuildReplayInfo(source, info, a, page))
<1> DEFINE r == BuildReplayInfo(source, info, a, page)
           actions == Append(info.actions, a)
           There == a \in DOMAIN Effect[source] /\ page.hash = Effect[source][a].hash
<1>1. /\ page.url \in Url /\ page.hash \in Hash
      /\ info.url \in Url /\ info.hash \in Hash /\ info.initial \in BOOLEAN
      /\ info.actions \in Seq(Button) /\ info.fallbackActions \in Seq(Button)
      /\ info.fallbackUrl \in Url \union {0}
  BY SiteFacts DEF Page, Recipe
<1>2. actions \in Seq(Button) /\ actions # <<>>
  <2>1. info.actions \in Seq(Button) /\ a \in Button
    BY <1>1
  <2> HIDE DEF There, r
  <2> QED
    BY <2>1
<1>3. ByCheckpoint(source, info) \in BOOLEAN /\ ByFallback(source, info) \in BOOLEAN
  BY DEF ByCheckpoint, ByFallback
<1>4. There /\ ByCheckpoint(source, info) => Run(info.url, actions).hash = page.hash
  BY <1>1, RunLeads DEF ByCheckpoint
<1>5. CASE page.url # info.url
  <2>1. r = [url |-> page.url, hash |-> page.hash, initial |-> FALSE, actions |-> <<>>,
             fallbackUrl |-> info.url, fallbackActions |-> actions,
             sure |-> ByCheckpoint(source, info)]
    BY <1>5 DEF BuildReplayInfo
  <2> HIDE DEF r, actions, There
  <2>2. r \in Recipe
    BY <1>1, <1>2, <1>3, <2>1 DEF Recipe
  <2>3. Made(r)
    BY <1>1, <1>2, <2>1, SiteFacts DEF Made
  <2>4. There /\ r.sure => ByFallback(page.hash, r)
    BY <1>1, <1>4, <2>1, SiteFacts DEF ByFallback
  <2> QED
    BY <2>2, <2>3, <2>4 DEF Leads, r, There
<1>6. CASE page.url = info.url
  <2> DEFINE more == IF info.fallbackUrl = 0 THEN <<>> ELSE info.fallbackActions \o actions
             sure == \/ ByCheckpoint(source, info)
                     \/ info.actions = <<>> /\ ByFallback(source, info)
  <2>1. r = [info EXCEPT !.actions = actions, !.fallbackActions = more, !.sure = sure]
    BY <1>6 DEF BuildReplayInfo
  <2>2. more \in Seq(Button) /\ sure \in BOOLEAN /\ (info.fallbackUrl = 0 <=> more = <<>>)
    <3>1. info.fallbackUrl # 0 => info.fallbackActions \o actions # <<>>
      BY <1>1, <1>2
    <3> QED
      BY <1>1, <1>2, <1>3, <3>1
  <2>3. info.fallbackUrl # 0 /\ info.actions = <<>> => more = Append(info.fallbackActions, a)
    BY <1>1
  <2>s. sure <=> ByCheckpoint(source, info) \/ (info.actions = <<>> /\ ByFallback(source, info))
    OBVIOUS
  <2> HIDE DEF r, actions, more, sure, There
  <2>4. /\ r \in Recipe /\ r.url = info.url /\ r.fallbackUrl = info.fallbackUrl
        /\ r.actions = actions /\ r.fallbackActions = more /\ r.initial = info.initial
        /\ r.sure = sure
    BY <1>1, <1>2, <2>1, <2>2 DEF Recipe
  <2>5. Made(r)
    BY <2>2, <2>4 DEF Made
  <2>6. There /\ ByCheckpoint(source, info) => ByCheckpoint(page.hash, r)
    BY <1>4, <2>4 DEF ByCheckpoint
  <2>7. There /\ info.actions = <<>> /\ ByFallback(source, info) => ByFallback(page.hash, r)
    <3> SUFFICES ASSUME There, info.actions = <<>>, ByFallback(source, info)
                 PROVE  ByFallback(page.hash, r)
      OBVIOUS
    <3>1. info.fallbackUrl \in Url /\ Run(info.fallbackUrl, info.fallbackActions).hash = source
          /\ info.fallbackUrl # 0
      BY <1>1 DEF ByFallback
    <3>2. Run(info.fallbackUrl, Append(info.fallbackActions, a)).hash = page.hash
      BY <1>1, <3>1, RunLeads DEF There
    <3> QED
      BY <2>3, <2>4, <3>1, <3>2 DEF ByFallback
  <2> QED
    BY <2>s, <2>4, <2>5, <2>6, <2>7 DEF Leads, r, There
<1> QED
  BY <1>5, <1>6

(* The offer of a session that is elsewhere claims nothing.                *)
LEMMA OfferedGood ==
  ASSUME NEW l, l.source \in Hash, l.info \in Recipe, Made(l.info), Leads(l.source, l.info),
         l.page \in Page, NEW a \in DOMAIN Effect[l.page.hash], NEW page \in Page,
         page.hash = Effect[l.page.hash][a].hash
  PROVE  /\ Offered(l, a, page) \in Recipe /\ Made(Offered(l, a, page))
         /\ Leads(page.hash, Offered(l, a, page))
<1> DEFINE r == BuildReplayInfo(l.source, l.info, a, page)
           here == l.page.hash = l.source
           o == [r EXCEPT !.sure = r.sure /\ here]
<1>1. a \in Button
  BY SiteFacts DEF Page
<1>2. r \in Recipe /\ Made(r)
  BY <1>1, BuildGood
<1>3. here => Leads(page.hash, r)
  BY <1>1, BuildGood
<1>4. Offered(l, a, page) = o
  BY DEF Offered
<1>5. here \in BOOLEAN
  OBVIOUS
<1> HIDE DEF r, here
<1>6. /\ o \in Recipe /\ o.url = r.url /\ o.actions = r.actions /\ o.initial = r.initial
      /\ o.fallbackUrl = r.fallbackUrl /\ o.fallbackActions = r.fallbackActions
      /\ o.sure = (r.sure /\ here)
  BY <1>2, <1>5 DEF Recipe
<1> HIDE DEF o
<1>7. Made(o)
  BY <1>2, <1>6 DEF Made
<1>8. Leads(page.hash, o)
  BY <1>3, <1>6 DEF Leads, ByCheckpoint, ByFallback
<1> QED
  BY <1>4, <1>6, <1>7, <1>8

(* What is stored of an offer.                                             *)
Filled(r, old) ==
  [r EXCEPT !.fallbackUrl = old.fallbackUrl, !.fallbackActions = old.fallbackActions]

LEMMA AddedGood ==
  ASSUME NEW r \in Recipe, Made(r), NEW h, Leads(h, r),
         NEW old \in Recipe, Made(old), NEW new,
         new = r \/ (r.fallbackUrl = 0 /\ new = Filled(r, old))
  PROVE  /\ new \in Recipe /\ Made(new) /\ Leads(h, new) /\ new.sure = r.sure
         /\ Scored(h, new, Score(h, r))
<1>1. CASE new = r
  <2>1. Scored(h, r, Score(h, r))
    BY DEF Scored, Score
  <2> QED
    BY <1>1, <2>1
<1>2. CASE r.fallbackUrl = 0 /\ new = Filled(r, old)
  <2>1. /\ new \in Recipe /\ new.url = r.url /\ new.hash = r.hash /\ new.initial = r.initial
        /\ new.actions = r.actions /\ new.sure = r.sure
        /\ new.fallbackUrl = old.fallbackUrl /\ new.fallbackActions = old.fallbackActions
    BY <1>2 DEF Recipe, Filled
  <2>2. r.initial /\ r.fallbackActions = <<>> /\ r.url = Base
    BY <1>2 DEF Made
  <2>3. Made(new)
    BY <2>1, <2>2 DEF Made
  <2>4. Leads(h, new)
    BY <1>2, <2>1 DEF Leads, ByCheckpoint, ByFallback
  <2>5. Scored(h, new, Score(h, r))
    <3>1. Len(r.fallbackActions) = 0
      BY <2>2
    <3> QED
      BY <2>1, <2>2, <3>1 DEF Scored, Score
  <2> QED
    BY <2>1, <2>3, <2>4, <2>5
<1> QED
  BY <1>1, <1>2

-----------------------------------------------------------------------------
(* Scores, compared from the first number on.                              *)

Five(t) == \A i \in 1 .. 5 : t[i] \in Nat

LEMMA ScoreType ==
  ASSUME NEW h, NEW r \in Recipe
  PROVE  Score(h, r) \in Seq(Nat) /\ Len(Score(h, r)) = 5 /\ Five(Score(h, r))
<1>1. r.url \in Nat /\ Len(r.actions) \in Nat /\ Len(r.fallbackActions) \in Nat
  BY SiteFacts DEF Recipe
<1> QED
  BY <1>1 DEF Score, Five

LEMMA BetterMeans ==
  ASSUME NEW s, NEW t, Five(s), Five(t)
  PROVE  Better(s, t) <=>
           \/ s[1] < t[1]
           \/ s[1] = t[1] /\ s[2] < t[2]
           \/ s[1] = t[1] /\ s[2] = t[2] /\ s[3] < t[3]
           \/ s[1] = t[1] /\ s[2] = t[2] /\ s[3] = t[3] /\ s[4] < t[4]
           \/ s[1] = t[1] /\ s[2] = t[2] /\ s[3] = t[3] /\ s[4] = t[4] /\ s[5] < t[5]
<1>1. 1 .. 5 = {1, 2, 3, 4, 5} /\ 1 .. 0 = {} /\ 1 .. 1 = {1} /\ 1 .. 2 = {1, 2}
      /\ 1 .. 3 = {1, 2, 3} /\ 1 .. 4 = {1, 2, 3, 4}
  OBVIOUS
<1>2. Better(s, t) <=>
        \/ s[1] < t[1] /\ \A j \in 1 .. 0 : s[j] = t[j]
        \/ s[2] < t[2] /\ \A j \in 1 .. 1 : s[j] = t[j]
        \/ s[3] < t[3] /\ \A j \in 1 .. 2 : s[j] = t[j]
        \/ s[4] < t[4] /\ \A j \in 1 .. 3 : s[j] = t[j]
        \/ s[5] < t[5] /\ \A j \in 1 .. 4 : s[j] = t[j]
  BY DEF Better
<1> QED
  BY <1>1, <1>2

LEMMA BetterIsStrict ==
  ASSUME NEW s, NEW t, Five(s), Five(t), Better(s, t)
  PROVE  ~Better(t, s)
<1>1. s[1] \in Nat /\ s[2] \in Nat /\ s[3] \in Nat /\ s[4] \in Nat /\ s[5] \in Nat
      /\ t[1] \in Nat /\ t[2] \in Nat /\ t[3] \in Nat /\ t[4] \in Nat /\ t[5] \in Nat
  BY DEF Five
<1> QED
  BY <1>1, BetterMeans

(* An offer with a better score than the stored one makes a recipe that is *)
(* no worse than the stored one: where the scores differ first decides.    *)
LEMMA Improvement ==
  ASSUME NEW h, NEW r \in Recipe, Made(r), NEW old \in Recipe, Made(old),
         NEW score, Five(score), Scored(h, old, score), Better(Score(h, r), score),
         NEW new \in Recipe,
         \/ r.fallbackUrl # 0 /\ new = r
         \/ r.fallbackUrl = 0 /\ new = Filled(r, old)
  PROVE  ~Better(Score(h, old), Score(h, new))
<1> DEFINE n == Score(h, r)
           o == Score(h, old)
           m == Score(h, new)
<1>1. Five(n) /\ Five(o) /\ Five(m)
  BY ScoreType
<1>2. /\ m[1] = n[1] /\ m[2] = n[2] /\ m[4] = n[4] /\ m[5] = n[5]
      /\ r.fallbackUrl # 0 => m[3] = n[3]
      /\ r.fallbackUrl = 0 => n[3] = 0 /\ m[3] = o[3]
  <2>1. CASE r.fallbackUrl # 0 /\ new = r
    BY <2>1
  <2>2. CASE r.fallbackUrl = 0 /\ new = Filled(r, old)
    <3>1. /\ new.hash = r.hash /\ new.actions = r.actions /\ new.initial = r.initial
          /\ new.url = r.url /\ new.fallbackActions = old.fallbackActions
      BY <2>2 DEF Filled, Recipe
    <3>2. Len(r.fallbackActions) = 0
      BY <2>2 DEF Made
    <3> QED
      BY <2>2, <3>1, <3>2 DEF Score
  <2> QED
    BY <2>1, <2>2
<1>3. /\ score[1] = o[1] /\ score[2] = o[2] /\ score[4] = o[4] /\ score[5] = o[5]
      /\ score[3] = o[3] \/ (old.initial /\ score[3] = 0)
  BY DEF Scored, Score
<1>4. /\ old.initial => o[4] = 0 /\ o[5] = Base
      /\ ~old.initial => o[4] = 1
      /\ r.initial => n[4] = 0 /\ n[5] = Base
      /\ ~r.initial => n[4] = 1
      /\ r.fallbackUrl = 0 => r.initial
  BY DEF Score, Made
<1> HIDE DEF n, o, m
<1>5. /\ n[1] \in Nat /\ n[2] \in Nat /\ n[3] \in Nat /\ n[4] \in Nat /\ n[5] \in Nat
      /\ m[1] \in Nat /\ m[2] \in Nat /\ m[3] \in Nat /\ m[4] \in Nat /\ m[5] \in Nat
      /\ o[1] \in Nat /\ o[2] \in Nat /\ o[3] \in Nat /\ o[4] \in Nat /\ o[5] \in Nat
      /\ score[3] \in Nat
  BY <1>1 DEF Five
<1>6. \/ n[1] < score[1]
      \/ n[1] = score[1] /\ n[2] < score[2]
      \/ n[1] = score[1] /\ n[2] = score[2] /\ n[3] < score[3]
      \/ n[1] = score[1] /\ n[2] = score[2] /\ n[3] = score[3] /\ n[4] < score[4]
      \/ n[1] = score[1] /\ n[2] = score[2] /\ n[3] = score[3] /\ n[4] = score[4] /\ n[5] < score[5]
  BY <1>1, BetterMeans DEF n
<1>7. Better(o, m) =>
      \/ o[1] < m[1]
      \/ o[1] = m[1] /\ o[2] < m[2]
      \/ o[1] = m[1] /\ o[2] = m[2] /\ o[3] < m[3]
      \/ o[1] = m[1] /\ o[2] = m[2] /\ o[3] = m[3] /\ o[4] < m[4]
      \/ o[1] = m[1] /\ o[2] = m[2] /\ o[3] = m[3] /\ o[4] = m[4] /\ o[5] < m[5]
  BY <1>1, BetterMeans
<1>8. ~Better(o, m)
  BY <1>2, <1>3, <1>4, <1>5, <1>6, <1>7
<1> QED
  BY <1>8 DEF o, m

-----------------------------------------------------------------------------
(* What one session's step leaves of the others.                           *)

LEMMA WithType ==
  ASSUME NEW S, NEW f, f \in [DOMAIN f -> S], NEW x, NEW v \in S
  PROVE  /\ DOMAIN With(f, x, v) = DOMAIN f \union {x}
         /\ With(f, x, v) \in [DOMAIN f \union {x} -> S]
         /\ With(f, x, v)[x] = v
         /\ \A y \in DOMAIN f : y # x => With(f, x, v)[y] = f[y]
BY DEF With

LEMMA FitsMore ==
  ASSUME NEW l, NEW seen, NEW known, NEW shady, NEW more, NEW after,
         NEW later, Fits(l, seen, known, shady),
         seen \subseteq more, known \subseteq after, shady \subseteq later
  PROVE  Fits(l, more, after, later)
BY DEF Fits

LEMMA Moved ==
  ASSUME Typed, Places, NEW s \in Session, NEW l, Becomes(s, l), l \in Local,
         DOMAIN urls \subseteq DOMAIN urls', DOMAIN recipes \subseteq DOMAIN recipes',
         doubted \subseteq doubted', Fits(l, DOMAIN urls', DOMAIN recipes', Shady')
  PROVE  /\ at' \in [Session -> Local] /\ at'[s] = l
         /\ \A t \in Session : t # s => at'[t] = at[t]
         /\ Places'
<1>1. /\ at' \in [Session -> Local] /\ at'[s] = l
      /\ \A t \in Session : t # s => at'[t] = at[t]
  BY DEF Typed, Becomes
<1>2. ASSUME NEW t \in Session PROVE Fits(at'[t], DOMAIN urls', DOMAIN recipes', Shady')
  <2>1. CASE t = s
    BY <1>1, <2>1
  <2>2. CASE t # s
    <3>1. Shady \subseteq Shady'
      BY DEF Shady
    <3> QED
      BY <1>1, <2>2, <3>1, FitsMore DEF Places
  <2> QED
    BY <2>1, <2>2
<1>3. Places'
  BY <1>2 DEF Places
<1> QED
  BY <1>1, <1>3

LEMMA LocalFields ==
  ASSUME Typed, NEW s \in Session
  PROVE  /\ at[s] \in Local
         /\ at[s].source \in Hash \union {None} /\ at[s].url \in Url \union {0}
         /\ at[s].info \in Recipe \union {None} /\ at[s].page \in Page \union {Lost}
         /\ at[s].from \in Hash \union {None}
         /\ at[s].action \in Button \union {None} /\ at[s].target \in Hash \union {None}
         /\ at[s].offer \in Recipe \union {None} /\ at[s].found \in Ids \union {None}
         /\ at[s].overtaken \in BOOLEAN /\ at[s].ref \in Ref \union {None}
BY DEF Typed, Local

LEMMA NowhereFits ==
  ASSUME NEW seen, NEW known, NEW shady, NEW l \in Local
  PROVE  /\ [Nowhere EXCEPT !.ref = l.ref] \in Local
         /\ Fits([Nowhere EXCEPT !.ref = l.ref], seen, known, shady)
         /\ [Nowhere EXCEPT !.ref = l.ref].pc = "idle"
         /\ [Nowhere EXCEPT !.pc = "failed"] \in Local
         /\ Fits([Nowhere EXCEPT !.pc = "failed"], seen, known, shady)
<1> DEFINE m == [Nowhere EXCEPT !.ref = l.ref]
           n == [Nowhere EXCEPT !.pc = "failed"]
<1>1. /\ m.pc = "idle" /\ m.page = Lost /\ m.action = None /\ m \in Local
  BY DEF Nowhere, Local, Pc
<1>2. /\ n.pc = "failed" /\ n.page = Lost /\ n \in Local
  BY DEF Nowhere, Local, Pc
<1> HIDE DEF m, n
<1>3. Fits(m, seen, known, shady) /\ Fits(n, seen, known, shady)
  BY <1>1, <1>2 DEF Fits
<1> QED
  BY <1>1, <1>2, <1>3 DEF m, n

LEMMA SettledFits ==
  ASSUME NEW l \in Local, NEW seen, NEW known, NEW shady, Fits(l, seen, known, shady), l.action # None,
         l.pc \in {"register", "persist", "find", "merge"}
  PROVE  /\ Settled(l) \in Local /\ Fits(Settled(l), seen, known, shady)
         /\ Settled(l).pc = "again" /\ Settled(l).ref = l.ref /\ Settled(l).source = l.source
<1>1. /\ Settled(l) \in Local /\ Settled(l).pc = "again" /\ Settled(l).action = None
      /\ Settled(l).source = l.source /\ Settled(l).info = l.info /\ Settled(l).page = l.page
      /\ Settled(l).ref = l.ref
  BY DEF Settled, Local, Pc
<1>2. /\ l.source \in known /\ l.info \in Recipe /\ Made(l.info) /\ Leads(l.source, l.info)
  BY DEF Fits
<1> QED
  BY <1>1, <1>2 DEF Fits

-----------------------------------------------------------------------------
(* Every step keeps what the variables hold, and what a session's locals   *)
(* are to be where it is.                                                  *)

LEMMA SeedFits ==
  ASSUME Typed, Places, NEW s \in Session, Seed(s)
  PROVE  Typed' /\ Places'
<1> DEFINE page == [url |-> Base, hash |-> Load[Base]]
           r == InitialRecipe(page)
           l == [at[s] EXCEPT !.pc = "register", !.target = page.hash, !.offer = r]
<1>1. /\ Becomes(s, l) /\ urls' = With(urls, page.hash, Base) /\ at[s].pc = "seed"
      /\ recipes' = recipes /\ scores' = scores /\ edges' = edges /\ left' = left
      /\ writer' = writer /\ doubted' = doubted
  BY DEF Seed, history
<1>2. page.hash \in Hash /\ r \in Recipe /\ Made(r) /\ Leads(page.hash, r)
  BY InitialGood
<1> HIDE DEF page, r
<1>3. /\ DOMAIN urls' = DOMAIN urls \union {page.hash}
      /\ urls' \in [DOMAIN urls \union {page.hash} -> Url]
  <2>1. urls \in [DOMAIN urls -> Url] /\ Base \in Url
    BY SiteFacts DEF Typed
  <2> QED
    BY <1>1, <2>1 DEF With
<1>4. at[s].action = None
  BY <1>1 DEF Places, Fits
<1>5. /\ l \in Local /\ l.pc = "register" /\ l.target = page.hash /\ l.offer = r
      /\ l.action = None
  <2>1. at[s] \in Local
    BY LocalFields
  <2>2. "register" \in Pc /\ page.hash \in Hash \union {None} /\ r \in Recipe \union {None}
    BY <1>2 DEF Pc
  <2>3. l \in Local
    BY <2>1, <2>2 DEF Local
  <2>4. /\ l.pc = "register" /\ l.target = page.hash /\ l.offer = r
        /\ l.action = at[s].action
    BY <2>1 DEF Local
  <2> QED
    BY <1>4, <2>3, <2>4
<1> HIDE DEF l
<1>6. Fits(l, DOMAIN urls', DOMAIN recipes', Shady')
  BY <1>2, <1>3, <1>4, <1>5 DEF Fits
<1>7. at' \in [Session -> Local] /\ Places'
  BY <1>1, <1>3, <1>5, <1>6, Moved
<1>8. DOMAIN urls' \subseteq Hash /\ DOMAIN recipes' \subseteq DOMAIN urls'
  BY <1>1, <1>2, <1>3 DEF Typed
<1> QED
  BY <1>1, <1>3, <1>7, <1>8 DEF Typed

(* A step that only moves a session.                                       *)
LEMMA MovedOnly ==
  ASSUME Typed, Places, NEW s \in Session, NEW l, Becomes(s, l), l \in Local,
         UNCHANGED <<graph, left, history>>,
         Fits(l, DOMAIN urls, DOMAIN recipes, Shady)
  PROVE  Typed' /\ Places'
<1>1. urls' = urls /\ recipes' = recipes /\ scores' = scores /\ edges' = edges
      /\ left' = left /\ writer' = writer /\ doubted' = doubted
  BY DEF graph, history
<1>2. Fits(l, DOMAIN urls', DOMAIN recipes', Shady')
  BY <1>1 DEF Shady
<1>3. DOMAIN urls \subseteq DOMAIN urls' /\ DOMAIN recipes \subseteq DOMAIN recipes'
  BY <1>1
<1>4. at' \in [Session -> Local] /\ Places'
  BY <1>1, <1>2, <1>3, Moved
<1> QED
  BY <1>1, <1>4 DEF Typed

LEMMA ReplayType ==
  ASSUME Typed, NEW h \in DOMAIN recipes, ReplayTo(h) # Lost
  PROVE  ReplayTo(h) \in Page /\ ReplayTo(h).hash = h
<1> DEFINE r == recipes[h]
<1>1. r \in Recipe /\ h \in Hash
  BY DEF Typed
<1>2. r.url \in Url /\ r.actions \in Seq(Button) /\ r.fallbackUrl \in Url \union {0}
      /\ r.fallbackActions \in Seq(Button)
  BY <1>1 DEF Recipe
<1>3. CASE ByCheckpoint(h, r)
  <2>1. ReplayTo(h) = Run(r.url, r.actions)
    BY <1>3 DEF ReplayTo
  <2> QED
    BY <1>1, <1>2, <1>3, <2>1, RunType DEF ByCheckpoint
<1>4. CASE ~ByCheckpoint(h, r) /\ ByFallback(h, r)
  <2>1. ReplayTo(h) = Run(r.fallbackUrl, r.fallbackActions)
    BY <1>4 DEF ReplayTo
  <2>2. r.fallbackUrl \in Url
    BY <1>2, <1>4 DEF ByFallback
  <2> QED
    BY <1>1, <1>2, <1>4, <2>1, <2>2, RunType DEF ByFallback
<1>5. CASE ~ByCheckpoint(h, r) /\ ~ByFallback(h, r)
  BY <1>5 DEF ReplayTo
<1> QED
  BY <1>3, <1>4, <1>5

(* A replay that fails starts from a recipe that is not sure.              *)
LEMMA ReplayMisses ==
  ASSUME Typed, Recipes, NEW h \in DOMAIN recipes, ReplayTo(h) = Lost
  PROVE  h \in doubted
<1> DEFINE r == recipes[h]
<1>1. r \in Recipe /\ h \in Hash
  BY DEF Typed
<1>2. Lost.hash = None /\ None # h
  BY <1>1, SiteFacts
<1>3. ~ByCheckpoint(h, r) /\ ~ByFallback(h, r)
  BY <1>2 DEF ReplayTo, ByCheckpoint, ByFallback
<1>4. ~r.sure
  BY <1>3 DEF Recipes, Leads
<1> QED
  BY <1>4 DEF Recipes

LEMMA PassedType ==
  ASSUME Typed, NEW h \in DOMAIN recipes
  PROVE  Passed(h) \subseteq Page \union {Lost}
<1> DEFINE r == recipes[h]
<1>1. r \in Recipe
  BY DEF Typed
<1>2. r.url \in Url /\ r.actions \in Seq(Button) /\ r.fallbackUrl \in Url \union {0}
      /\ r.fallbackActions \in Seq(Button)
  BY <1>1 DEF Recipe
<1> HIDE DEF r
<1>3. ASSUME NEW actions \in Seq(Button), NEW i \in 0 .. Len(actions), NEW url \in Url
      PROVE  Run(url, SubSeq(actions, 1, i)) \in Page \union {Lost}
  <2>1. SubSeq(actions, 1, i) \in Seq(Button)
    BY <1>3
  <2> QED
    BY <1>3, <2>1, RunType
<1>4. \A i \in 0 .. Len(r.actions) : Run(r.url, SubSeq(r.actions, 1, i)) \in Page \union {Lost}
  BY <1>2, <1>3
<1>5. r.fallbackUrl # 0 =>
        \A i \in 0 .. Len(r.fallbackActions) :
          Run(r.fallbackUrl, SubSeq(r.fallbackActions, 1, i)) \in Page \union {Lost}
  BY <1>2, <1>3
<1> QED
  BY <1>4, <1>5 DEF Passed, r

LEMMA ExploreFits ==
  ASSUME Typed, Places, NEW s \in Session, NEW h \in Hash, Explore(s, h)
  PROVE  Typed' /\ Places'
<1> DEFINE l == [at[s] EXCEPT !.pc = "info", !.source = h, !.url = urls[h],
                              !.page = ReplayTo(h)]
<1>1. /\ Becomes(s, l) /\ at[s].pc = "idle" /\ h \in DOMAIN recipes /\ ReplayTo(h) # Lost
      /\ UNCHANGED <<graph, left, history>>
  BY DEF Explore
<1>2. ReplayTo(h) \in Page /\ ReplayTo(h).hash = h /\ urls[h] \in Url
  BY <1>1, ReplayType DEF Typed
<1>3. /\ l \in Local /\ l.pc = "info" /\ l.source = h /\ l.page = ReplayTo(h)
      /\ l.action = at[s].action
  BY <1>2, LocalFields DEF Local, Pc
<1>4. at[s].action = None
  BY <1>1 DEF Places, Fits
<1> HIDE DEF l
<1>5. Fits(l, DOMAIN urls, DOMAIN recipes, Shady)
  BY <1>1, <1>2, <1>3, <1>4 DEF Fits
<1> QED
  BY <1>1, <1>3, <1>5, MovedOnly

LEMMA GetInfoFits ==
  ASSUME Typed, Places, Recipes, NEW s \in Session, GetInfo(s)
  PROVE  Typed' /\ Places'
<1> DEFINE r == recipes[at[s].source]
           l == [at[s] EXCEPT !.pc = "explore", !.info = r]
<1>1. Becomes(s, l) /\ at[s].pc = "info" /\ UNCHANGED <<graph, left, history>>
  BY DEF GetInfo
<1>2. /\ at[s].source \in DOMAIN recipes /\ at[s].action = None
      /\ at[s].page \in Page /\ at[s].page.hash = at[s].source
  BY <1>1 DEF Places, Fits
<1>3. r \in Recipe /\ Made(r) /\ Leads(at[s].source, r)
  BY <1>2 DEF Typed, Recipes
<1> HIDE DEF r
<1>4. l \in Local
  BY <1>3, LocalFields DEF Local, Pc
<1>5. /\ l.pc = "explore" /\ l.info = r /\ l.source = at[s].source /\ l.page = at[s].page
      /\ l.action = at[s].action
  BY LocalFields DEF Local
<1> HIDE DEF l
<1>6. Fits(l, DOMAIN urls, DOMAIN recipes, Shady)
  BY <1>2, <1>3, <1>5 DEF Fits
<1> QED
  BY <1>1, <1>4, <1>6, MovedOnly

LEMMA ActFits ==
  ASSUME Typed, Places, NEW s \in Session, NEW a, Act(s, a)
  PROVE  Typed' /\ Places'
<1> DEFINE l == at[s]
           page == Step(l.page, a)
           r == Offered(l, a, page)
           k == [l EXCEPT !.pc = "again"]
           m == [l EXCEPT !.pc = "again", !.page = page]
           n == [l EXCEPT !.pc = "register", !.from = l.page.hash, !.page = page,
                          !.action = a, !.target = page.hash, !.offer = r]
<1>1. /\ l.pc = "explore" /\ a \in DOMAIN Effect[l.source] /\ left[s] > 0
      /\ left' = [left EXCEPT ![s] = @ - 1]
      /\ recipes' = recipes /\ scores' = scores /\ edges' = edges /\ writer' = writer
      /\ doubted' = doubted
      /\ \/ Becomes(s, k) /\ urls' = urls
         \/ Becomes(s, m) /\ urls' = urls
         \/ page # Lost /\ Becomes(s, n) /\ urls' = With(urls, page.hash, page.url)
  BY DEF Act, history
<1>2. /\ l.source \in DOMAIN recipes /\ l.action = None
      /\ l.page = Lost \/ l.page.hash = l.source \/ l.source \in Shady
      /\ l.info \in Recipe /\ Made(l.info) /\ Leads(l.source, l.info)
  BY <1>1 DEF Places, Fits
<1>3. l.source \in Hash /\ a \in Button
  <2>1. l.source \in Hash
    BY <1>2 DEF Typed
  <2> QED
    BY <1>1, <2>1, SiteFacts
<1>4. page \in Page \union {Lost} /\ l.page \in Page \union {Lost} /\ l \in Local
  BY LocalFields, StepType
<1>5. page # Lost => /\ l.page \in Page /\ a \in DOMAIN Effect[l.page.hash]
                     /\ page \in Page /\ page.hash = Effect[l.page.hash][a].hash
  <2>1. page # Lost => l.page # Lost /\ a \in DOMAIN Effect[l.page.hash]
    BY DEF Step
  <2> QED
    BY <1>4, <2>1, StepType
<1>6. Shady' = Shady
  BY <1>1 DEF Shady
<1> HIDE DEF page
<1>7. page # Lost => r \in Recipe /\ Made(r) /\ Leads(page.hash, r)
  BY <1>2, <1>3, <1>5, OfferedGood
<1> HIDE DEF r
<1>8. left' \in [Session -> Nat] /\ \A t \in Session : left'[t] <= Actions[t]
  <2>1. /\ left \in [Session -> Nat] /\ \A t \in Session : left[t] <= Actions[t]
        /\ Actions \in [Session -> Nat]
    BY SiteFacts DEF Typed
  <2>2. left' = [left EXCEPT ![s] = left[s] - 1] /\ left[s] > 0
    BY <1>1
  <2> HIDE DEF l, k, m, n
  <2>3. left' \in [Session -> Nat]
    BY <2>1, <2>2
  <2>4. ASSUME NEW t \in Session PROVE left'[t] <= Actions[t]
    BY <2>1, <2>2
  <2> QED
    BY <2>3, <2>4
<1>9. ASSUME NEW o \in Local, Becomes(s, o), urls' = urls, o.pc = "again", o.info = l.info,
             o.source = l.source, o.action = l.action
      PROVE  Typed' /\ Places'
  <2>1. Fits(o, DOMAIN urls', DOMAIN recipes', Shady')
    BY <1>1, <1>2, <1>9 DEF Fits
  <2>2. DOMAIN urls \subseteq DOMAIN urls' /\ DOMAIN recipes \subseteq DOMAIN recipes'
        /\ doubted \subseteq doubted'
    BY <1>1, <1>9
  <2>3. at' \in [Session -> Local] /\ Places'
    BY <1>9, <2>1, <2>2, Moved
  <2> QED
    BY <1>1, <1>8, <1>9, <2>3 DEF Typed
<1>10. CASE Becomes(s, k) /\ urls' = urls
  <2>1. k \in Local
    BY <1>4 DEF Local, Pc
  <2>2. k.pc = "again" /\ k.info = l.info /\ k.source = l.source /\ k.action = l.action
    BY <1>4 DEF Local
  <2> HIDE DEF k, l
  <2> QED
    BY <1>9, <1>10, <2>1, <2>2
<1>11. CASE Becomes(s, m) /\ urls' = urls
  <2>1. m \in Local
    BY <1>4 DEF Local, Pc
  <2>2. m.pc = "again" /\ m.info = l.info /\ m.source = l.source /\ m.action = l.action
    BY <1>4 DEF Local
  <2> HIDE DEF m, l
  <2> QED
    BY <1>9, <1>11, <2>1, <2>2
<1>12. CASE page # Lost /\ Becomes(s, n) /\ urls' = With(urls, page.hash, page.url)
  <2>1. /\ page.hash \in Hash /\ page.url \in Url /\ l.page.hash \in Hash
        /\ r \in Recipe /\ Made(r) /\ Leads(page.hash, r)
        /\ a \in DOMAIN Effect[l.page.hash] /\ page.hash = Effect[l.page.hash][a].hash
        /\ l.page.hash = l.source \/ l.source \in Shady
    BY <1>2, <1>5, <1>7, <1>12, SiteFacts DEF Page
  <2>2. n \in Local
    BY <1>3, <1>4, <2>1 DEF Local, Pc
  <2>3. /\ n.pc = "register" /\ n.info = l.info /\ n.source = l.source
        /\ n.from = l.page.hash /\ n.action = a /\ n.target = page.hash /\ n.offer = r
    BY <1>4 DEF Local
  <2>4. /\ DOMAIN urls' = DOMAIN urls \union {page.hash}
        /\ urls' \in [DOMAIN urls \union {page.hash} -> Url]
    <3>1. urls \in [DOMAIN urls -> Url]
      BY DEF Typed
    <3> QED
      BY <1>12, <2>1, <3>1 DEF With
  <2> HIDE DEF n
  <2>5. Fits(n, DOMAIN urls', DOMAIN recipes', Shady')
    BY <1>1, <1>2, <1>6, <2>1, <2>3, <2>4, SiteFacts DEF Fits
  <2>6. DOMAIN urls \subseteq DOMAIN urls' /\ DOMAIN recipes \subseteq DOMAIN recipes'
        /\ doubted \subseteq doubted'
    BY <1>1, <2>4
  <2>7. at' \in [Session -> Local] /\ Places'
    BY <1>12, <2>2, <2>5, <2>6, Moved
  <2>8. DOMAIN urls' \subseteq Hash /\ DOMAIN recipes' \subseteq DOMAIN urls'
    BY <1>1, <2>1, <2>4 DEF Typed
  <2> QED
    BY <1>1, <1>8, <2>4, <2>7, <2>8 DEF Typed
<1> QED
  BY <1>1, <1>10, <1>11, <1>12

LEMMA AddedIs ==
  ASSUME Typed, Recipes, NEW h, NEW r \in Recipe, Made(r), Leads(h, r)
  PROVE  /\ Added(h, r) \in Recipe /\ Made(Added(h, r)) /\ Leads(h, Added(h, r))
         /\ Scored(h, Added(h, r), Score(h, r)) /\ Added(h, r).sure = r.sure
         /\ h \notin DOMAIN recipes \/ r.fallbackUrl # 0 => Added(h, r) = r
         /\ h \in DOMAIN recipes /\ r.fallbackUrl = 0 => Added(h, r) = Filled(r, recipes[h])
<1>1. CASE h \in DOMAIN recipes /\ r.fallbackUrl = 0
  <2>1. Added(h, r) = Filled(r, recipes[h])
    BY <1>1 DEF Added, Filled
  <2>2. recipes[h] \in Recipe /\ Made(recipes[h])
    BY <1>1 DEF Typed, Recipes
  <2> QED
    BY <1>1, <2>1, <2>2, AddedGood
<1>2. CASE ~(h \in DOMAIN recipes /\ r.fallbackUrl = 0)
  <2>1. Added(h, r) = r
    BY <1>2 DEF Added
  <2> QED
    BY <1>2, <2>1 DEF Scored, Score
<1> QED
  BY <1>1, <1>2

LEMMA NextFits ==
  ASSUME Typed, NEW s \in Session, NEW seen, NEW known, NEW shady, Fits(at[s], seen, known, shady),
         at[s].pc \in {"register", "persist"},
         NEW l, l = [at[s] EXCEPT !.pc = AfterRecipe(s)]
  PROVE  l \in Local /\ Fits(l, seen, known, shady)
<1>1. at[s] \in Local
  BY LocalFields
<1>2. AfterRecipe(s) = IF at[s].action = None THEN "idle" ELSE "find"
  BY DEF AfterRecipe
<1>3. AfterRecipe(s) \in Pc
  BY <1>2 DEF Pc
<1>4. l \in Local /\ l.pc = AfterRecipe(s)
  BY <1>1, <1>3 DEF Local
<1>5. /\ l.source = at[s].source /\ l.info = at[s].info /\ l.from = at[s].from
      /\ l.action = at[s].action /\ l.target = at[s].target
  BY <1>1 DEF Local
<1> QED
  BY <1>2, <1>4, <1>5 DEF Fits

LEMMA RegisterFits ==
  ASSUME Typed, Places, Recipes, NEW s \in Session, Register(s)
  PROVE  Typed' /\ Places'
<1> DEFINE h == at[s].target
           r == at[s].offer
           m == [at[s] EXCEPT !.pc = "persist"]
           n == [at[s] EXCEPT !.pc = AfterRecipe(s)]
<1>1. /\ at[s].pc = "register"
      /\ \/ /\ recipes' = With(recipes, h, Added(h, r)) /\ scores' = With(scores, h, Score(h, r))
            /\ writer' = With(writer, h, s) /\ Becomes(s, m)
         \/ Becomes(s, n) /\ UNCHANGED <<recipes, scores, writer>>
      /\ urls' = urls /\ edges' = edges /\ left' = left /\ doubted \subseteq doubted'
  BY DEF Register, Doubting
<1>2. /\ h \in DOMAIN urls /\ r \in Recipe /\ Made(r) /\ Leads(h, r)
      /\ Fits(at[s], DOMAIN urls, DOMAIN recipes, Shady)
  BY <1>1 DEF Places, Fits
<1>s. Shady \subseteq Shady'
  BY <1>1 DEF Shady
<1>3. CASE /\ recipes' = With(recipes, h, Added(h, r)) /\ scores' = With(scores, h, Score(h, r))
           /\ writer' = With(writer, h, s) /\ Becomes(s, m)
  <2>1. Added(h, r) \in Recipe /\ Score(h, r) \in Seq(Nat)
    BY <1>2, AddedIs, ScoreType
  <2>2. /\ DOMAIN recipes' = DOMAIN recipes \union {h}
        /\ recipes' \in [DOMAIN recipes \union {h} -> Recipe]
    <3>1. recipes \in [DOMAIN recipes -> Recipe]
      BY DEF Typed
    <3> QED
      BY <1>3, <2>1, <3>1 DEF With
  <2>3. scores' \in [DOMAIN recipes \union {h} -> Seq(Nat)]
    <3>1. scores \in [DOMAIN recipes -> Seq(Nat)]
      BY DEF Typed
    <3> QED
      BY <1>3, <2>1, <3>1 DEF With
  <2>4. writer' \in [DOMAIN recipes \union {h} -> Session]
    <3>1. writer \in [DOMAIN recipes -> Session]
      BY DEF Typed
    <3> QED
      BY <1>3, <3>1 DEF With
  <2>5. m \in Local
    BY LocalFields DEF Local, Pc
  <2>6. /\ m.pc = "persist" /\ m.info = at[s].info /\ m.source = at[s].source
        /\ m.from = at[s].from /\ m.action = at[s].action /\ m.target = h /\ m.offer = r
    BY LocalFields DEF Local
  <2> HIDE DEF m, h, r
  <2>7. Fits(m, DOMAIN urls', DOMAIN recipes', Shady')
    BY <1>1, <1>2, <1>s, <2>2, <2>6 DEF Fits, h, r
  <2>8. DOMAIN urls \subseteq DOMAIN urls' /\ DOMAIN recipes \subseteq DOMAIN recipes'
    BY <1>1, <2>2
  <2>9. at' \in [Session -> Local] /\ Places'
    BY <1>1, <1>3, <2>5, <2>7, <2>8, Moved
  <2>10. DOMAIN recipes' \subseteq DOMAIN urls'
    BY <1>1, <1>2, <2>2 DEF Typed
  <2> QED
    BY <1>1, <2>2, <2>3, <2>4, <2>9, <2>10 DEF Typed
<1>4. CASE Becomes(s, n) /\ UNCHANGED <<recipes, scores, writer>>
  <2>1. n \in Local /\ Fits(n, DOMAIN urls, DOMAIN recipes, Shady)
    BY <1>1, <1>2, NextFits
  <2>2. DOMAIN urls' = DOMAIN urls /\ DOMAIN recipes' = DOMAIN recipes
    BY <1>1, <1>4
  <2> HIDE DEF n
  <2>f. Fits(n, DOMAIN urls', DOMAIN recipes', Shady')
    BY <1>s, <2>1, <2>2, FitsMore
  <2>3. at' \in [Session -> Local] /\ Places'
    BY <1>1, <1>4, <2>1, <2>2, <2>f, Moved
  <2> QED
    BY <1>1, <1>4, <2>3 DEF Typed
<1> QED
  BY <1>1, <1>3, <1>4

LEMMA PersistFits ==
  ASSUME Typed, Places, Recipes, NEW s \in Session, Persist(s)
  PROVE  Typed' /\ Places'
<1> DEFINE h == at[s].target
           r == at[s].offer
           n == [at[s] EXCEPT !.pc = AfterRecipe(s)]
<1>1. /\ at[s].pc = "persist" /\ Becomes(s, n)
      /\ recipes' = [recipes EXCEPT ![h] = Added(h, r)]
      /\ urls' = urls /\ scores' = scores /\ edges' = edges /\ left' = left /\ writer' = writer
      /\ doubted \subseteq doubted'
  BY DEF Persist, Doubting
<1>2. /\ h \in DOMAIN recipes /\ r \in Recipe /\ Made(r) /\ Leads(h, r)
      /\ Fits(at[s], DOMAIN urls, DOMAIN recipes, Shady)
  BY <1>1 DEF Places, Fits
<1>3. Added(h, r) \in Recipe
  BY <1>2, AddedIs
<1>4. n \in Local /\ Fits(n, DOMAIN urls, DOMAIN recipes, Shady)
  BY <1>1, <1>2, NextFits
<1>5. DOMAIN recipes' = DOMAIN recipes /\ recipes' \in [DOMAIN recipes -> Recipe]
  <2>1. recipes \in [DOMAIN recipes -> Recipe]
    BY DEF Typed
  <2> QED
    BY <1>1, <1>3, <2>1
<1> HIDE DEF n
<1>f. Fits(n, DOMAIN urls', DOMAIN recipes', Shady')
  <2>1. Shady \subseteq Shady'
    BY <1>1 DEF Shady
  <2> QED
    BY <1>1, <1>4, <1>5, <2>1, FitsMore
<1>6. at' \in [Session -> Local] /\ Places'
  BY <1>1, <1>4, <1>5, <1>f, Moved
<1> QED
  BY <1>1, <1>5, <1>6 DEF Typed

LEMMA OldestIs ==
  ASSUME NEW found \in SUBSET Nat, found # {}, NEW i,
         i = CHOOSE k \in found : \A j \in found : k <= j
  PROVE  i \in found
<1>1. \E k \in found : \A j \in found : k <= j
  BY LeastNumber
<1> QED
  BY <1>1

(* Find, as the proofs refer to it.                                        *)
LEMMA FindIs ==
  ASSUME Typed, NEW s \in Session, Find(s)
  PROVE  /\ at[s].pc = "find" /\ UNCHANGED <<graph, left, history>>
         /\ \E id \in Ids \union {None} :
              /\ Becomes(s, [at[s] EXCEPT !.pc = "merge", !.overtaken = FALSE, !.found = id])
              /\ id # None => \E i \in DOMAIN edges : edges[i].id = id /\ Equivalent(edges[i], at[s])
              /\ id = None => \A i \in DOMAIN edges : ~Equivalent(edges[i], at[s])
<1> DEFINE found == {i \in DOMAIN edges : Equivalent(edges[i], at[s])}
           oldest == CHOOSE i \in found : \A j \in found : i <= j
           id == IF found = {} THEN None ELSE edges[oldest].id
<1>1. /\ at[s].pc = "find" /\ UNCHANGED <<graph, left, history>>
      /\ Becomes(s, [at[s] EXCEPT !.pc = "merge", !.overtaken = FALSE, !.found = id])
  BY DEF Find
<1>2. found \in SUBSET Nat
  BY DEF Typed
<1>3. found # {} => oldest \in found
  <2> HIDE DEF found
  <2> QED
    BY <1>2, OldestIs
<1> HIDE DEF oldest
<1>4. \A i \in DOMAIN edges : edges[i].id \in Ids
  <2>1. \A i \in DOMAIN edges : edges[i] \in Edge
    BY DEF Typed
  <2> QED
    BY <2>1 DEF Edge
<1>5. CASE found = {}
  <2>1. id = None /\ \A i \in DOMAIN edges : ~Equivalent(edges[i], at[s])
    BY <1>5
  <2> HIDE DEF id, found
  <2> QED
    BY <1>1, <2>1
<1>6. CASE found # {}
  <2>1. id = edges[oldest].id /\ oldest \in DOMAIN edges /\ Equivalent(edges[oldest], at[s])
    BY <1>3, <1>6
  <2>2. id \in Ids /\ id # None
    BY <1>4, <2>1, SiteFacts
  <2> HIDE DEF id, found
  <2> QED
    BY <1>1, <2>1, <2>2
<1> QED
  BY <1>5, <1>6

LEMMA FindFits ==
  ASSUME Typed, Places, NEW s \in Session, Find(s)
  PROVE  Typed' /\ Places'
<1>1. PICK id \in Ids \union {None} :
         Becomes(s, [at[s] EXCEPT !.pc = "merge", !.overtaken = FALSE, !.found = id])
  BY FindIs
<1> DEFINE l == [at[s] EXCEPT !.pc = "merge", !.overtaken = FALSE, !.found = id]
<1>2. at[s].pc = "find" /\ UNCHANGED <<graph, left, history>>
  BY FindIs
<1>3. l \in Local
  BY LocalFields DEF Local, Pc
<1>4. /\ l.pc = "merge" /\ l.info = at[s].info /\ l.source = at[s].source
      /\ l.from = at[s].from /\ l.action = at[s].action /\ l.target = at[s].target
  BY LocalFields DEF Local
<1>5. Fits(at[s], DOMAIN urls, DOMAIN recipes, Shady)
  BY DEF Places
<1>m. Becomes(s, l)
  BY <1>1
<1> HIDE DEF l
<1>6. Fits(l, DOMAIN urls, DOMAIN recipes, Shady)
  BY <1>2, <1>4, <1>5 DEF Fits
<1> QED
  BY <1>2, <1>3, <1>6, <1>m, MovedOnly

LEMMA LeaveFits ==
  ASSUME Typed, Places, NEW s \in Session, Leave(s)
  PROVE  Typed' /\ Places'
<1> DEFINE l == [Nowhere EXCEPT !.ref = at[s].ref]
<1>1. Becomes(s, l) /\ UNCHANGED <<graph, left, history>>
  BY DEF Leave
<1>2. l \in Local /\ Fits(l, DOMAIN urls, DOMAIN recipes, Shady)
  BY LocalFields, NowhereFits
<1> HIDE DEF l
<1> QED
  BY <1>1, <1>2, MovedOnly

(* Back from a replay, at the state or astray at one that is shady.        *)
LEMMA AgainFits ==
  ASSUME Typed, Places, NEW s \in Session, at[s].pc = "again", NEW page \in Page \union {Lost},
         page = Lost \/ page.hash = at[s].source \/ at[s].source \in Shady,
         Again(s, page), UNCHANGED <<graph, left, history>>
  PROVE  Typed' /\ Places'
<1> DEFINE l == [Nowhere EXCEPT !.ref = at[s].ref]
           m == [at[s] EXCEPT !.pc = "explore", !.page = page]
<1>1. Becomes(s, l) \/ Becomes(s, m)
  BY DEF Again
<1>2. CASE Becomes(s, l)
  <2>1. l \in Local /\ Fits(l, DOMAIN urls, DOMAIN recipes, Shady)
    BY LocalFields, NowhereFits
  <2> HIDE DEF l
  <2> QED
    BY <1>2, <2>1, MovedOnly
<1>3. CASE Becomes(s, m)
  <2>1. /\ at[s].source \in DOMAIN recipes /\ at[s].action = None
        /\ at[s].info \in Recipe /\ Made(at[s].info) /\ Leads(at[s].source, at[s].info)
    BY DEF Places, Fits
  <2>2. m \in Local
    BY LocalFields DEF Local, Pc
  <2>3. /\ m.pc = "explore" /\ m.info = at[s].info /\ m.source = at[s].source
        /\ m.page = page /\ m.action = at[s].action
    BY LocalFields DEF Local
  <2> HIDE DEF m
  <2>4. Fits(m, DOMAIN urls, DOMAIN recipes, Shady)
    BY <2>1, <2>3 DEF Fits
  <2> QED
    BY <1>3, <2>2, <2>4, MovedOnly
<1> QED
  BY <1>1, <1>2, <1>3

LEMMA ReplayAgainFits ==
  ASSUME Typed, Places, NEW s \in Session, ReplayAgain(s)
  PROVE  Typed' /\ Places'
<1>1. /\ at[s].pc = "again" /\ ReplayTo(at[s].source) # Lost
      /\ Again(s, ReplayTo(at[s].source)) /\ UNCHANGED <<graph, left, history>>
  BY DEF ReplayAgain
<1>2. at[s].source \in DOMAIN recipes
  BY <1>1 DEF Places, Fits
<1>3. ReplayTo(at[s].source) \in Page /\ ReplayTo(at[s].source).hash = at[s].source
  BY <1>1, <1>2, ReplayType
<1> QED
  BY <1>1, <1>3, AgainFits

LEMMA ReplayFailsFits ==
  ASSUME Typed, Places, Recipes, NEW s \in Session, ReplayFails(s)
  PROVE  Typed' /\ Places'
<1> DEFINE h == at[s].source
<1>1. PICK page \in Passed(h) \union {at[s].page} : Again(s, page)
  BY DEF ReplayFails
<1>2. /\ at[s].pc = "again"
      /\ ReplayTo(h) = Lost \/ h \in Flaky
      /\ UNCHANGED <<graph, left, history>>
  BY DEF ReplayFails
<1>3. h \in DOMAIN recipes
  BY <1>2 DEF Places, Fits
<1>4. page \in Page \union {Lost}
  BY <1>1, <1>3, LocalFields, PassedType
<1>5. h \in Shady
  BY <1>2, <1>3, ReplayMisses DEF Shady
<1> QED
  BY <1>1, <1>2, <1>4, <1>5, AgainFits

LEMMA FailFits ==
  ASSUME Typed, Places, NEW s \in Session, Fail(s)
  PROVE  Typed' /\ Places'
<1> DEFINE l == [Nowhere EXCEPT !.pc = "failed"]
<1>1. /\ at[s].pc \in {"register", "persist", "find", "merge"}
      /\ UNCHANGED <<graph, left, history>>
      /\ \/ at[s].action = None /\ Becomes(s, l)
         \/ at[s].action # None /\ Becomes(s, Settled(at[s]))
  BY DEF Fail
<1>2. at[s] \in Local /\ Fits(at[s], DOMAIN urls, DOMAIN recipes, Shady)
  BY LocalFields DEF Places
<1>3. CASE Becomes(s, l)
  <2>1. l \in Local /\ Fits(l, DOMAIN urls, DOMAIN recipes, Shady)
    BY <1>2, NowhereFits
  <2> HIDE DEF l
  <2> QED
    BY <1>1, <1>3, <2>1, MovedOnly
<1>4. CASE at[s].action # None /\ Becomes(s, Settled(at[s]))
  <2>1. Settled(at[s]) \in Local /\ Fits(Settled(at[s]), DOMAIN urls, DOMAIN recipes, Shady)
    BY <1>1, <1>2, <1>4, SettledFits
  <2> QED
    BY <1>1, <1>4, <2>1, MovedOnly
<1> QED
  BY <1>1, <1>3, <1>4

(* The locals that a transition is merged from.                            *)
LEMMA Merges ==
  ASSUME Typed, Places, NEW s \in Session, at[s].pc = "merge"
  PROVE  /\ at[s].action \in Button /\ at[s].action # None
         /\ at[s].source \in Hash /\ at[s].target \in Hash
         /\ at[s].from \in Hash /\ at[s].action \in DOMAIN Effect[at[s].from]
         /\ at[s].target = Effect[at[s].from][at[s].action].hash
         /\ at[s].from = at[s].source \/ at[s].source \in Shady
         /\ Id(at[s]) \in Ids /\ Id(at[s])[1] = at[s].source /\ Id(at[s])[2] = at[s].target
         /\ NewEdge(at[s]) \in Edge
<1> DEFINE l == at[s]
<1>1. /\ l.action # None /\ l.source \in DOMAIN recipes
      /\ l.from \in Hash /\ l.action \in DOMAIN Effect[l.from]
      /\ l.target = Effect[l.from][l.action].hash
      /\ l.from = l.source \/ l.source \in Shady
  BY DEF Places, Fits
<1>2. l.source \in Hash
  BY <1>1 DEF Typed
<1>3. l.action \in Button /\ l.target \in Hash /\ l.action.key \in Key
      /\ l.action.locator \in Locator
  BY <1>1, <1>2, SiteFacts
<1> HIDE DEF l
<1>4. Id(l) \in Ids /\ Id(l)[1] = l.source /\ Id(l)[2] = l.target
  BY <1>2, <1>3 DEF Id, Ids
<1>5. NewEdge(l) \in Edge
  BY <1>2, <1>3, <1>4 DEF NewEdge, Edge
<1> QED
  BY <1>1, <1>2, <1>3, <1>4, <1>5 DEF l

LEMMA ReturnFits ==
  ASSUME Typed, Places, NEW s \in Session, at[s].pc = "merge", NEW id \in Ids, Return(s, id),
         UNCHANGED <<urls, recipes, doubted>>
  PROVE  /\ at' \in [Session -> Local] /\ Places'
         /\ at'[s].pc = "again"
         /\ at'[s].ref = [id |-> id, source |-> at[s].source, target |-> at[s].target]
         /\ \A t \in Session : t # s =>
              /\ at'[t].pc = at[t].pc /\ at'[t].ref = at[t].ref
              /\ at'[t].source = at[t].source /\ at'[t].target = at[t].target
              /\ at'[t].found = at[t].found /\ at'[t].offer = at[t].offer
              /\ at'[t].pc = "merge" => at'[t].overtaken
<1> DEFINE ref == [id |-> id, source |-> at[s].source, target |-> at[s].target]
           l == [Settled(at[s]) EXCEPT !.ref = ref]
           o(t) == [at[t] EXCEPT !.overtaken = @ \/ at[t].pc = "merge"]
<1>1. at' = [t \in Session |-> IF t = s THEN l ELSE o(t)]
  BY DEF Return
<1>2. ref \in Ref
  BY Merges DEF Ref
<1>3. /\ Settled(at[s]) \in Local /\ Fits(Settled(at[s]), DOMAIN urls, DOMAIN recipes, Shady)
      /\ Settled(at[s]).pc = "again"
  BY LocalFields, Merges, SettledFits DEF Places
<1> HIDE DEF ref
<1>4. /\ l \in Local /\ l.pc = "again" /\ l.ref = ref
      /\ l.source = Settled(at[s]).source /\ l.info = Settled(at[s]).info
      /\ l.action = Settled(at[s]).action
  BY <1>2, <1>3 DEF Local
<1> HIDE DEF l
<1>5. Fits(l, DOMAIN urls, DOMAIN recipes, Shady)
  BY <1>3, <1>4 DEF Fits
<1>6. ASSUME NEW t \in Session
      PROVE  /\ o(t) \in Local /\ Fits(o(t), DOMAIN urls, DOMAIN recipes, Shady)
             /\ o(t).pc = at[t].pc /\ o(t).ref = at[t].ref
             /\ o(t).source = at[t].source /\ o(t).target = at[t].target
             /\ o(t).found = at[t].found /\ o(t).offer = at[t].offer
             /\ o(t).pc = "merge" => o(t).overtaken
  <2>1. at[t] \in Local /\ Fits(at[t], DOMAIN urls, DOMAIN recipes, Shady)
    BY LocalFields DEF Places
  <2> DEFINE over == at[t].overtaken \/ at[t].pc = "merge"
             m == [at[t] EXCEPT !.overtaken = over]
  <2>2. over \in BOOLEAN /\ (at[t].pc = "merge" => over)
    BY LocalFields
  <2> HIDE DEF over
  <2>3. /\ m \in Local /\ m.pc = at[t].pc /\ m.ref = at[t].ref
        /\ m.source = at[t].source /\ m.target = at[t].target
        /\ m.found = at[t].found /\ m.offer = at[t].offer
        /\ m.info = at[t].info /\ m.page = at[t].page /\ m.action = at[t].action
        /\ m.from = at[t].from
    BY <2>1, <2>2 DEF Local
  <2>4. m.overtaken = over
    BY <2>1 DEF Local
  <2> HIDE DEF m
  <2>5. Fits(m, DOMAIN urls, DOMAIN recipes, Shady)
    BY <2>1, <2>3 DEF Fits
  <2>6. m.pc = "merge" => m.overtaken
    BY <2>2, <2>3, <2>4
  <2> QED
    BY <2>3, <2>5, <2>6 DEF m, over
<1> HIDE DEF o
<1>7. at' \in [Session -> Local]
  BY <1>1, <1>4, <1>6
<1>8. Places'
  <2>1. urls' = urls /\ recipes' = recipes /\ Shady' = Shady
    BY DEF Shady
  <2>2. \A t \in Session : Fits(at'[t], DOMAIN urls', DOMAIN recipes', Shady')
    BY <1>1, <1>5, <1>6, <2>1
  <2> QED
    BY <2>2 DEF Places
<1>9. at'[s] = l /\ \A t \in Session : t # s => at'[t] = o(t)
  BY <1>1
<1> QED
  BY <1>4, <1>6, <1>7, <1>8, <1>9 DEF ref

(* What an update leaves, and what it changes.                             *)
LEMMA UpdatedIs ==
  ASSUME edges \in Seq(Edge), NEW id, NEW l, l.action \in Button
  PROVE  /\ Updated(id, l) \in Seq(Edge) /\ DOMAIN Updated(id, l) = DOMAIN edges
         /\ \A i \in DOMAIN edges :
              /\ Updated(id, l)[i].id = edges[i].id
              /\ Updated(id, l)[i].source = edges[i].source
              /\ Updated(id, l)[i].target = edges[i].target
              /\ edges[i].id = id => Updated(id, l)[i].key = l.action.key
                                     /\ Updated(id, l)[i].locator = l.action.locator
              /\ edges[i].id # id => Updated(id, l)[i] = edges[i]
<1> DEFINE new(i) == IF edges[i].id = id
                     THEN [edges[i] EXCEPT !.key = l.action.key, !.locator = l.action.locator]
                     ELSE edges[i]
<1>1. l.action.key \in Key /\ l.action.locator \in Locator
  BY SiteFacts
<1>2. ASSUME NEW i \in DOMAIN edges
      PROVE  /\ new(i) \in Edge
             /\ new(i).id = edges[i].id /\ new(i).source = edges[i].source
             /\ new(i).target = edges[i].target
             /\ edges[i].id = id => new(i).key = l.action.key
                                    /\ new(i).locator = l.action.locator
             /\ edges[i].id # id => new(i) = edges[i]
  <2>1. edges[i] \in Edge
    OBVIOUS
  <2> QED
    BY <1>1, <2>1 DEF Edge
<1>3. Updated(id, l) = [i \in DOMAIN edges |-> new(i)]
  BY DEF Updated
<1> HIDE DEF new
<1>4. DOMAIN edges = 1 .. Len(edges) /\ Len(edges) \in Nat
  OBVIOUS
<1>5. Updated(id, l) \in Seq(Edge)
  BY <1>2, <1>3, <1>4
<1> QED
  BY <1>2, <1>3, <1>5

LEMMA UpdateFoundFits ==
  ASSUME Typed, Places, NEW s \in Session, UpdateFound(s)
  PROVE  Typed' /\ Places'
<1>1. /\ at[s].pc = "merge" /\ at[s].found # None /\ edges' = Updated(at[s].found, at[s])
      /\ Return(s, at[s].found)
      /\ UNCHANGED <<urls, recipes, scores, left, writer, doubted>>
  BY DEF UpdateFound
<1>2. edges' \in Seq(Edge)
  BY <1>1, Merges, UpdatedIs DEF Typed
<1>3. at[s].found \in Ids
  BY <1>1, LocalFields
<1>4. at' \in [Session -> Local] /\ Places'
  BY <1>1, <1>3, ReturnFits
<1> QED
  BY <1>1, <1>2, <1>4 DEF Typed

LEMMA MergeOwnFits ==
  ASSUME Typed, Places, NEW s \in Session, MergeOwn(s)
  PROVE  Typed' /\ Places'
<1>1. /\ at[s].pc = "merge"
      /\ edges' = Updated(Id(at[s]), at[s]) \/ edges' = Append(edges, NewEdge(at[s]))
      /\ Return(s, Id(at[s]))
      /\ UNCHANGED <<urls, recipes, scores, left, writer, doubted>>
  BY DEF MergeOwn
<1>2. /\ at[s].action \in Button /\ NewEdge(at[s]) \in Edge /\ Id(at[s]) \in Ids
      /\ edges \in Seq(Edge)
  BY <1>1, Merges DEF Typed
<1>3. edges' \in Seq(Edge)
  <2>1. Append(edges, NewEdge(at[s])) \in Seq(Edge)
    BY <1>2
  <2>2. Updated(Id(at[s]), at[s]) \in Seq(Edge)
    BY <1>2, UpdatedIs
  <2> QED
    BY <1>1, <2>1, <2>2
<1>4. at' \in [Session -> Local] /\ Places'
  BY <1>1, <1>2, ReturnFits
<1> QED
  BY <1>1, <1>3, <1>4 DEF Typed

-----------------------------------------------------------------------------
(* Transitions.                                                            *)

LEMMA EdgesStay ==
  ASSUME Edges, Finds, UNCHANGED <<edges, drifted, late, origin>>, doubted \subseteq doubted',
         \A t \in Session : at'[t].ref \in {at[t].ref, None},
         \A t \in Session : at'[t].pc = "merge" => at'[t] = at[t]
  PROVE  Edges' /\ Finds'
<1>1. edges' = edges /\ drifted' = drifted /\ late' = late /\ origin' = origin
  OBVIOUS
<1>2. RefsResolve'
  BY <1>1 DEF Edges, RefsResolve
<1>3. NoTwins'
  BY <1>1 DEF Edges, NoTwins
<1>e. \A i \in DOMAIN edges : Happened(edges[i], origin[edges[i].id], Shady) =>
        Happened(edges[i], origin[edges[i].id], Shady')
  BY <1>1 DEF Happened, Shady
<1>4. Edges'
  BY <1>1, <1>2, <1>3, <1>e DEF Edges
<1>5. ASSUME NEW t \in Session, at'[t].pc = "merge"
      PROVE  /\ at'[t].found # None => Stored(edges', at'[t].found, at'[t].source, at'[t].target)
             /\ at'[t].found = None /\ ~at'[t].overtaken =>
                  \A i \in DOMAIN edges' : ~Equivalent(edges'[i], at'[t])
  BY <1>1, <1>5 DEF Finds
<1>6. Finds'
  BY <1>5 DEF Finds
<1> QED
  BY <1>4, <1>6

LEMMA FindEdges ==
  ASSUME Typed, Edges, Finds, NEW s \in Session, Find(s)
  PROVE  Edges' /\ Finds'
<1>1. PICK id \in Ids \union {None} :
        /\ Becomes(s, [at[s] EXCEPT !.pc = "merge", !.overtaken = FALSE, !.found = id])
        /\ id # None => \E i \in DOMAIN edges : edges[i].id = id /\ Equivalent(edges[i], at[s])
        /\ id = None => \A i \in DOMAIN edges : ~Equivalent(edges[i], at[s])
  BY FindIs
<1> DEFINE l == [at[s] EXCEPT !.pc = "merge", !.overtaken = FALSE, !.found = id]
<1>2. edges' = edges /\ drifted' = drifted /\ late' = late /\ origin' = origin
      /\ doubted' = doubted
  BY FindIs DEF graph, history
<1>3. /\ l.found = id /\ l.source = at[s].source /\ l.target = at[s].target
      /\ l.action = at[s].action /\ l.ref = at[s].ref
  BY LocalFields DEF Local
<1>4. at'[s] = l /\ \A t \in Session : t # s => at'[t] = at[t]
  BY <1>1 DEF Becomes, Typed
<1> HIDE DEF l
<1>5. RefsResolve'
  BY <1>2, <1>3, <1>4 DEF Edges, RefsResolve
<1>6. NoTwins'
  BY <1>2 DEF Edges, NoTwins
<1>7. Edges'
  BY <1>2, <1>5, <1>6 DEF Edges, Happened, Shady
<1>8. ASSUME NEW t \in Session, at'[t].pc = "merge"
      PROVE  /\ at'[t].found # None => Stored(edges', at'[t].found, at'[t].source, at'[t].target)
             /\ at'[t].found = None /\ ~at'[t].overtaken =>
                  \A i \in DOMAIN edges' : ~Equivalent(edges'[i], at'[t])
  <2>1. CASE t # s
    BY <1>2, <1>4, <1>8, <2>1 DEF Finds
  <2>2. CASE t = s
    <3>1. id # None => Stored(edges, id, l.source, l.target)
      BY <1>1, <1>3 DEF Stored, Equivalent
    <3>2. id = None => \A i \in DOMAIN edges : ~Equivalent(edges[i], l)
      BY <1>1, <1>3 DEF Equivalent
    <3> QED
      BY <1>2, <1>3, <1>4, <2>2, <3>1, <3>2
  <2> QED
    BY <2>1, <2>2
<1>9. Finds'
  BY <1>8 DEF Finds
<1> QED
  BY <1>7, <1>9

(* A transition that is stored stays under its identifier.                 *)
LEMMA StoredStays ==
  ASSUME NEW es, NEW after, DOMAIN es \subseteq DOMAIN after,
         \A i \in DOMAIN es : /\ after[i].id = es[i].id /\ after[i].source = es[i].source
                              /\ after[i].target = es[i].target,
         NEW id, NEW source, NEW target, Stored(es, id, source, target)
  PROVE  Stored(after, id, source, target)
<1>1. PICK i \in DOMAIN es : es[i].id = id /\ es[i].source = source /\ es[i].target = target
  BY DEF Stored
<1>2. i \in DOMAIN after /\ after[i].id = id /\ after[i].source = source /\ after[i].target = target
  BY <1>1
<1> QED
  BY <1>2 DEF Stored

(* What the return of an identifier leaves to show.                        *)
LEMMA Returned ==
  ASSUME Typed, Places, Edges, Finds, NEW s \in Session, at[s].pc = "merge",
         NEW id \in Ids, Return(s, id), UNCHANGED <<urls, recipes, doubted>>,
         DOMAIN edges \subseteq DOMAIN edges',
         \A i \in DOMAIN edges :
           /\ edges'[i].id = edges[i].id /\ edges'[i].source = edges[i].source
           /\ edges'[i].target = edges[i].target,
         Stored(edges', id, at[s].source, at[s].target)
  PROVE  RefsResolve' /\ Finds'
<1>1. /\ at'[s].pc = "again"
      /\ at'[s].ref = [id |-> id, source |-> at[s].source, target |-> at[s].target]
      /\ \A t \in Session : t # s =>
           /\ at'[t].pc = at[t].pc /\ at'[t].ref = at[t].ref
           /\ at'[t].source = at[t].source /\ at'[t].target = at[t].target
           /\ at'[t].found = at[t].found
           /\ at'[t].pc = "merge" => at'[t].overtaken
  BY ReturnFits
<1>2. ASSUME NEW t \in Session, at'[t].ref # None
      PROVE  Stored(edges', at'[t].ref.id, at'[t].ref.source, at'[t].ref.target)
  <2>1. CASE t = s
    BY <1>1, <2>1
  <2>2. CASE t # s
    <3>1. at'[t].ref = at[t].ref
      BY <1>1, <2>2
    <3>2. Stored(edges, at[t].ref.id, at[t].ref.source, at[t].ref.target)
      BY <1>2, <3>1 DEF Edges, RefsResolve, Stored
    <3> QED
      BY <3>1, <3>2, StoredStays
  <2> QED
    BY <2>1, <2>2
<1>3. RefsResolve'
  BY <1>2 DEF RefsResolve, Stored
<1>4. ASSUME NEW t \in Session, at'[t].pc = "merge"
      PROVE  /\ at'[t].found # None => Stored(edges', at'[t].found, at'[t].source, at'[t].target)
             /\ at'[t].found = None /\ ~at'[t].overtaken =>
                  \A i \in DOMAIN edges' : ~Equivalent(edges'[i], at'[t])
  <2>1. t # s
    BY <1>1, <1>4
  <2>2. /\ at[t].pc = "merge" /\ at'[t].overtaken /\ at'[t].found = at[t].found
        /\ at'[t].source = at[t].source /\ at'[t].target = at[t].target
    BY <1>1, <1>4, <2>1
  <2>3. at[t].found # None => Stored(edges, at[t].found, at[t].source, at[t].target)
    BY <2>2 DEF Finds
  <2>4. at[t].found # None => Stored(edges', at[t].found, at[t].source, at[t].target)
    BY <2>3, StoredStays
  <2> QED
    BY <2>2, <2>4
<1>5. Finds'
  BY <1>4 DEF Finds
<1> QED
  BY <1>3, <1>5

LEMMA UpdateEdges ==
  ASSUME Typed, Places, Edges, Finds, NEW s \in Session, at[s].pc = "merge", NEW id \in Ids,
         edges' = Updated(id, at[s]), Return(s, id),
         UNCHANGED <<urls, recipes, doubted>>, origin' = With(origin, id, at[s].from),
         drifted' = IF edges' = edges THEN drifted ELSE drifted \union {id}, late' = late,
         Stored(edges, id, at[s].source, at[s].target)
  PROVE  Edges' /\ Finds'
<1> DEFINE l == at[s]
<1>1. /\ l.action \in Button /\ l.source \in Hash /\ l.action \in DOMAIN Effect[l.from]
      /\ l.target = Effect[l.from][l.action].hash /\ l.from \in Hash
      /\ l.from = l.source \/ l.source \in Shady
  BY Merges
<1>2. edges \in Seq(Edge)
  BY DEF Typed
<1>3. /\ DOMAIN edges' = DOMAIN edges
      /\ \A i \in DOMAIN edges :
           /\ edges'[i].id = edges[i].id
           /\ edges'[i].source = edges[i].source
           /\ edges'[i].target = edges[i].target
           /\ edges[i].id = id => edges'[i].key = l.action.key
                                  /\ edges'[i].locator = l.action.locator
           /\ edges[i].id # id => edges'[i] = edges[i]
  BY <1>1, <1>2, UpdatedIs
<1>4. RefsResolve' /\ Finds'
  <2>1. Stored(edges', id, at[s].source, at[s].target)
    BY <1>3, StoredStays
  <2> QED
    BY <1>3, <2>1, Returned
<1>5. \A i, j \in DOMAIN edges' : edges'[i].id = edges'[j].id => i = j
  BY <1>3 DEF Edges
<1>o. /\ DOMAIN origin' = DOMAIN origin \union {id} /\ origin'[id] = l.from
      /\ Shady' = Shady
  BY DEF With, Shady
<1>6. ASSUME NEW i \in DOMAIN edges'
      PROVE  /\ edges'[i].id \in DOMAIN origin' /\ Happened(edges'[i], origin'[edges'[i].id], Shady')
             /\ edges'[i].id[1] = edges'[i].source /\ edges'[i].id[2] = edges'[i].target
  <2>1. /\ i \in DOMAIN edges /\ edges[i].id \in DOMAIN origin
        /\ Happened(edges[i], origin[edges[i].id], Shady)
        /\ edges[i].id[1] = edges[i].source /\ edges[i].id[2] = edges[i].target
    BY <1>3 DEF Edges
  <2>2. CASE edges[i].id # id
    <3>1. edges'[i] = edges[i] /\ origin'[edges[i].id] = origin[edges[i].id]
      BY <1>3, <2>1, <2>2 DEF With
    <3> QED
      BY <1>o, <2>1, <3>1 DEF Happened
  <2>3. CASE edges[i].id = id
    <3>1. PICK k \in DOMAIN edges :
            edges[k].id = id /\ edges[k].source = l.source /\ edges[k].target = l.target
      BY DEF Stored
    <3>2. k = i
      BY <2>1, <2>3, <3>1 DEF Edges
    <3>3. [key |-> edges'[i].key, locator |-> edges'[i].locator] = l.action
      <4>1. edges'[i].key = l.action.key /\ edges'[i].locator = l.action.locator
        BY <1>3, <2>1, <2>3
      <4>2. l.action = [key |-> l.action.key, locator |-> l.action.locator]
        BY <1>1, SiteFacts
      <4> QED
        BY <4>1, <4>2
    <3>4. edges'[i].source = l.source /\ edges'[i].target = l.target
      BY <1>3, <2>1, <3>1, <3>2
    <3>5. edges'[i].id = id /\ id \in DOMAIN origin' /\ origin'[id] = l.from
      BY <1>3, <1>o, <2>1, <2>3
    <3>6. Happened(edges'[i], l.from, Shady')
      BY <1>1, <1>o, <3>3, <3>4 DEF Happened
    <3> QED
      BY <1>3, <2>1, <3>5, <3>6
  <2> QED
    BY <2>2, <2>3
<1>7. NoTwins'
  <2> SUFFICES ASSUME NEW i \in DOMAIN edges', NEW j \in DOMAIN edges', i < j,
                      edges'[i].source = edges'[j].source, edges'[i].target = edges'[j].target,
                      \/ edges'[i].key = edges'[j].key
                      \/ edges'[i].locator = edges'[j].locator
               PROVE  {edges'[i].id, edges'[j].id} \intersect (late' \union drifted') # {}
    BY DEF NoTwins
  <2>1. i \in DOMAIN edges /\ j \in DOMAIN edges
    BY <1>3
  <2>2. CASE edges'[i] = edges[i] /\ edges'[j] = edges[j]
    <3>1. {edges[i].id, edges[j].id} \intersect (late \union drifted) # {}
      BY <2>1, <2>2 DEF Edges, NoTwins
    <3>2. late' = late /\ drifted \subseteq drifted'
      OBVIOUS
    <3> QED
      BY <2>2, <3>1, <3>2
  <2>3. CASE ~(edges'[i] = edges[i] /\ edges'[j] = edges[j])
    <3>1. edges' # edges
      BY <2>3
    <3>2. drifted' = drifted \union {id}
      BY <3>1
    <3>3. edges[i].id = id \/ edges[j].id = id
      BY <1>3, <2>1, <2>3
    <3>4. edges'[i].id = id \/ edges'[j].id = id
      BY <1>3, <2>1, <3>3
    <3> QED
      BY <3>2, <3>4
  <2> QED
    BY <2>2, <2>3
<1> QED
  BY <1>4, <1>5, <1>6, <1>7 DEF Edges

LEMMA AppendEdges ==
  ASSUME Typed, Places, Edges, Finds, NEW s \in Session, at[s].pc = "merge", at[s].found = None,
         edges' = Append(edges, NewEdge(at[s])), Return(s, Id(at[s])),
         UNCHANGED <<urls, recipes, doubted, drifted>>, origin' = With(origin, Id(at[s]), at[s].from),
         \A i \in DOMAIN edges : edges[i].id # Id(at[s]),
         late' = IF at[s].overtaken THEN late \union {Id(at[s])} ELSE late
  PROVE  Edges' /\ Finds'
<1> DEFINE l == at[s]
           n == Len(edges) + 1
<1>1. /\ l.action \in Button /\ l.source \in Hash /\ l.action \in DOMAIN Effect[l.from]
      /\ l.target = Effect[l.from][l.action].hash /\ l.from \in Hash
      /\ l.from = l.source \/ l.source \in Shady
      /\ Id(l) \in Ids /\ Id(l)[1] = l.source /\ Id(l)[2] = l.target /\ NewEdge(l) \in Edge
  BY Merges
<1>2. /\ DOMAIN edges' = DOMAIN edges \union {n} /\ n \notin DOMAIN edges
      /\ \A i \in DOMAIN edges : edges'[i] = edges[i] /\ i < n /\ i \in Nat
      /\ edges'[n] = NewEdge(l) /\ n \in Nat
  <2>1. edges \in Seq(Edge)
    BY DEF Typed
  <2> HIDE DEF l
  <2> QED
    BY <1>1, <2>1 DEF l
<1> HIDE DEF n
<1>3. /\ NewEdge(l).id = Id(l) /\ NewEdge(l).source = l.source /\ NewEdge(l).target = l.target
      /\ NewEdge(l).key = l.action.key /\ NewEdge(l).locator = l.action.locator
  BY DEF NewEdge
<1> HIDE DEF l
<1>4. RefsResolve' /\ Finds'
  <2>1. Stored(edges', Id(l), l.source, l.target)
    BY <1>2, <1>3 DEF Stored
  <2>2. /\ DOMAIN edges \subseteq DOMAIN edges'
        /\ \A i \in DOMAIN edges :
             /\ edges'[i].id = edges[i].id /\ edges'[i].source = edges[i].source
             /\ edges'[i].target = edges[i].target
        /\ UNCHANGED <<urls, recipes, doubted>>
    BY <1>2
  <2> QED
    BY <1>1, <2>1, <2>2, Returned DEF l
<1>5. \A i, j \in DOMAIN edges' : edges'[i].id = edges'[j].id => i = j
  <2>1. \A i \in DOMAIN edges : edges[i].id # Id(l)
    BY DEF l
  <2> QED
    BY <1>2, <1>3, <2>1 DEF Edges
<1>o. /\ DOMAIN origin' = DOMAIN origin \union {Id(l)} /\ origin'[Id(l)] = l.from
      /\ Shady' = Shady
  BY DEF With, Shady, l
<1>6. ASSUME NEW i \in DOMAIN edges'
      PROVE  /\ edges'[i].id \in DOMAIN origin' /\ Happened(edges'[i], origin'[edges'[i].id], Shady')
             /\ edges'[i].id[1] = edges'[i].source /\ edges'[i].id[2] = edges'[i].target
  <2>1. CASE i \in DOMAIN edges
    <3>1. /\ edges'[i] = edges[i] /\ edges[i].id \in DOMAIN origin
          /\ Happened(edges[i], origin[edges[i].id], Shady)
          /\ edges[i].id[1] = edges[i].source /\ edges[i].id[2] = edges[i].target
      BY <1>2, <2>1 DEF Edges
    <3>2. edges[i].id # Id(l)
      BY <2>1 DEF l
    <3>3. origin'[edges[i].id] = origin[edges[i].id]
      BY <3>1, <3>2 DEF With, l
    <3> QED
      BY <1>o, <3>1, <3>3 DEF Happened
  <2>2. CASE i = n
    <3>1. l.action = [key |-> l.action.key, locator |-> l.action.locator]
      BY <1>1, SiteFacts
    <3>2. edges'[i].id = Id(l) /\ Id(l) \in DOMAIN origin' /\ origin'[Id(l)] = l.from
      BY <1>2, <1>3, <1>o, <2>2
    <3>3. Happened(edges'[i], l.from, Shady')
      BY <1>1, <1>2, <1>3, <1>o, <2>2, <3>1 DEF Happened
    <3> QED
      BY <1>1, <1>2, <1>3, <2>2, <3>2, <3>3
  <2> QED
    BY <1>2, <2>1, <2>2
<1>7. NoTwins'
  <2> SUFFICES ASSUME NEW i \in DOMAIN edges', NEW j \in DOMAIN edges', i < j,
                      edges'[i].source = edges'[j].source, edges'[i].target = edges'[j].target,
                      \/ edges'[i].key = edges'[j].key
                      \/ edges'[i].locator = edges'[j].locator
               PROVE  {edges'[i].id, edges'[j].id} \intersect (late' \union drifted') # {}
    BY DEF NoTwins
  <2>l. late \subseteq late' /\ drifted' = drifted
    OBVIOUS
  <2>1. CASE j \in DOMAIN edges
    <3>1. i \in DOMAIN edges
      BY <1>2, <2>1
    <3>2. {edges[i].id, edges[j].id} \intersect (late \union drifted) # {}
      BY <1>2, <2>1, <3>1 DEF Edges, NoTwins
    <3> QED
      BY <1>2, <2>1, <2>l, <3>1, <3>2
  <2>2. CASE j = n
    <3>1. i \in DOMAIN edges /\ edges'[i] = edges[i]
      BY <1>2, <2>2
    <3>2. Equivalent(edges[i], l)
      BY <1>2, <1>3, <2>2, <3>1 DEF Equivalent
    <3>3. l.overtaken
      BY <3>1, <3>2 DEF Finds, l
    <3>4. Id(l) \in late'
      BY <3>3 DEF l
    <3>5. edges'[j].id = Id(l)
      BY <1>2, <1>3, <2>2
    <3> QED
      BY <3>4, <3>5
  <2> QED
    BY <1>2, <2>1, <2>2
<1> QED
  BY <1>4, <1>5, <1>6, <1>7 DEF Edges

LEMMA UpdateFoundEdges ==
  ASSUME Typed, Places, Edges, Finds, NEW s \in Session, UpdateFound(s)
  PROVE  Edges' /\ Finds'
<1>1. /\ at[s].pc = "merge" /\ at[s].found # None /\ edges' = Updated(at[s].found, at[s])
      /\ Return(s, at[s].found) /\ UNCHANGED <<urls, recipes, doubted>>
      /\ origin' = With(origin, at[s].found, at[s].from)
      /\ drifted' = IF edges' = edges THEN drifted ELSE drifted \union {at[s].found}
      /\ late' = late
  BY DEF UpdateFound
<1>2. at[s].found \in Ids
  BY <1>1, LocalFields
<1>3. Stored(edges, at[s].found, at[s].source, at[s].target)
  BY <1>1 DEF Finds
<1> QED
  BY <1>1, <1>2, <1>3, UpdateEdges

LEMMA MergeOwnEdges ==
  ASSUME Typed, Places, Edges, Finds, NEW s \in Session, MergeOwn(s)
  PROVE  Edges' /\ Finds'
<1> DEFINE l == at[s]
           known == \E i \in DOMAIN edges : edges[i].id = Id(l)
<1>1. /\ l.pc = "merge" /\ l.found = None /\ Return(s, Id(l))
      /\ UNCHANGED <<urls, recipes, doubted>> /\ origin' = With(origin, Id(l), l.from)
      /\ known => /\ edges' = Updated(Id(l), l) /\ late' = late
                  /\ drifted' = IF edges' = edges THEN drifted ELSE drifted \union {Id(l)}
      /\ ~known => /\ edges' = Append(edges, NewEdge(l)) /\ drifted' = drifted
                   /\ late' = IF l.overtaken THEN late \union {Id(l)} ELSE late
  BY DEF MergeOwn
<1>2. Id(l) \in Ids /\ Id(l)[1] = l.source /\ Id(l)[2] = l.target
  BY <1>1, Merges
<1>3. CASE known
  <2>1. PICK i \in DOMAIN edges : edges[i].id = Id(l)
    BY <1>3
  <2>2. Stored(edges, Id(l), l.source, l.target)
    BY <1>2, <2>1 DEF Edges, Stored
  <2> QED
    BY <1>1, <1>2, <1>3, <2>2, UpdateEdges
<1>4. CASE ~known
  <2>1. \A i \in DOMAIN edges : edges[i].id # Id(l)
    BY <1>4
  <2> QED
    BY <1>1, <1>4, <2>1, AppendEdges
<1> QED
  BY <1>3, <1>4

(* The steps that leave the transitions alone.                             *)
LEMMA QuietMoves ==
  ASSUME Typed, NEW s \in Session,
         \/ Seed(s) \/ GetInfo(s) \/ Register(s) \/ Persist(s) \/ ReplayAgain(s)
         \/ ReplayFails(s) \/ Leave(s) \/ Fail(s)
         \/ \E h \in Hash : Explore(s, h)
         \/ \E a \in UNION {DOMAIN Effect[h] : h \in Hash} : Act(s, a)
  PROVE  /\ \A t \in Session : t # s => at'[t] = at[t]
         /\ at'[s].ref \in {at[s].ref, None} /\ at'[s].pc # "merge"
         /\ at'[s].pc = "persist" => Register(s)
         /\ UNCHANGED <<edges, drifted, late, origin>> /\ doubted \subseteq doubted'
<1> DEFINE Quiet(l) == /\ l.ref \in {at[s].ref, None} /\ l.pc # "merge"
                       /\ l.pc = "persist" => Register(s)
<1>l. at[s] \in Local /\ AfterRecipe(s) \in {"idle", "find"}
  BY LocalFields DEF AfterRecipe
<1>1. ASSUME NEW l, Becomes(s, l), Quiet(l), UNCHANGED <<edges, drifted, late, origin>>
      PROVE  /\ \A t \in Session : t # s => at'[t] = at[t]
             /\ Quiet(at'[s]) /\ UNCHANGED <<edges, drifted, late, origin>>
  BY <1>1 DEF Becomes, Typed
<1>2. \E l : Becomes(s, l) /\ Quiet(l) /\ UNCHANGED <<edges, drifted, late, origin>>
  <2>1. CASE Seed(s)
    <3> DEFINE l == [at[s] EXCEPT !.pc = "register", !.target = Load[Base],
                                  !.offer = InitialRecipe([url |-> Base, hash |-> Load[Base]])]
    <3>1. Becomes(s, l) /\ UNCHANGED <<edges, drifted, late, origin>>
      BY <2>1 DEF Seed, history
    <3>2. l.pc = "register" /\ l.ref = at[s].ref
      BY <1>l DEF Local
    <3> QED
      BY <3>1, <3>2
  <2>2. CASE GetInfo(s)
    <3> DEFINE l == [at[s] EXCEPT !.pc = "explore", !.info = recipes[at[s].source]]
    <3>1. Becomes(s, l) /\ UNCHANGED <<edges, drifted, late, origin>>
      BY <2>2 DEF GetInfo, graph, history
    <3>2. l.pc = "explore" /\ l.ref = at[s].ref
      BY <1>l DEF Local
    <3> QED
      BY <3>1, <3>2
  <2>3. CASE Register(s)
    <3> DEFINE l == [at[s] EXCEPT !.pc = "persist"]
               m == [at[s] EXCEPT !.pc = AfterRecipe(s)]
    <3>1. (Becomes(s, l) \/ Becomes(s, m)) /\ UNCHANGED <<edges, drifted, late, origin>>
      BY <2>3 DEF Register
    <3>2. /\ l.pc = "persist" /\ l.ref = at[s].ref
          /\ m.pc = AfterRecipe(s) /\ m.ref = at[s].ref
      BY <1>l DEF Local
    <3> HIDE DEF l, m
    <3> QED
      BY <1>l, <2>3, <3>1, <3>2
  <2>4. CASE Persist(s)
    <3> DEFINE m == [at[s] EXCEPT !.pc = AfterRecipe(s)]
    <3>1. Becomes(s, m) /\ UNCHANGED <<edges, drifted, late, origin>>
      BY <2>4 DEF Persist
    <3>2. m.pc = AfterRecipe(s) /\ m.ref = at[s].ref
      BY <1>l DEF Local
    <3> HIDE DEF m
    <3> QED
      BY <1>l, <3>1, <3>2
  <2>5. CASE ReplayAgain(s) \/ ReplayFails(s)
    <3>1. PICK page : Again(s, page)
      BY <2>5 DEF ReplayAgain, ReplayFails
    <3> DEFINE l == [at[s] EXCEPT !.pc = "explore", !.page = page]
               m == [Nowhere EXCEPT !.ref = at[s].ref]
    <3>2. (Becomes(s, l) \/ Becomes(s, m)) /\ UNCHANGED <<edges, drifted, late, origin>>
      BY <2>5, <3>1 DEF Again, ReplayAgain, ReplayFails, graph, history
    <3>3. l.pc = "explore" /\ l.ref = at[s].ref
      BY <1>l DEF Local
    <3>4. m.pc = "idle" /\ m.ref = at[s].ref
      BY DEF Nowhere
    <3> HIDE DEF l, m
    <3> QED
      BY <3>2, <3>3, <3>4
  <2>6. CASE Leave(s)
    <3> DEFINE m == [Nowhere EXCEPT !.ref = at[s].ref]
    <3>1. Becomes(s, m) /\ UNCHANGED <<edges, drifted, late, origin>>
      BY <2>6 DEF Leave, graph, history
    <3>2. m.pc = "idle" /\ m.ref = at[s].ref
      BY DEF Nowhere
    <3> HIDE DEF m
    <3> QED
      BY <3>1, <3>2
  <2>7. CASE Fail(s)
    <3> DEFINE l == Settled(at[s])
               m == [Nowhere EXCEPT !.pc = "failed"]
    <3>1. (Becomes(s, l) \/ Becomes(s, m)) /\ UNCHANGED <<edges, drifted, late, origin>>
      BY <2>7 DEF Fail, graph, history
    <3>2. l.pc = "again" /\ l.ref = at[s].ref
      BY <1>l DEF Local, Settled
    <3>3. m.pc = "failed" /\ m.ref = None
      BY DEF Nowhere
    <3> HIDE DEF l, m
    <3> QED
      BY <3>1, <3>2, <3>3
  <2>8. CASE \E h \in Hash : Explore(s, h)
    <3>1. PICK h \in Hash : Explore(s, h)
      BY <2>8
    <3> DEFINE l == [at[s] EXCEPT !.pc = "info", !.source = h, !.url = urls[h],
                                  !.page = ReplayTo(h)]
    <3>2. Becomes(s, l) /\ UNCHANGED <<edges, drifted, late, origin>>
      BY <3>1 DEF Explore, graph, history
    <3>3. l.pc = "info" /\ l.ref = at[s].ref
      BY <1>l DEF Local
    <3> QED
      BY <3>2, <3>3
  <2>9. CASE \E a \in UNION {DOMAIN Effect[h] : h \in Hash} : Act(s, a)
    <3>1. PICK a : Act(s, a)
      BY <2>9
    <3> DEFINE page == Step(at[s].page, a)
               r == Offered(at[s], a, page)
               l == [at[s] EXCEPT !.pc = "register", !.from = at[s].page.hash, !.page = page,
                                  !.action = a, !.target = page.hash, !.offer = r]
               m == [at[s] EXCEPT !.pc = "again"]
               n == [at[s] EXCEPT !.pc = "again", !.page = page]
    <3>2. (Becomes(s, l) \/ Becomes(s, m) \/ Becomes(s, n)) /\ UNCHANGED <<edges, drifted, late, origin>>
      BY <3>1 DEF Act, history
    <3> HIDE DEF page, r
    <3>3. /\ l.pc = "register" /\ l.ref = at[s].ref
          /\ m.pc = "again" /\ m.ref = at[s].ref
          /\ n.pc = "again" /\ n.ref = at[s].ref
      BY <1>l DEF Local
    <3> HIDE DEF l, m, n
    <3> QED
      BY <3>2, <3>3
  <2> QED
    BY <2>1, <2>2, <2>3, <2>4, <2>5, <2>6, <2>7, <2>8, <2>9
<1>3. doubted \subseteq doubted'
  BY DEF Seed, GetInfo, Register, Persist, ReplayAgain, ReplayFails, Leave, Fail, Explore, Act,
         Doubting, history
<1> QED
  BY <1>1, <1>2, <1>3

LEMMA QuietEdges ==
  ASSUME Typed, Edges, Finds, NEW s \in Session,
         \/ Seed(s) \/ GetInfo(s) \/ Register(s) \/ Persist(s) \/ ReplayAgain(s)
         \/ ReplayFails(s) \/ Leave(s) \/ Fail(s)
         \/ \E h \in Hash : Explore(s, h)
         \/ \E a \in UNION {DOMAIN Effect[h] : h \in Hash} : Act(s, a)
  PROVE  Edges' /\ Finds'
<1>1. /\ \A t \in Session : t # s => at'[t] = at[t]
      /\ at'[s].ref \in {at[s].ref, None} /\ at'[s].pc # "merge"
      /\ UNCHANGED <<edges, drifted, late, origin>> /\ doubted \subseteq doubted'
  BY QuietMoves
<1>2. \A t \in Session : at'[t].ref \in {at[t].ref, None}
  BY <1>1
<1>3. \A t \in Session : at'[t].pc = "merge" => at'[t] = at[t]
  BY <1>1
<1> QED
  BY <1>1, <1>2, <1>3, EdgesStay

-----------------------------------------------------------------------------
(* Recipes and their scores.                                               *)

LEMMA AddedToIs ==
  ASSUME NEW h, NEW r
  PROVE  Added(h, r) = AddedTo(recipes, h, r)
BY DEF Added, AddedTo

(* To add the same offer twice is to add it once.                          *)
LEMMA AddedTwice ==
  ASSUME NEW rs, NEW after, NEW h, NEW r \in Recipe, h \in DOMAIN after,
         after[h] = AddedTo(rs, h, r), h \in DOMAIN rs => rs[h] \in Recipe
  PROVE  AddedTo(after, h, r) = after[h]
<1>1. CASE h \in DOMAIN rs /\ r.fallbackUrl = 0
  <2>1. after[h] = Filled(r, rs[h])
    BY <1>1 DEF AddedTo, Filled
  <2>2. after[h].fallbackUrl = rs[h].fallbackUrl
        /\ after[h].fallbackActions = rs[h].fallbackActions
    BY <2>1 DEF Filled, Recipe
  <2>3. AddedTo(after, h, r) = [r EXCEPT !.fallbackUrl = after[h].fallbackUrl,
                                         !.fallbackActions = after[h].fallbackActions]
    BY <1>1 DEF AddedTo
  <2> QED
    BY <2>1, <2>2, <2>3 DEF Filled
<1>2. CASE ~(h \in DOMAIN rs) /\ r.fallbackUrl = 0
  <2>1. after[h] = r
    BY <1>2 DEF AddedTo
  <2>2. AddedTo(after, h, r) = [r EXCEPT !.fallbackUrl = r.fallbackUrl,
                                         !.fallbackActions = r.fallbackActions]
    BY <1>2, <2>1 DEF AddedTo
  <2>3. [r EXCEPT !.fallbackUrl = r.fallbackUrl, !.fallbackActions = r.fallbackActions] = r
    BY DEF Recipe
  <2> QED
    BY <2>1, <2>2, <2>3
<1>3. CASE r.fallbackUrl # 0
  BY <1>3 DEF AddedTo
<1> QED
  BY <1>1, <1>2, <1>3

LEMMA RecipesStay ==
  ASSUME Recipes, UNCHANGED <<recipes, scores, writer, raced, doubted>>,
         \A t \in Session : at'[t].pc = "persist" =>
           at[t].pc = "persist" /\ at'[t].target = at[t].target /\ at'[t].offer = at[t].offer
  PROVE  Recipes'
<1>1. recipes' = recipes /\ scores' = scores /\ writer' = writer /\ raced' = raced
      /\ doubted' = doubted
  OBVIOUS
<1>2. ASSUME NEW t \in Session, at'[t].pc = "persist", writer'[at'[t].target] = t
      PROVE  /\ scores'[at'[t].target] = Score(at'[t].target, at'[t].offer)
             /\ at'[t].target \notin raced' =>
                  recipes'[at'[t].target] = AddedTo(recipes', at'[t].target, at'[t].offer)
  BY <1>1, <1>2 DEF Recipes
<1> QED
  BY <1>1, <1>2 DEF Recipes

LEMMA RegisterRecipes ==
  ASSUME Typed, Places, Recipes, NEW s \in Session, Register(s)
  PROVE  Recipes'
<1> DEFINE h == at[s].target
           r == at[s].offer
           new == Added(h, r)
           Stores == /\ recipes' = With(recipes, h, new) /\ scores' = With(scores, h, Score(h, r))
                     /\ writer' = With(writer, h, s) /\ raced' = raced \ {h}
                     /\ doubted' = Doubting(h, r)
                     /\ at' = [at EXCEPT ![s] = [at[s] EXCEPT !.pc = "persist"]]
           Skips == /\ UNCHANGED <<recipes, scores, writer, raced, doubted>>
                    /\ at' = [at EXCEPT ![s] = [at[s] EXCEPT !.pc = AfterRecipe(s)]]
<1>1. at[s].pc = "register" /\ (Stores \/ Skips)
  BY DEF Register, Becomes
<1>2. r \in Recipe /\ Made(r) /\ Leads(h, r) /\ h \in DOMAIN urls
  BY <1>1 DEF Places, Fits
<1>3. /\ new \in Recipe /\ Made(new) /\ Leads(h, new) /\ Scored(h, new, Score(h, r))
      /\ new.sure = r.sure /\ Len(Score(h, r)) = 5
  BY <1>2, AddedIs, ScoreType
<1>4. new = AddedTo(recipes, h, r)
  BY AddedToIs
<1>5. CASE Stores
  <2>1. /\ at'[s].pc = "persist" /\ at'[s].target = h /\ at'[s].offer = r
        /\ \A t \in Session : t # s => at'[t] = at[t]
    BY <1>5, LocalFields DEF Typed, Local
  <2>2. /\ DOMAIN recipes' = DOMAIN recipes \union {h} /\ recipes'[h] = new
        /\ \A x \in DOMAIN recipes : x # h => recipes'[x] = recipes[x]
    BY <1>5 DEF With
  <2>3. /\ scores'[h] = Score(h, r)
        /\ \A x \in DOMAIN recipes : x # h => scores'[x] = scores[x]
    BY <1>5 DEF With, Typed
  <2>4. /\ writer'[h] = s
        /\ \A x \in DOMAIN recipes : x # h => writer'[x] = writer[x]
    BY <1>5 DEF With, Typed
  <2>5. raced' = raced \ {h}
    BY <1>5
  <2>d. new.sure \/ h \in doubted'
    BY <1>3, <1>5 DEF Doubting
  <2>e. doubted \subseteq doubted'
    BY <1>5 DEF Doubting
  <2> HIDE DEF Stores, new, r, h
  <2>6. \A x \in DOMAIN recipes' : Made(recipes'[x]) /\ Leads(x, recipes'[x])
    BY <1>3, <2>2 DEF Recipes
  <2>7. /\ \A x \in DOMAIN recipes' : Len(scores'[x]) = 5
        /\ \A x \in DOMAIN recipes' : recipes'[x].sure \/ x \in doubted'
    BY <1>3, <2>2, <2>3, <2>d, <2>e DEF Recipes
  <2>8. \A x \in DOMAIN recipes' \ raced' : Scored(x, recipes'[x], scores'[x])
    BY <1>3, <2>2, <2>3, <2>5 DEF Recipes
  <2>9. ASSUME NEW t \in Session, at'[t].pc = "persist", writer'[at'[t].target] = t
        PROVE  /\ scores'[at'[t].target] = Score(at'[t].target, at'[t].offer)
               /\ at'[t].target \notin raced' =>
                    recipes'[at'[t].target] = AddedTo(recipes', at'[t].target, at'[t].offer)
    <3>1. CASE t = s
      <4>1. h \in DOMAIN recipes => recipes[h] \in Recipe
        BY DEF Typed
      <4>2. recipes'[h] = AddedTo(recipes, h, r) /\ h \in DOMAIN recipes'
        BY <1>4, <2>2
      <4>3. AddedTo(recipes', h, r) = recipes'[h]
        BY <1>2, <4>1, <4>2, AddedTwice
      <4> QED
        BY <2>1, <2>3, <3>1, <4>3
    <3>2. CASE t # s
      <4> DEFINE x == at[t].target
                 o == at[t].offer
      <4>1. at[t].pc = "persist" /\ at'[t].target = x /\ at'[t].offer = o
        BY <2>1, <2>9, <3>2
      <4>2. x \in DOMAIN recipes
        BY <4>1 DEF Places, Fits
      <4>3. x # h
        BY <2>4, <2>9, <3>2, <4>1
      <4> HIDE DEF x
      <4>4. writer[x] = t /\ scores'[x] = scores[x] /\ recipes'[x] = recipes[x]
            /\ (x \in raced' <=> x \in raced)
        BY <2>2, <2>3, <2>4, <2>5, <2>9, <4>1, <4>2, <4>3
      <4>5. scores[x] = Score(x, o) /\ (x \notin raced => recipes[x] = AddedTo(recipes, x, o))
        BY <4>1, <4>4 DEF Recipes, x
      <4> HIDE DEF o
      <4>6. AddedTo(recipes', x, o) = AddedTo(recipes, x, o)
        BY <2>2, <4>2, <4>4 DEF AddedTo
      <4> QED
        BY <4>1, <4>4, <4>5, <4>6
    <3> QED
      BY <3>1, <3>2
  <2> QED
    BY <2>6, <2>7, <2>8, <2>9 DEF Recipes
<1>6. CASE Skips
  <2>1. /\ at'[s].pc = AfterRecipe(s) /\ AfterRecipe(s) \in {"idle", "find"}
        /\ \A t \in Session : t # s => at'[t] = at[t]
    BY <1>6, LocalFields DEF Typed, Local, AfterRecipe
  <2>2. \A t \in Session : at'[t].pc = "persist" =>
          at[t].pc = "persist" /\ at'[t].target = at[t].target /\ at'[t].offer = at[t].offer
    BY <2>1
  <2> QED
    BY <1>6, <2>2, RecipesStay
<1> QED
  BY <1>1, <1>5, <1>6

(* Who has written a recipe last and is not outdone sets it as it is.      *)
LEMMA PersistAgain ==
  ASSUME Typed, Places, Recipes, NEW s \in Session, Persist(s)
  PROVE  /\ DOMAIN recipes' = DOMAIN recipes
         /\ \A x \in DOMAIN recipes : x \notin raced' \/ x # at[s].target => recipes'[x] = recipes[x]
         /\ at[s].target \in DOMAIN recipes
         /\ recipes'[at[s].target] = Added(at[s].target, at[s].offer)
         /\ raced \subseteq raced' /\ raced' \subseteq raced \union {at[s].target}
         /\ writer[at[s].target] # s => at[s].target \in raced'
<1> DEFINE h == at[s].target
<1>1. /\ at[s].pc = "persist" /\ recipes' = [recipes EXCEPT ![h] = Added(h, at[s].offer)]
      /\ raced' = IF writer[h] = s THEN raced ELSE raced \union {h}
  BY DEF Persist
<1>2. h \in DOMAIN recipes
  BY <1>1 DEF Places, Fits
<1>3. /\ DOMAIN recipes' = DOMAIN recipes /\ recipes'[h] = Added(h, at[s].offer)
      /\ \A x \in DOMAIN recipes : x # h => recipes'[x] = recipes[x]
  BY <1>1, <1>2
<1>4. h \notin raced' => recipes'[h] = recipes[h]
  <2> SUFFICES ASSUME h \notin raced' PROVE recipes'[h] = recipes[h]
    OBVIOUS
  <2>1. writer[h] = s /\ h \notin raced
    BY <1>1
  <2>2. recipes[h] = AddedTo(recipes, h, at[s].offer)
    BY <1>1, <2>1 DEF Recipes
  <2> QED
    BY <1>3, <2>2, AddedToIs
<1> QED
  BY <1>1, <1>2, <1>3, <1>4

LEMMA PersistRecipes ==
  ASSUME Typed, Places, Recipes, NEW s \in Session, Persist(s)
  PROVE  Recipes'
<1> DEFINE h == at[s].target
           r == at[s].offer
<1>1. /\ at[s].pc = "persist" /\ scores' = scores /\ writer' = writer
      /\ doubted' = Doubting(h, r)
      /\ at' = [at EXCEPT ![s] = [at[s] EXCEPT !.pc = AfterRecipe(s)]]
  BY DEF Persist, Becomes
<1>2. /\ DOMAIN recipes' = DOMAIN recipes
      /\ \A x \in DOMAIN recipes : x \notin raced' \/ x # h => recipes'[x] = recipes[x]
      /\ recipes'[h] = Added(h, r)
      /\ raced \subseteq raced' /\ raced' \subseteq raced \union {h}
      /\ writer[h] # s => h \in raced'
  BY PersistAgain
<1>3. r \in Recipe /\ Made(r) /\ Leads(h, r)
  BY <1>1 DEF Places, Fits
<1>4. Made(Added(h, r)) /\ Leads(h, Added(h, r)) /\ Added(h, r).sure = r.sure
  BY <1>3, AddedIs
<1>d. doubted \subseteq doubted' /\ (r.sure \/ h \in doubted')
  BY <1>1 DEF Doubting
<1>5. /\ at'[s].pc = AfterRecipe(s) /\ AfterRecipe(s) \in {"idle", "find"}
      /\ \A t \in Session : t # s => at'[t] = at[t]
  BY <1>1, LocalFields DEF Typed, Local, AfterRecipe
<1>6. \A x \in DOMAIN recipes' :
        Made(recipes'[x]) /\ Leads(x, recipes'[x]) /\ (recipes'[x].sure \/ x \in doubted')
  <2> SUFFICES ASSUME NEW x \in DOMAIN recipes'
               PROVE  /\ Made(recipes'[x]) /\ Leads(x, recipes'[x])
                      /\ recipes'[x].sure \/ x \in doubted'
    OBVIOUS
  <2>1. CASE x = h
    BY <1>2, <1>4, <1>d, <2>1
  <2>2. CASE x # h
    BY <1>2, <1>d, <2>2 DEF Recipes
  <2> QED
    BY <2>1, <2>2
<1>7. \A x \in DOMAIN recipes' : Len(scores'[x]) = 5
  BY <1>1, <1>2 DEF Recipes
<1>8. \A x \in DOMAIN recipes' \ raced' : Scored(x, recipes'[x], scores'[x])
  BY <1>1, <1>2 DEF Recipes
<1>9. ASSUME NEW t \in Session, at'[t].pc = "persist", writer'[at'[t].target] = t
      PROVE  /\ scores'[at'[t].target] = Score(at'[t].target, at'[t].offer)
             /\ at'[t].target \notin raced' =>
                  recipes'[at'[t].target] = AddedTo(recipes', at'[t].target, at'[t].offer)
  <2> DEFINE x == at[t].target
             o == at[t].offer
  <2>1. t # s
    BY <1>5, <1>9
  <2>2. at[t].pc = "persist" /\ at'[t].target = x /\ at'[t].offer = o /\ writer[x] = t
    BY <1>1, <1>5, <1>9, <2>1
  <2>3. x \in DOMAIN recipes
    BY <2>2 DEF Places, Fits
  <2>4. scores[x] = Score(x, o) /\ (x \notin raced => recipes[x] = AddedTo(recipes, x, o))
    BY <2>2 DEF Recipes
  <2> HIDE DEF x, o
  <2>5. ASSUME x \notin raced' PROVE recipes'[x] = AddedTo(recipes', x, o)
    <3>1. recipes'[x] = recipes[x] /\ x \notin raced
      BY <1>2, <2>3, <2>5
    <3>2. AddedTo(recipes', x, o) = AddedTo(recipes, x, o)
      BY <1>2, <2>3, <3>1 DEF AddedTo
    <3> QED
      BY <2>4, <3>1, <3>2
  <2> QED
    BY <1>1, <2>2, <2>4, <2>5
<1> QED
  BY <1>6, <1>7, <1>8, <1>9 DEF Recipes

-----------------------------------------------------------------------------
(* Every step keeps all of it.                                             *)

LEMMA InitSound ==
  ASSUME Init
  PROVE  Sound
<1> DEFINE l == [Nowhere EXCEPT !.pc = "seed"]
<1>1. l \in Local /\ l.pc = "seed" /\ l.action = None /\ l.ref = None
  BY DEF Nowhere, Local, Pc
<1> HIDE DEF l
<1>2. \A s \in Session : at[s] = l
  BY DEF Init, l
<1>3. /\ at = [s \in Session |-> l] /\ left = Actions /\ urls = <<>> /\ recipes = <<>>
      /\ scores = <<>> /\ edges = <<>> /\ writer = <<>> /\ raced = {}
  BY DEF Init, l
<1>4. DOMAIN urls = {} /\ DOMAIN recipes = {} /\ DOMAIN edges = {}
  BY <1>3
<1>5. Typed
  <2>1. at \in [Session -> Local]
    BY <1>1, <1>3
  <2>2. left \in [Session -> Nat] /\ \A s \in Session : left[s] <= Actions[s]
    BY <1>3, SiteFacts
  <2>3. /\ DOMAIN urls \subseteq Hash /\ urls \in [DOMAIN urls -> Url]
        /\ DOMAIN recipes \subseteq DOMAIN urls /\ recipes \in [DOMAIN recipes -> Recipe]
    BY <1>3, <1>4
  <2>4. scores \in [DOMAIN recipes -> Seq(Nat)] /\ writer \in [DOMAIN recipes -> Session]
    BY <1>3, <1>4
  <2>5. edges \in Seq(Edge)
    BY <1>3
  <2> QED
    BY <2>1, <2>2, <2>3, <2>4, <2>5 DEF Typed
<1>6. Places
  BY <1>1, <1>2 DEF Places, Fits
<1>7. Recipes
  BY <1>1, <1>2, <1>4 DEF Recipes
<1>8. Edges
  BY <1>1, <1>2, <1>4 DEF Edges, NoTwins, RefsResolve
<1>9. Finds
  BY <1>1, <1>2 DEF Finds
<1> QED
  BY <1>5, <1>6, <1>7, <1>8, <1>9 DEF Sound

LEMMA QuietRecipes ==
  ASSUME Typed, Recipes, NEW s \in Session,
         \/ Seed(s) \/ GetInfo(s) \/ ReplayAgain(s) \/ ReplayFails(s) \/ Leave(s) \/ Fail(s)
         \/ \E h \in Hash : Explore(s, h)
         \/ \E a \in UNION {DOMAIN Effect[h] : h \in Hash} : Act(s, a)
  PROVE  Recipes'
<1>1. /\ \A t \in Session : t # s => at'[t] = at[t]
      /\ at'[s].pc = "persist" => Register(s)
  BY QuietMoves
<1>2. at[s].pc # "register"  \/ Fail(s)
  BY DEF Seed, GetInfo, ReplayAgain, ReplayFails, Leave, Explore, Act
<1>3. at'[s].pc # "persist"
  <2>1. CASE Fail(s)
    BY <2>1, LocalFields DEF Fail, Becomes, Typed, Settled, Local, Nowhere
  <2>2. CASE ~Fail(s)
    BY <1>1, <1>2, <2>2 DEF Register
  <2> QED
    BY <2>1, <2>2
<1>4. UNCHANGED <<recipes, scores, writer, raced, doubted>>
  BY DEF Seed, GetInfo, ReplayAgain, ReplayFails, Leave, Fail, Explore, Act, graph, history
<1>5. \A t \in Session : at'[t].pc = "persist" =>
        at[t].pc = "persist" /\ at'[t].target = at[t].target /\ at'[t].offer = at[t].offer
  BY <1>1, <1>3
<1> QED
  BY <1>4, <1>5, RecipesStay

LEMMA MergeRecipes ==
  ASSUME Typed, Places, Recipes, NEW s \in Session,
         Find(s) \/ UpdateFound(s) \/ MergeOwn(s)
  PROVE  Recipes'
<1>1. UNCHANGED <<recipes, scores, writer, raced, doubted>>
  <2>1. CASE Find(s)
    BY <2>1, FindIs DEF graph, history
  <2> QED
    BY <2>1 DEF UpdateFound, MergeOwn
<1>2. \A t \in Session : at'[t].pc = "persist" =>
        at[t].pc = "persist" /\ at'[t].target = at[t].target /\ at'[t].offer = at[t].offer
  <2>1. CASE Find(s)
    <3>1. PICK id :
            Becomes(s, [at[s] EXCEPT !.pc = "merge", !.overtaken = FALSE, !.found = id])
      BY <2>1, FindIs
    <3>2. at'[s].pc = "merge" /\ \A t \in Session : t # s => at'[t] = at[t]
      BY <3>1, LocalFields DEF Becomes, Typed, Local
    <3> QED
      BY <3>2
  <2>2. ASSUME NEW id \in Ids, Return(s, id), at[s].pc = "merge", UNCHANGED <<urls, recipes, doubted>>
        PROVE  \A t \in Session : at'[t].pc = "persist" =>
                 at[t].pc = "persist" /\ at'[t].target = at[t].target
                 /\ at'[t].offer = at[t].offer
    <3>1. /\ at'[s].pc = "again"
          /\ \A t \in Session : t # s =>
               at'[t].pc = at[t].pc /\ at'[t].target = at[t].target /\ at'[t].offer = at[t].offer
      BY <2>2, ReturnFits
    <3> QED
      BY <3>1
  <2>3. CASE UpdateFound(s)
    <3>1. at[s].found \in Ids /\ Return(s, at[s].found) /\ at[s].pc = "merge"
          /\ UNCHANGED <<urls, recipes, doubted>>
      BY <2>3, LocalFields DEF UpdateFound
    <3> QED
      BY <2>2, <3>1
  <2>4. CASE MergeOwn(s)
    <3>1. Return(s, Id(at[s])) /\ at[s].pc = "merge" /\ UNCHANGED <<urls, recipes, doubted>>
      BY <2>4 DEF MergeOwn
    <3>2. Id(at[s]) \in Ids
      BY <3>1, Merges
    <3> QED
      BY <2>2, <3>1, <3>2
  <2> QED
    BY <2>1, <2>3, <2>4
<1> QED
  BY <1>1, <1>2, RecipesStay

LEMMA StepSound ==
  ASSUME Sound, Next
  PROVE  Sound'
<1>1. Typed /\ Places /\ Recipes /\ Edges /\ Finds
  BY DEF Sound
<1>2. PICK s \in Session :
        \/ Seed(s) \/ GetInfo(s) \/ Register(s) \/ Persist(s) \/ Find(s)
        \/ UpdateFound(s) \/ MergeOwn(s) \/ ReplayAgain(s) \/ ReplayFails(s)
        \/ Leave(s) \/ Fail(s)
        \/ \E h \in Hash : Explore(s, h)
        \/ \E a \in UNION {DOMAIN Effect[h] : h \in Hash} : Act(s, a)
  BY DEF Next
<1>3. Typed' /\ Places'
  BY <1>1, <1>2, SeedFits, ExploreFits, GetInfoFits, ActFits, RegisterFits, PersistFits,
     FindFits, UpdateFoundFits, MergeOwnFits, ReplayAgainFits, ReplayFailsFits, LeaveFits, FailFits
<1>4. Edges' /\ Finds'
  BY <1>1, <1>2, QuietEdges, FindEdges, UpdateFoundEdges, MergeOwnEdges
<1>5. Recipes'
  BY <1>1, <1>2, QuietRecipes, RegisterRecipes, PersistRecipes, MergeRecipes
<1> QED
  BY <1>3, <1>4, <1>5 DEF Sound

LEMMA StutterSound ==
  ASSUME Sound, UNCHANGED vars
  PROVE  Sound'
<1>1. /\ urls' = urls /\ recipes' = recipes /\ scores' = scores /\ edges' = edges /\ at' = at
      /\ left' = left /\ writer' = writer /\ raced' = raced /\ drifted' = drifted /\ late' = late
      /\ origin' = origin /\ doubted' = doubted
  BY DEF vars, graph, history
<1>2. Typed'
  BY <1>1 DEF Sound, Typed
<1>3. Places'
  BY <1>1 DEF Sound, Places, Shady
<1>4. Recipes'
  BY <1>1, RecipesStay DEF Sound
<1>5. Edges' /\ Finds'
  BY <1>1, EdgesStay DEF Sound
<1> QED
  BY <1>2, <1>3, <1>4, <1>5 DEF Sound

(* What the sessions write to the graph, in whichever order their          *)
(* statements come, and the locals they write it from, stay sound          *)
(* (crawler/replay, crawler/sequence.py, graph/repository.py).             *)
THEOREM AlwaysSound == Spec => []Sound
<1>1. Init => Sound
  BY InitSound
<1>2. Sound /\ [Next]_vars => Sound'
  BY StepSound, StutterSound
<1> QED
  BY <1>1, <1>2, PTL DEF Spec

-----------------------------------------------------------------------------
(* The theorems.                                                           *)

LEMMA SoundIsTrue ==
  ASSUME Sound
  PROVE  EdgesAreTrue
<1>1. Typed /\ Places /\ Recipes /\ Edges
  BY DEF Sound
<1>2. DOMAIN recipes = DOMAIN scores /\ DOMAIN recipes = DOMAIN writer
  BY <1>1 DEF Typed
<1>3. /\ DOMAIN recipes \subseteq DOMAIN urls /\ DOMAIN urls \subseteq Hash
      /\ \A h \in DOMAIN urls : urls[h] \in Url
  BY <1>1 DEF Typed
<1>4. ASSUME NEW h \in DOMAIN recipes
      PROVE  /\ recipes[h].url \in Url /\ recipes[h].hash \in Hash
             /\ recipes[h].fallbackUrl \in Url \union {0}
             /\ recipes[h].fallbackUrl = 0 <=> recipes[h].fallbackActions = <<>>
  <2>1. recipes[h] \in Recipe /\ Made(recipes[h])
    BY <1>1 DEF Typed, Recipes
  <2> QED
    BY <2>1 DEF Recipe, Made
<1>5. \A i, j \in DOMAIN edges : edges[i].id = edges[j].id => i = j
  BY <1>1 DEF Edges
<1>6. \A s \in Session : left[s] \in 0 .. Actions[s]
  BY <1>1, SiteFacts DEF Typed
<1>7. \A s \in Session :
        at[s].page # Lost => at[s].page.url \in Url /\ at[s].page.hash \in Hash
  BY <1>1, LocalFields DEF Page
<1>8. TypeOK
  BY <1>2, <1>3, <1>4, <1>5, <1>6, <1>7 DEF TypeOK
<1>9. EdgesHappened
  BY <1>1 DEF Edges, Happened, Shady, EdgesHappened
<1> QED
  BY <1>1, <1>8, <1>9 DEF Edges, EdgesAreTrue

LEMMA SoundIsGood ==
  ASSUME Sound
  PROVE  RecipesAreGood
<1>1. Recipes
  BY DEF Sound
<1>2. RecipesReplay
  BY <1>1 DEF Recipes, Leads, RecipesReplay
<1>3. ScoreDescribesRecipe
  BY <1>1 DEF Recipes, Scored, ScoreDescribesRecipe
<1> QED
  BY <1>2, <1>3 DEF RecipesAreGood

LEMMA RegisterImproves ==
  ASSUME Sound, NEW s \in Session, Register(s),
         NEW h \in DOMAIN recipes, h \notin raced, recipes'[h] # recipes[h] \/ scores'[h] # scores[h]
  PROVE  /\ Better(scores'[h], scores[h]) /\ ~Better(scores[h], scores'[h])
         /\ ~Better(Score(h, recipes[h]), Score(h, recipes'[h]))
<1> DEFINE x == at[s].target
           r == at[s].offer
<1>1. /\ at[s].pc = "register"
      /\ \/ /\ x \notin DOMAIN scores \/ Better(Score(x, r), scores[x])
            /\ recipes' = With(recipes, x, Added(x, r)) /\ scores' = With(scores, x, Score(x, r))
         \/ UNCHANGED <<recipes, scores>>
  BY DEF Register
<1>2. /\ x \notin DOMAIN scores \/ Better(Score(x, r), scores[x])
      /\ recipes' = With(recipes, x, Added(x, r)) /\ scores' = With(scores, x, Score(x, r))
  BY <1>1
<1>3. Typed /\ Places /\ Recipes
  BY DEF Sound
<1>4. DOMAIN scores = DOMAIN recipes
  BY <1>3 DEF Typed
<1>5. r \in Recipe /\ Made(r) /\ Leads(x, r)
  BY <1>1, <1>3 DEF Places, Fits
<1>6. /\ Added(x, r) \in Recipe
      /\ x \notin DOMAIN recipes \/ r.fallbackUrl # 0 => Added(x, r) = r
      /\ x \in DOMAIN recipes /\ r.fallbackUrl = 0 => Added(x, r) = Filled(r, recipes[x])
  BY <1>3, <1>5, AddedIs
<1> HIDE DEF x, r
<1>7. x = h
  BY <1>2, <1>4 DEF With
<1>8. /\ Better(Score(h, r), scores[h]) /\ scores'[h] = Score(h, r) /\ recipes'[h] = Added(h, r)
  BY <1>2, <1>4, <1>7 DEF With
<1>9. /\ recipes[h] \in Recipe /\ Made(recipes[h]) /\ Scored(h, recipes[h], scores[h])
      /\ scores[h] \in Seq(Nat) /\ Len(scores[h]) = 5
  BY <1>3 DEF Typed, Recipes
<1>10. Five(scores[h]) /\ Five(Score(h, r))
  BY <1>5, <1>9, ScoreType DEF Five
<1>11. ~Better(Score(h, recipes[h]), Score(h, Added(h, r)))
  <2>1. \/ r.fallbackUrl # 0 /\ Added(h, r) = r
        \/ r.fallbackUrl = 0 /\ Added(h, r) = Filled(r, recipes[h])
    BY <1>6, <1>7
  <2>2. Added(h, r) \in Recipe
    BY <1>6, <1>7
  <2> DEFINE new == Added(h, r)
  <2>3. new \in Recipe /\ \/ r.fallbackUrl # 0 /\ new = r
                          \/ r.fallbackUrl = 0 /\ new = Filled(r, recipes[h])
    BY <2>1, <2>2
  <2> HIDE DEF new
  <2>4. ~Better(Score(h, recipes[h]), Score(h, new))
    BY <1>5, <1>8, <1>9, <1>10, <2>3, Improvement
  <2> QED
    BY <2>4 DEF new
<1>12. ~Better(scores[h], Score(h, r))
  BY <1>8, <1>10, BetterIsStrict
<1> QED
  BY <1>8, <1>11, <1>12

LEMMA StepImproves ==
  ASSUME Sound, Next, NEW h \in DOMAIN recipes \ (raced \union raced')
  PROVE  /\ ~Better(scores[h], scores'[h])
         /\ recipes'[h] # recipes[h] =>
              /\ Better(scores'[h], scores[h])
              /\ ~Better(Score(h, recipes[h]), Score(h, recipes'[h]))
<1>1. Typed /\ Places /\ Recipes
  BY DEF Sound
<1>2. Five(scores[h])
  <2>1. scores[h] \in Seq(Nat) /\ Len(scores[h]) = 5
    BY <1>1 DEF Typed, Recipes
  <2> QED
    BY <2>1 DEF Five
<1>3. ~Better(scores[h], scores[h])
  BY <1>2, BetterIsStrict
<1>4. PICK s \in Session :
        \/ Seed(s) \/ GetInfo(s) \/ Register(s) \/ Persist(s) \/ Find(s)
        \/ UpdateFound(s) \/ MergeOwn(s) \/ ReplayAgain(s) \/ ReplayFails(s)
        \/ Leave(s) \/ Fail(s)
        \/ \E x \in Hash : Explore(s, x)
        \/ \E a \in UNION {DOMAIN Effect[x] : x \in Hash} : Act(s, a)
  BY DEF Next
<1>5. CASE Register(s)
  BY <1>3, <1>5, RegisterImproves
<1>6. CASE Persist(s)
  <2>1. scores' = scores
    BY <1>6 DEF Persist
  <2>2. recipes'[h] = recipes[h]
    BY <1>1, <1>6, PersistAgain
  <2> QED
    BY <1>3, <2>1, <2>2
<1>7. CASE ~Register(s) /\ ~Persist(s)
  <2>1. recipes' = recipes /\ scores' = scores
    <3>1. CASE Find(s)
      BY <1>1, <3>1, FindIs DEF graph
    <3> QED
      BY <1>4, <1>7, <3>1
         DEF Seed, GetInfo, ReplayAgain, ReplayFails, Leave, Fail, Explore, Act, UpdateFound, MergeOwn, graph
  <2> QED
    BY <1>3, <2>1
<1> QED
  BY <1>5, <1>6, <1>7

(* Transitions are what happened, from their source, or from where a       *)
(* failed replay left a session whose source is flaky or was given a       *)
(* recipe that is not sure (explore.py:82-95, 148-149); their identifiers  *)
(* stay, what a session was told of its own is in the graph, and no two    *)
(* are alike but those that two sessions added at once or that an update   *)
(* has changed (repository.py: add_transition).                            *)
THEOREM TransitionsAreTrue == Spec => []EdgesAreTrue
<1>1. Sound => EdgesAreTrue
  BY SoundIsTrue
<1> QED
  BY <1>1, AlwaysSound, PTL

(* Every recipe that _build_replay_info builds of a followed one, for a    *)
(* session that is where it thinks it is, leads to its state, whatever     *)
(* sessions astray have written in between; and is compared by its own     *)
(* score unless it was overwritten by one that had lost (sequence.py:      *)
(* 246-248).                                                               *)
THEOREM RecipesLeadBack == Spec => []RecipesAreGood
<1>1. Sound => RecipesAreGood
  BY SoundIsGood
<1> QED
  BY <1>1, AlwaysSound, PTL

(* Scores only get better, and recipes no worse, when nobody races         *)
(* (UPSERT_REPLAY_INFO_IF_BETTER).                                         *)
THEOREM RecipesOnlyImprove == Spec => RecipesImprove
<1> DEFINE A == \A h \in DOMAIN recipes \ (raced \union raced') :
                  /\ ~Better(scores[h], scores'[h])
                  /\ recipes'[h] # recipes[h] =>
                       /\ Better(scores'[h], scores[h])
                       /\ ~Better(Score(h, recipes[h]), Score(h, recipes'[h]))
<1>1. Sound /\ [Next]_vars => [A]_vars
  <2>1. Sound /\ Next => A
    BY StepImproves
  <2> HIDE DEF A
  <2> QED
    BY <2>1
<1>2. Spec => [][A]_vars
  <2> HIDE DEF A
  <2> QED
    BY <1>1, AlwaysSound, PTL DEF Spec
<1> QED
  BY <1>2 DEF RecipesImprove
=============================================================================
