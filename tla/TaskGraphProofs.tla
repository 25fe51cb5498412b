--------------------------- MODULE TaskGraphProofs ---------------------------
(* Theorems about TaskGraph: what the barrier lets through can be worked off, and  *)
(* the default planner makes nothing else.                                         *)
EXTENDS TaskGraph, FiniteSetTheorems, SequenceTheorems, WellFoundedInduction, TLAPS

--------------------------------------------------------------------------------
(* Induction, and functions defined by it, over sets of numbers.                   *)

LEMMA Induction ==
  ASSUME NEW S, 0 \in S, \A n \in Nat : n \in S => n + 1 \in S
  PROVE  \A n \in Nat : n \in S
<1> DEFINE Missing == {n \in Nat : n \notin S}
<1> SUFFICES ASSUME Missing # {} PROVE FALSE OBVIOUS
<1>1. PICK n \in Missing : \A m \in Missing : <<m, n>> \notin OpToRel(<, Nat)
  BY NatLessThanWellFounded, WFMin
<1>2. n - 1 \in Nat /\ n - 1 < n OBVIOUS
<1>3. <<n - 1, n>> \in OpToRel(<, Nat) BY <1>2 DEF OpToRel
<1>4. n - 1 \in S BY <1>1, <1>2, <1>3
<1>5. (n - 1) + 1 \in S BY <1>2, <1>4
<1> QED BY <1>2, <1>5

\* A function can be iterated.
Iterable(N, X, base, G) ==
    \E f \in [0 .. N -> X] : f[0] = base /\ \A k \in 1 .. N : f[k] = G[f[k - 1]]

LEMMA Iteration ==
  ASSUME NEW N \in Nat, NEW X, NEW base \in X, NEW G \in [X -> X]
  PROVE  Iterable(N, X, base, G)
<1> DEFINE Upto(n) == {f \in [0 .. n -> X] :
                          f[0] = base /\ \A k \in 1 .. n : f[k] = G[f[k - 1]]}
           S == {n \in Nat : Upto(n) # {}}
<1>1. 0 \in S
  <2>1. [k \in 0 .. 0 |-> base] \in Upto(0) OBVIOUS
  <2> QED BY <2>1
<1>2. ASSUME NEW n \in Nat, n \in S PROVE n + 1 \in S
  <2>1. PICK f : f \in Upto(n) BY <1>2
  <2> DEFINE g == [k \in 0 .. n + 1 |-> IF k = n + 1 THEN G[f[n]] ELSE f[k]]
  <2>2. g \in [0 .. n + 1 -> X] BY <2>1
  <2>3. g[0] = base BY <2>1
  <2>4. ASSUME NEW k \in 1 .. n + 1 PROVE g[k] = G[g[k - 1]]
    <3>1. CASE k = n + 1
      <4>1. k - 1 = n /\ n \in 0 .. n + 1 /\ n # n + 1 BY <3>1
      <4> QED BY <3>1, <4>1
    <3>2. CASE k \in 1 .. n
      <4>1. k # n + 1 /\ k \in 0 .. n + 1 /\ k - 1 \in 0 .. n + 1 /\ k - 1 # n + 1 BY <3>2
      <4>2. f[k] = G[f[k - 1]] BY <2>1, <3>2
      <4> QED BY <4>1, <4>2
    <3> QED BY <3>1, <3>2
  <2>5. g \in Upto(n + 1) BY <2>2, <2>3, <2>4
  <2> HIDE DEF Upto
  <2> QED BY <2>5
<1>3. \A n \in Nat : n \in S
  <2> HIDE DEF S
  <2> QED BY <1>1, <1>2, Induction
<1> QED BY <1>3 DEF Iterable

\* Rounds and Back are what their recursive definitions say.
LEMMA RoundsUnfold ==
  ASSUME NEW nodes \in Graph
  PROVE  /\ Rounds(nodes)[0] = {}
         /\ \A k \in 1 .. Len(nodes) :
                Rounds(nodes)[k] = {t \in Ids(nodes) : Deps(nodes, t) \cap Ids(nodes)
                                                          \subseteq Rounds(nodes)[k - 1]}
<1> DEFINE After(S) == {t \in Ids(nodes) : Deps(nodes, t) \cap Ids(nodes) \subseteq S}
           N     == Len(nodes)
           G     == [S \in SUBSET Ids(nodes) |-> After(S)]
           Is(h) == h = [k \in 0 .. N |-> IF k = 0 THEN {} ELSE After(h[k - 1])]
<1>1. N \in Nat BY LenProperties DEF Graph
<1>2. G \in [SUBSET Ids(nodes) -> SUBSET Ids(nodes)] OBVIOUS
<1>3. PICK f \in [0 .. N -> SUBSET Ids(nodes)] :
          f[0] = {} /\ \A k \in 1 .. N : f[k] = G[f[k - 1]]
  <2> HIDE DEF G, N
  <2>1. Iterable(N, SUBSET Ids(nodes), {}, G) BY <1>1, <1>2, Iteration
  <2> QED BY <2>1 DEF Iterable
<1>4. ASSUME NEW k \in 1 .. N PROVE f[k] = After(f[k - 1])
  <2>1. k - 1 \in 0 .. N BY <1>1
  <2>2. f[k - 1] \in SUBSET Ids(nodes) BY <1>3, <2>1
  <2>3. f[k] = G[f[k - 1]] BY <1>3
  <2> QED BY <2>2, <2>3
<1> HIDE DEF After
<1>5. Is(f) BY <1>1, <1>3, <1>4
<1>6. Is(Rounds(nodes))
  <2>1. Rounds(nodes) = CHOOSE h : Is(h) BY DEF Rounds, After
  <2> QED BY <1>5, <2>1
<1>7. /\ Rounds(nodes)[0] = {}
      /\ \A k \in 1 .. N : Rounds(nodes)[k] = After(Rounds(nodes)[k - 1])
  <2>1. 0 \in 0 .. N /\ \A k \in 1 .. N : k \in 0 .. N /\ k # 0 BY <1>1
  <2> QED BY <1>6, <2>1
<1> QED BY <1>7 DEF After

LEMMA BackUnfold ==
  ASSUME NEW nodes \in Graph, NEW t
  PROVE  /\ Back(nodes, t)[0] = Deps(nodes, t)
         /\ \A k \in 1 .. Len(nodes) :
                Back(nodes, t)[k] = Back(nodes, t)[k - 1]
                                      \cup UNION {Deps(nodes, a) : a \in Back(nodes, t)[k - 1]}
<1> DEFINE More(S) == S \cup UNION {Deps(nodes, a) : a \in S}
           N     == Len(nodes)
           X     == SUBSET UNION {nodes[i].deps : i \in DOMAIN nodes}
           G     == [S \in X |-> More(S)]
           Is(h) == h = [k \in 0 .. N |-> IF k = 0 THEN Deps(nodes, t) ELSE More(h[k - 1])]
<1>1. N \in Nat BY LenProperties DEF Graph
<1>2. \A a : Deps(nodes, a) \in X BY DEF Deps
<1>3. G \in [X -> X] BY <1>2
<1>4. PICK f \in [0 .. N -> X] :
          f[0] = Deps(nodes, t) /\ \A k \in 1 .. N : f[k] = G[f[k - 1]]
  <2> HIDE DEF G, X, N
  <2>1. Iterable(N, X, Deps(nodes, t), G) BY <1>1, <1>2, <1>3, Iteration
  <2> QED BY <2>1 DEF Iterable
<1>5. \A k \in 1 .. N : f[k] = More(f[k - 1])
  <2>1. \A k \in 1 .. N : f[k - 1] \in X
    <3> HIDE DEF X
    <3> QED BY <1>1, <1>4
  <2> QED BY <1>4, <2>1
<1> HIDE DEF More, X
<1>6. Is(f) BY <1>1, <1>4, <1>5
<1>7. Is(Back(nodes, t))
  <2>1. Back(nodes, t) = CHOOSE h : Is(h) BY DEF Back, More
  <2> QED BY <1>6, <2>1
<1>8. /\ Back(nodes, t)[0] = Deps(nodes, t)
      /\ \A k \in 1 .. N : Back(nodes, t)[k] = More(Back(nodes, t)[k - 1])
  <2>1. 0 \in 0 .. N /\ \A k \in 1 .. N : k \in 0 .. N /\ k # 0 BY <1>1
  <2> QED BY <1>7, <2>1
<1> QED BY <1>8 DEF More

\* What the barrier lets through has no cycle: among any tasks of the graph there is one
\* that waits for none of the others (_topo_order).
THEOREM BarrierIsSound ==
  ASSUME NEW nodes \in Graph, NEW maxTasks, Valid(nodes, maxTasks),
         NEW T \in SUBSET Ids(nodes), T # {}
  PROVE  \E t \in T : Deps(nodes, t) \cap T = {}
<1> SUFFICES ASSUME \A t \in T : Deps(nodes, t) \cap T # {} PROVE FALSE OBVIOUS
<1> DEFINE S == {k \in Nat : k <= Len(nodes) => Rounds(nodes)[k] \cap T = {}}
<1>1. Len(nodes) \in Nat BY LenProperties DEF Graph
<1>2. 0 \in S BY RoundsUnfold
<1>3. ASSUME NEW k \in Nat, k \in S PROVE k + 1 \in S
  <2> SUFFICES ASSUME k + 1 <= Len(nodes) PROVE Rounds(nodes)[k + 1] \cap T = {} OBVIOUS
  <2>1. k + 1 \in 1 .. Len(nodes) /\ (k + 1) - 1 = k BY <1>1
  <2>2. Rounds(nodes)[k + 1] = {t \in Ids(nodes) : Deps(nodes, t) \cap Ids(nodes)
                                                      \subseteq Rounds(nodes)[k]}
    BY <2>1, RoundsUnfold
  <2>3. Rounds(nodes)[k] \cap T = {} BY <1>1, <1>3
  <2> QED BY <2>2, <2>3
<1>4. \A k \in Nat : k \in S
  <2> HIDE DEF S
  <2> QED BY <1>2, <1>3, Induction
<1>5. Rounds(nodes)[Len(nodes)] \cap T = {} BY <1>1, <1>4
<1> QED BY <1>5 DEF Valid, Ordered

\* The fan-in the barrier enforces: whoever goes through such a graph in its order has
\* verified, or reworked, something before the final task is done.
THEOREM FinalComesAfterChecks ==
  ASSUME NEW nodes \in Graph, NEW maxTasks, Valid(nodes, maxTasks),
         NEW D \in SUBSET Ids(nodes), \A t \in D : Deps(nodes, t) \subseteq D,
         NEW f \in Finals(nodes), f \in D,
         \E t \in Ids(nodes) : Kind(t) \in CheckKinds
  PROVE  \E c \in D : Kind(c) \in CheckKinds
<1> DEFINE S == {k \in Nat : k <= Len(nodes) => Back(nodes, f)[k] \subseteq D}
<1>1. Len(nodes) \in Nat BY LenProperties DEF Graph
<1>2. 0 \in S BY BackUnfold
<1>3. ASSUME NEW k \in Nat, k \in S PROVE k + 1 \in S
  <2> SUFFICES ASSUME k + 1 <= Len(nodes) PROVE Back(nodes, f)[k + 1] \subseteq D OBVIOUS
  <2>1. k + 1 \in 1 .. Len(nodes) /\ (k + 1) - 1 = k BY <1>1
  <2>2. Back(nodes, f)[k + 1]
          = Back(nodes, f)[k] \cup UNION {Deps(nodes, a) : a \in Back(nodes, f)[k]}
    BY <2>1, BackUnfold
  <2>3. Back(nodes, f)[k] \subseteq D BY <1>1, <1>3
  <2> QED BY <2>2, <2>3
<1>4. \A k \in Nat : k \in S
  <2> HIDE DEF S
  <2> QED BY <1>2, <1>3, Induction
<1>5. Ancestors(nodes, f) \subseteq D BY <1>1, <1>4 DEF Ancestors
<1> QED BY <1>5 DEF Valid, FanIn

--------------------------------------------------------------------------------
(* What default_planner makes.                                                     *)

LEMMA AppendGraphs ==
  ASSUME NEW g \in Graph, NEW h \in Graph
  PROVE  /\ g \o h \in Graph /\ Len(g \o h) = Len(g) + Len(h)
         /\ Ids(g \o h) = Ids(g) \cup Ids(h)
         /\ \A t : Deps(g \o h, t) = Deps(g, t) \cup Deps(h, t)
<1>1. /\ g \o h \in Graph /\ Len(g \o h) = Len(g) + Len(h)
      /\ Len(g) \in Nat /\ Len(h) \in Nat
      /\ DOMAIN g = 1 .. Len(g) /\ DOMAIN h = 1 .. Len(h)
      /\ DOMAIN (g \o h) = 1 .. Len(g) + Len(h)
  BY DEF Graph
<1>2. /\ \A i \in DOMAIN g : i \in DOMAIN (g \o h) /\ (g \o h)[i] = g[i]
      /\ \A i \in DOMAIN h : Len(g) + i \in DOMAIN (g \o h) /\ (g \o h)[Len(g) + i] = h[i]
  BY <1>1 DEF Graph
<1>3. ASSUME NEW i \in DOMAIN (g \o h), i \notin DOMAIN g
      PROVE  i - Len(g) \in DOMAIN h /\ (g \o h)[i] = h[i - Len(g)]
  <2>1. i - Len(g) \in DOMAIN h /\ Len(g) + (i - Len(g)) = i BY <1>1, <1>3
  <2> QED BY <1>2, <2>1
<1> DEFINE Nodes(s) == {s[i] : i \in DOMAIN s}
<1>4. Nodes(g \o h) = Nodes(g) \cup Nodes(h)
  <2>1. ASSUME NEW n \in Nodes(g \o h) PROVE n \in Nodes(g) \cup Nodes(h) BY <1>2, <1>3
  <2>2. ASSUME NEW n \in Nodes(g) PROVE n \in Nodes(g \o h) BY <1>2
  <2>3. ASSUME NEW n \in Nodes(h) PROVE n \in Nodes(g \o h) BY <1>2
  <2> QED BY <2>1, <2>2, <2>3
<1>5. \A s : /\ Ids(s) = {n.id : n \in Nodes(s)}
            /\ \A t : Deps(s, t) = UNION {n.deps : n \in {m \in Nodes(s) : m.id = t}}
  BY DEF Ids, Deps
<1> HIDE DEF Nodes
<1>6. Ids(g \o h) = Ids(g) \cup Ids(h) BY <1>4, <1>5
<1>7. \A t : Deps(g \o h, t) = Deps(g, t) \cup Deps(h, t) BY <1>4, <1>5
<1> QED BY <1>1, <1>6, <1>7

LEMMA OneNode ==
  ASSUME NEW k \in TaskKind, NEW n \in Nat, NEW D \in SUBSET TaskName
  PROVE  /\ <<Node(k, n, D)>> \in Graph /\ Len(<<Node(k, n, D)>>) = 1
         /\ Ids(<<Node(k, n, D)>>) = {<<k, n>>}
         /\ \A t : Deps(<<Node(k, n, D)>>, t) = IF t = <<k, n>> THEN D ELSE {}
<1> DEFINE g == <<Node(k, n, D)>>
<1>1. Node(k, n, D) \in [id : TaskName, deps : SUBSET TaskName]
  BY DEF Node, TaskName
<1>2. g \in Graph /\ Len(g) = 1 /\ DOMAIN g = {1} /\ g[1] = Node(k, n, D) BY <1>1 DEF Graph
<1>3. g[1].id = <<k, n>> /\ g[1].deps = D BY <1>2 DEF Node
<1> HIDE DEF g
<1>4. Ids(g) = {<<k, n>>} BY <1>2, <1>3 DEF Ids
<1>5. ASSUME NEW t PROVE Deps(g, t) = IF t = <<k, n>> THEN D ELSE {}
  BY <1>2, <1>3 DEF Deps
<1> QED BY <1>2, <1>4, <1>5 DEF g

LEMMA NoNode ==
  <<>> \in Graph /\ Len(<<>>) = 0 /\ Ids(<<>>) = {} /\ \A t : Deps(<<>>, t) = {}
BY DEF Graph, Ids, Deps

Works(req)       == {<<"work", i>> : i \in 1 .. Slices(req)}
Implemented(req) == <<IF Parallel(req) THEN "integration" ELSE "work", 1>>

LEMMA SlicesBounded ==
  ASSUME NEW req, PlanRequest(req)
  PROVE  /\ Slices(req) \in Nat \ {0}
         /\ Parallel(req) => Slices(req) <= req.maxTasks - (IF ReviewRequired(req) THEN 4 ELSE 2)
<1> DEFINE W == IF req.maxWorkers < 1 THEN 1 ELSE req.maxWorkers
           room == req.maxTasks - (IF ReviewRequired(req) THEN 4 ELSE 2)
           R == IF room < 0 THEN 0 ELSE room
<1>1. W \in Nat /\ R \in Nat /\ req.criteria \in Nat BY DEF PlanRequest
<1>2. Max({1, req.maxWorkers}) = W
  <2>1. W \in {1, req.maxWorkers} /\ \A y \in {1, req.maxWorkers} : W >= y BY DEF PlanRequest
  <2>2. \A x \in {1, req.maxWorkers} : (\A y \in {1, req.maxWorkers} : x >= y) => x = W
    BY DEF PlanRequest
  <2> QED BY <2>1, <2>2 DEF Max
<1>3. Max({0, room}) = R
  <2>1. R \in {0, room} /\ \A y \in {0, room} : R >= y BY DEF PlanRequest
  <2>2. \A x \in {0, room} : (\A y \in {0, room} : x >= y) => x = R BY DEF PlanRequest
  <2> QED BY <2>1, <2>2 DEF Max
<1>4. Fanout(req) = Min({req.criteria, W, R}) BY <1>2, <1>3 DEF Fanout
<1> HIDE DEF W, R
<1>5. \E x \in {req.criteria, W, R} : \A y \in {req.criteria, W, R} : x =< y
  <2>1. CASE req.criteria <= W /\ req.criteria <= R BY <1>1, <2>1
  <2>2. CASE W <= req.criteria /\ W <= R BY <1>1, <2>2
  <2>3. CASE R <= req.criteria /\ R <= W BY <1>1, <2>3
  <2> QED BY <1>1, <2>1, <2>2, <2>3
<1>6. Fanout(req) \in Nat /\ Fanout(req) <= R BY <1>1, <1>4, <1>5 DEF Min
<1>7. Parallel(req) => Fanout(req) <= room BY <1>6 DEF R, Parallel, PlanRequest
<1> QED BY <1>6, <1>7 DEF Slices, Parallel

\* The plan: slices of work, what joins them, their review and its gate, and the final task.
LEMMA PlanShape ==
  ASSUME NEW req, PlanRequest(req)
  PROVE  LET plan     == DefaultPlan(req)
             join     == IF Parallel(req) THEN {<<"integration", 1>>} ELSE {}
             reviewed == ReviewRequired(req)
         IN  /\ plan \in Graph
             /\ Len(plan) = Slices(req) + (IF Parallel(req) THEN 1 ELSE 0)
                                + (IF reviewed THEN 2 ELSE 0) + 1
             /\ Ids(plan) = Works(req) \cup join
                               \cup (IF reviewed THEN {<<"review", 1>>, <<"gate", 1>>} ELSE {})
                               \cup {<<"final", 1>>}
             /\ \A t \in Works(req) : Deps(plan, t) = {}
             /\ \A t \in join : Deps(plan, t) = Works(req)
             /\ Deps(plan, <<"review", 1>>) = IF reviewed THEN {Implemented(req)} ELSE {}
             /\ Deps(plan, <<"gate", 1>>) = IF reviewed THEN {<<"review", 1>>} ELSE {}
             /\ Deps(plan, <<"final", 1>>)
                   = {IF reviewed THEN <<"gate", 1>> ELSE Implemented(req)}
<1> DEFINE n       == Slices(req)
           par     == Parallel(req)
           rev     == ReviewRequired(req)
           work    == [i \in 1 .. n |-> Node("work", i, {})]
           ids     == {work[i].id : i \in DOMAIN work}
           joined  == IF ~par THEN <<>> ELSE <<Node("integration", 1, ids)>>
           checked == IF ~rev THEN <<>>
                      ELSE <<Node("review", 1, {Implemented(req)}), Node("gate", 1, {<<"review", 1>>})>>
           last    == IF rev THEN <<"gate", 1>> ELSE Implemented(req)
           final   == <<Node("final", 1, {last})>>
<1>1. DefaultPlan(req) = work \o joined \o checked \o final
  BY DEF DefaultPlan, Implemented
<1>2. n \in Nat \ {0} BY SlicesBounded
<1>3. /\ work \in Graph /\ Len(work) = n /\ DOMAIN work = 1 .. n
      /\ \A i \in 1 .. n : work[i].id = <<"work", i>> /\ work[i].deps = {}
  <2>1. \A i \in 1 .. n : Node("work", i, {}) \in [id : TaskName, deps : SUBSET TaskName]
    <3>1. \A i \in 1 .. n : i \in Nat BY <1>2
    <3>2. \A i \in 1 .. n : <<"work", i>> \in TaskName BY <3>1 DEF TaskName, TaskKind
    <3> QED BY <3>2 DEF Node
  <2>2. work \in Graph /\ Len(work) = n
    <3> HIDE DEF n
    <3> QED BY <1>2, <2>1 DEF Graph
  <2> QED BY <2>2 DEF Node
<1> HIDE DEF work
<1>4. Ids(work) = Works(req) /\ ids = Works(req) /\ \A t : Deps(work, t) = {}
  BY <1>3 DEF Ids, Deps, Works
<1>5. Works(req) \in SUBSET TaskName /\ Implemented(req) \in TaskName /\ last \in TaskName
  BY <1>2 DEF Works, TaskName, TaskKind, Implemented
<1>6. /\ joined \in Graph /\ Len(joined) = (IF par THEN 1 ELSE 0)
      /\ Ids(joined) = (IF par THEN {<<"integration", 1>>} ELSE {})
      /\ \A t : Deps(joined, t) = IF par /\ t = <<"integration", 1>> THEN Works(req) ELSE {}
  <2>1. "integration" \in TaskKind /\ 1 \in Nat BY DEF TaskKind
  <2>2. CASE ~par BY <2>2, NoNode
  <2>3. CASE par
    <3> HIDE DEF ids
    <3>1. joined = <<Node("integration", 1, ids)>> BY <2>3
    <3> HIDE DEF joined
    <3> QED BY <1>4, <1>5, <2>1, <2>3, <3>1, OneNode
  <2> QED BY <2>2, <2>3
<1>7. /\ checked \in Graph /\ Len(checked) = (IF rev THEN 2 ELSE 0)
      /\ Ids(checked) = (IF rev THEN {<<"review", 1>>, <<"gate", 1>>} ELSE {})
      /\ \A t : Deps(checked, t) = IF rev /\ t = <<"review", 1>> THEN {Implemented(req)}
                                   ELSE IF rev /\ t = <<"gate", 1>> THEN {<<"review", 1>>} ELSE {}
  <2>1. CASE ~rev BY <2>1, NoNode
  <2>3. {"review", "gate"} \subseteq TaskKind /\ 1 \in Nat BY DEF TaskKind
  <2>2. CASE rev
    <3> DEFINE a == <<Node("review", 1, {Implemented(req)})>>
               b == <<Node("gate", 1, {<<"review", 1>>})>>
    <3>1. checked = a \o b BY <2>2
    <3>2. /\ a \in Graph /\ Len(a) = 1 /\ Ids(a) = {<<"review", 1>>}
          /\ \A t : Deps(a, t) = IF t = <<"review", 1>> THEN {Implemented(req)} ELSE {}
      <4>1. {Implemented(req)} \in SUBSET TaskName BY <1>5
      <4> QED BY <2>3, <4>1, OneNode
    <3>3. /\ b \in Graph /\ Len(b) = 1 /\ Ids(b) = {<<"gate", 1>>}
          /\ \A t : Deps(b, t) = IF t = <<"gate", 1>> THEN {<<"review", 1>>} ELSE {}
      <4>1. {<<"review", 1>>} \in SUBSET TaskName BY DEF TaskName, TaskKind
      <4> QED BY <2>3, <4>1, OneNode
    <3> HIDE DEF a, b, checked
    <3>4. /\ a \o b \in Graph /\ Len(a \o b) = Len(a) + Len(b) /\ Ids(a \o b) = Ids(a) \cup Ids(b)
          /\ \A t : Deps(a \o b, t) = Deps(a, t) \cup Deps(b, t)
      BY <3>2, <3>3, AppendGraphs
    <3> HIDE DEF rev
    <3> QED BY <2>2, <3>1, <3>2, <3>3, <3>4
  <2> QED BY <2>1, <2>2
<1>8. /\ final \in Graph /\ Len(final) = 1 /\ Ids(final) = {<<"final", 1>>}
      /\ \A t : Deps(final, t) = IF t = <<"final", 1>> THEN {last} ELSE {}
  <2>1. "final" \in TaskKind /\ 1 \in Nat /\ {last} \in SUBSET TaskName BY <1>5 DEF TaskKind
  <2> HIDE DEF last
  <2> QED BY <2>1, OneNode
<1> HIDE DEF joined, checked, final
<1> DEFINE wj  == work \o joined
           wjc == wj \o checked
           g   == wjc \o final
<1>9. /\ wj \in Graph /\ Len(wj) = Len(work) + Len(joined)
      /\ Ids(wj) = Ids(work) \cup Ids(joined)
      /\ \A t : Deps(wj, t) = Deps(work, t) \cup Deps(joined, t)
  BY <1>3, <1>6, AppendGraphs
<1> HIDE DEF wj
<1>10. /\ wjc \in Graph /\ Len(wjc) = Len(wj) + Len(checked)
       /\ Ids(wjc) = Ids(wj) \cup Ids(checked)
       /\ \A t : Deps(wjc, t) = Deps(wj, t) \cup Deps(checked, t)
  BY <1>7, <1>9, AppendGraphs
<1> HIDE DEF wjc
<1>11. /\ g \in Graph /\ Len(g) = Len(wjc) + Len(final)
       /\ Ids(g) = Ids(wjc) \cup Ids(final)
       /\ \A t : Deps(g, t) = Deps(wjc, t) \cup Deps(final, t)
  BY <1>8, <1>10, AppendGraphs
<1> HIDE DEF g
<1>12. \A i : <<"work", i>> # <<"integration", 1>> /\ <<"work", i>> # <<"review", 1>>
              /\ <<"work", i>> # <<"gate", 1>> /\ <<"work", i>> # <<"final", 1>>
  OBVIOUS
<1>0. DefaultPlan(req) = g BY <1>1 DEF g, wjc, wj
<1>13. DefaultPlan(req) \in Graph
       /\ Len(DefaultPlan(req)) = n + (IF par THEN 1 ELSE 0) + (IF rev THEN 2 ELSE 0) + 1
  BY <1>0, <1>2, <1>3, <1>6, <1>7, <1>8, <1>9, <1>10, <1>11
<1>14. Ids(DefaultPlan(req))
         = Works(req) \cup (IF par THEN {<<"integration", 1>>} ELSE {})
             \cup (IF rev THEN {<<"review", 1>>, <<"gate", 1>>} ELSE {}) \cup {<<"final", 1>>}
  BY <1>0, <1>4, <1>6, <1>7, <1>8, <1>9, <1>10, <1>11
<1>15. \A t : Deps(DefaultPlan(req), t)
               = (IF par /\ t = <<"integration", 1>> THEN Works(req) ELSE {})
                   \cup (IF rev /\ t = <<"review", 1>> THEN {Implemented(req)}
                         ELSE IF rev /\ t = <<"gate", 1>> THEN {<<"review", 1>>} ELSE {})
                   \cup (IF t = <<"final", 1>> THEN {last} ELSE {})
  BY <1>0, <1>4, <1>6, <1>7, <1>8, <1>9, <1>10, <1>11
<1>16. \A t \in Works(req) : Deps(DefaultPlan(req), t) = {} BY <1>12, <1>15 DEF Works
<1> QED BY <1>13, <1>14, <1>15, <1>16

\* Tasks that can be numbered so that each comes after its dependencies are all put into
\* the order.
LEMMA RankedIsOrdered ==
  ASSUME NEW nodes \in Graph, NEW rank \in [Ids(nodes) -> Nat],
         \A t \in Ids(nodes) : rank[t] < Len(nodes),
         \A t \in Ids(nodes) : \A d \in Deps(nodes, t) \cap Ids(nodes) : rank[d] < rank[t]
  PROVE  Ordered(nodes) = Ids(nodes)
<1> DEFINE S == {k \in Nat : k <= Len(nodes)
                               => {t \in Ids(nodes) : rank[t] < k} \subseteq Rounds(nodes)[k]}
<1>1. Len(nodes) \in Nat BY LenProperties DEF Graph
<1>2. 0 \in S OBVIOUS
<1>3. ASSUME NEW k \in Nat, k \in S PROVE k + 1 \in S
  <2> SUFFICES ASSUME k + 1 <= Len(nodes), NEW t \in Ids(nodes), rank[t] < k + 1
               PROVE  t \in Rounds(nodes)[k + 1]
    OBVIOUS
  <2>1. k + 1 \in 1 .. Len(nodes) /\ (k + 1) - 1 = k BY <1>1
  <2>2. Rounds(nodes)[k + 1] = {u \in Ids(nodes) : Deps(nodes, u) \cap Ids(nodes)
                                                      \subseteq Rounds(nodes)[k]}
    BY <2>1, RoundsUnfold
  <2>3. \A u \in Ids(nodes) : rank[u] < k => u \in Rounds(nodes)[k] BY <1>1, <1>3
  <2>4. \A d \in Deps(nodes, t) \cap Ids(nodes) : rank[d] < k OBVIOUS
  <2> QED BY <2>2, <2>3, <2>4
<1>4. \A k \in Nat : k \in S
  <2> HIDE DEF S
  <2> QED BY <1>2, <1>3, Induction
<1>5. Ids(nodes) \subseteq Rounds(nodes)[Len(nodes)] BY <1>1, <1>4
<1>6. Rounds(nodes)[Len(nodes)] \subseteq Ids(nodes)
  <2>1. CASE Len(nodes) = 0 BY <2>1, RoundsUnfold
  <2>2. CASE Len(nodes) # 0
    <3>1. Len(nodes) \in 1 .. Len(nodes) BY <1>1, <2>2
    <3> QED BY <3>1, RoundsUnfold
  <2> QED BY <2>1, <2>2
<1> QED BY <1>5, <1>6 DEF Ordered

LEMMA WorksCounted ==
  ASSUME NEW req, PlanRequest(req)
  PROVE  IsFiniteSet(Works(req)) /\ Cardinality(Works(req)) = Slices(req)
<1> DEFINE n == Slices(req)
           f == [i \in 1 .. n |-> <<"work", i>>]
<1>1. n \in Nat BY SlicesBounded
<1>2. IsFiniteSet(1 .. n) /\ Cardinality(1 .. n) = n BY <1>1, FS_Interval
<1>3. f \in Bijection(1 .. n, Works(req))
  BY DEF Works, Bijection, Injection, Surjection, IsInjective
<1>4. ExistsBijection(1 .. n, Works(req)) BY <1>3 DEF ExistsBijection
<1> QED BY <1>2, <1>4, FS_Bijection

\* What default_planner makes passes the barrier, unless the task budget does not even have
\* room for one slice of work and what follows it (default_planner, validate_task_graph).
THEOREM PlannerPassesBarrier ==
  ASSUME NEW req, PlanRequest(req)
  PROVE  Valid(DefaultPlan(req), req.maxTasks)
           <=> req.maxTasks >= (IF ReviewRequired(req) THEN 4 ELSE 2)
<1> DEFINE plan == DefaultPlan(req)
           n    == Slices(req)
           par  == Parallel(req)
           rev  == ReviewRequired(req)
<1>1. n \in Nat \ {0} /\ (par => n <= req.maxTasks - (IF rev THEN 4 ELSE 2)) /\ (~par => n = 1)
  BY SlicesBounded DEF Slices
<1>2. /\ plan \in Graph
      /\ Len(plan) = n + (IF par THEN 1 ELSE 0) + (IF rev THEN 2 ELSE 0) + 1
      /\ Ids(plan) = Works(req) \cup (IF par THEN {<<"integration", 1>>} ELSE {})
                        \cup (IF rev THEN {<<"review", 1>>, <<"gate", 1>>} ELSE {})
                        \cup {<<"final", 1>>}
      /\ \A t \in Works(req) : Deps(plan, t) = {}
      /\ par => Deps(plan, <<"integration", 1>>) = Works(req)
      /\ rev => Deps(plan, <<"review", 1>>) = {Implemented(req)}
      /\ rev => Deps(plan, <<"gate", 1>>) = {<<"review", 1>>}
      /\ Deps(plan, <<"final", 1>>) = {IF rev THEN <<"gate", 1>> ELSE Implemented(req)}
  BY PlanShape
<1>3. /\ IsFiniteSet(Works(req)) /\ Cardinality(Works(req)) = n
      /\ \A t \in Works(req) : Kind(t) = "work" /\ \E i \in 1 .. n : t = <<"work", i>>
  BY WorksCounted DEF Works, Kind
<1>4. Implemented(req) \in Ids(plan) /\ (par => Implemented(req) = <<"integration", 1>>)
      /\ (~par => Implemented(req) \in Works(req))
  BY <1>1, <1>2 DEF Implemented, Works
<1>5. \A i : <<"work", i>> # <<"integration", 1>> /\ <<"work", i>> # <<"review", 1>>
             /\ <<"work", i>> # <<"gate", 1>> /\ <<"work", i>> # <<"final", 1>>
  OBVIOUS
<1>6. \A t \in Works(req) : t \notin {<<"integration", 1>>, <<"review", 1>>, <<"gate", 1>>,
                                     <<"final", 1>>}
  BY <1>5 DEF Works
<1> HIDE DEF plan, n, par, rev
<1>7. IsFiniteSet(Ids(plan)) /\ Cardinality(Ids(plan)) = Len(plan)
  <2> DEFINE A == Works(req) \cup (IF par THEN {<<"integration", 1>>} ELSE {})
             B == A \cup (IF rev THEN {<<"review", 1>>, <<"gate", 1>>} ELSE {})
  <2>1. IsFiniteSet(A) /\ Cardinality(A) = n + IF par THEN 1 ELSE 0
    <3>1. CASE par
      <4>1. A = Works(req) \cup {<<"integration", 1>>} BY <3>1
      <4> QED BY <1>1, <1>3, <1>6, <3>1, <4>1, FS_AddElement
    <3>2. CASE ~par BY <1>1, <1>3, <3>2
    <3> QED BY <3>1, <3>2
  <2>2. \A t \in {<<"review", 1>>, <<"gate", 1>>, <<"final", 1>>} : t \notin A BY <1>6
  <2> HIDE DEF A
  <2>3. IsFiniteSet(B) /\ Cardinality(B) = Cardinality(A) + IF rev THEN 2 ELSE 0
    <3>1. CASE rev
      <4>1. B = (A \cup {<<"review", 1>>}) \cup {<<"gate", 1>>} BY <3>1
      <4>2. <<"gate", 1>> \notin A \cup {<<"review", 1>>} BY <2>2
      <4>3. /\ IsFiniteSet(A \cup {<<"review", 1>>})
            /\ Cardinality(A \cup {<<"review", 1>>}) = Cardinality(A) + 1
        BY <2>1, <2>2, FS_AddElement
      <4>4. IsFiniteSet(B) /\ Cardinality(B) = Cardinality(A) + 1 + 1
        BY <4>1, <4>2, <4>3, FS_AddElement
      <4> QED BY <1>1, <2>1, <3>1, <4>4
    <3>2. CASE ~rev
      <4>1. B = A BY <3>2
      <4> QED BY <1>1, <2>1, <3>2, <4>1
    <3> QED BY <3>1, <3>2
  <2>4. <<"final", 1>> \notin B /\ Ids(plan) = B \cup {<<"final", 1>>} BY <1>2, <2>2 DEF A
  <2> HIDE DEF B
  <2>5. IsFiniteSet(Ids(plan)) /\ Cardinality(Ids(plan)) = Cardinality(B) + 1
    BY <2>3, <2>4, FS_AddElement
  <2> QED BY <1>1, <1>2, <2>1, <2>3, <2>5
<1>8. Len(plan) <= req.maxTasks <=> req.maxTasks >= IF rev THEN 4 ELSE 2
  BY <1>1, <1>2 DEF PlanRequest
<1>9. plan # <<>>
  <2>1. Len(plan) # 0 BY <1>1, <1>2
  <2> QED BY <2>1
<1>10. \A t \in Ids(plan) : Deps(plan, t) \subseteq Ids(plan) \ {t}
  BY <1>2, <1>4, <1>6
<1>11. Ordered(plan) = Ids(plan)
  <2> DEFINE rank == [t \in Ids(plan) |->
                        CASE t \in Works(req)         -> 0
                          [] t = <<"integration", 1>> -> 1
                          [] t = <<"review", 1>>      -> IF par THEN 2 ELSE 1
                          [] t = <<"gate", 1>>        -> IF par THEN 3 ELSE 2
                          [] t = <<"final", 1>>       -> Len(plan) - 1]
  <2>1. rank \in [Ids(plan) -> Nat] BY <1>1, <1>2, <1>6
  <2>2. par => n >= 1 /\ Len(plan) >= 3 /\ (rev => Len(plan) >= 5) BY <1>1, <1>2
  <2>3. ~par => Len(plan) = IF rev THEN 4 ELSE 2 BY <1>1, <1>2
  <2>4. \A t \in Ids(plan) : rank[t] < Len(plan) BY <1>1, <1>2, <1>6, <2>2, <2>3
  <2>5. \A t \in Works(req) : rank[t] = 0 BY <1>2, <1>6
  <2>6. ASSUME NEW t \in Ids(plan), NEW d \in Deps(plan, t) \cap Ids(plan)
        PROVE  rank[d] < rank[t]
    BY <1>1, <1>2, <1>4, <1>6, <2>2, <2>3, <2>5, <2>6
  <2> HIDE DEF rank
  <2> QED BY <1>2, <2>1, <2>4, <2>6, RankedIsOrdered
<1>12. Cardinality(Finals(plan)) = 1
  <2>1. Finals(plan) = {<<"final", 1>>} BY <1>2, <1>3 DEF Finals, Kind
  <2> QED BY <2>1, FS_Singleton
<1>13. FanIn(plan)
  <2>1. \A t \in Ids(plan) : Kind(t) \notin CheckKinds BY <1>2, <1>3 DEF Kind, CheckKinds
  <2> QED BY <2>1 DEF FanIn
<1>14. Valid(plan, req.maxTasks) <=> Len(plan) <= req.maxTasks
  BY <1>7, <1>9, <1>10, <1>11, <1>12, <1>13 DEF Valid
<1> QED BY <1>8, <1>14 DEF plan, rev
====
