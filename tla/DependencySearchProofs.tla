------------------------ MODULE DependencySearchProofs ------------------------
(***************************************************************************)
(* Theorems about DependencySearch: for any finite graph of any ids, the   *)
(* search gives the right answer, reports a cycle that is one, and goes no *)
(* deeper than there are items.                                            *)
(***************************************************************************)
EXTENDS DependencySearch, FiniteSetTheorems, FunctionTheorems, TLAPS

-----------------------------------------------------------------------------
(* The inductive invariant *)

Left == {i \in DOMAIN graph : mark[i] = 2}

\* The path: each item depends on the next.
PathDepends == \A n \in 1 .. Len(path) - 1 : path[n + 1] \in graph[path[n]]

\* What the loop of an item's visit has done with is left, or is the visit it is in.
LoopsDone ==
    \A n \in DOMAIN path :
        /\ pending[path[n]] \subseteq graph[path[n]]
        /\ \A d \in graph[path[n]] \ pending[path[n]] :
             mark[d] = 2 \/ (n < Len(path) /\ d = path[n + 1])

\* What is left depends only on what is left, and not in a circle.
LeftIsDone ==
    /\ \A i \in Left : graph[i] \subseteq Left
    /\ \A S \in SUBSET Left : S # {} => \E i \in S : graph[i] \cap S = {}

SearchInv ==
    /\ SearchTypeOK
    /\ PathIsMarked
    /\ PathDepends
    /\ LeftIsDone
    /\ stage \in {"looking", "missing"} => path = <<>>
    /\ stage \in {"searching", "accepted", "cycle"} => Complete(graph)
    /\ stage = "searching" => LoopsDone
    /\ \A i \in DOMAIN graph : i \in unvisited \/ mark[i] # 0
    /\ AnswerRight
    /\ ReportIsCycle

\* A path that comes back to one of its items shows a set without a way out.
LEMMA PathBackIsCycle ==
    ASSUME NEW g, NEW p \in Seq(DOMAIN g), NEW k \in DOMAIN p,
           \A n \in 1 .. Len(p) - 1 : p[n + 1] \in g[p[n]],
           p[k] \in g[p[Len(p)]]
    PROVE  ~ Acyclic(g)
<1> DEFINE S == {p[n] : n \in k .. Len(p)}
<1>1. S \in SUBSET DOMAIN g /\ S # {}
  OBVIOUS
<1>2. \A i \in S : g[i] \cap S # {}
  <2> SUFFICES ASSUME NEW n \in k .. Len(p)
               PROVE  g[p[n]] \cap S # {}
    OBVIOUS
  <2>1. CASE n = Len(p)
    <3>1. p[k] \in S /\ p[k] \in g[p[n]]
      BY <2>1
    <3> QED
      BY <3>1
  <2>2. CASE n # Len(p)
    <3>1. n + 1 \in k .. Len(p) /\ p[n + 1] \in g[p[n]]
      BY <2>2
    <3> QED
      BY <3>1
  <2> QED
    BY <2>1, <2>2
<1> QED
  BY <1>1, <1>2 DEF Acyclic

\* The part of a path from its item k on, with that item again, is a cycle.
LEMMA PathBackReported ==
    ASSUME NEW g, NEW p \in Seq(DOMAIN g), NEW k \in DOMAIN p,
           \A n \in 1 .. Len(p) - 1 : p[n + 1] \in g[p[n]],
           p[k] \in g[p[Len(p)]]
    PROVE  LET r == Append(SubSeq(p, k, Len(p)), p[k])
           IN  /\ r \in Seq(DOMAIN g)
               /\ Len(r) > 1 /\ r[1] = r[Len(r)]
               /\ \A n \in 1 .. Len(r) - 1 : r[n + 1] \in g[r[n]]
<1> DEFINE c == SubSeq(p, k, Len(p))
           r == Append(c, p[k])
<1>1. k \in Nat /\ k \in 1 .. Len(p) /\ Len(p) \in Nat
  OBVIOUS
<1>2. /\ c \in Seq(DOMAIN g) /\ Len(c) = Len(p) - k + 1
      /\ \A n \in 1 .. Len(c) : c[n] = p[k + n - 1]
  BY <1>1
<1> HIDE DEF c
<1>3. r \in Seq(DOMAIN g) /\ Len(r) = Len(p) - k + 2 /\ r[Len(p) - k + 2] = p[k]
  BY <1>1, <1>2
<1>4. \A n \in 1 .. Len(p) - k + 1 : r[n] = p[k + n - 1]
  BY <1>1, <1>2
<1> HIDE DEF r
<1>5. ASSUME NEW n \in 1 .. Len(p) - k + 1
      PROVE  r[n + 1] \in g[r[n]]
  <2>1. r[n] = p[k + n - 1] /\ k + n - 1 \in 1 .. Len(p)
    BY <1>1, <1>4
  <2>2. CASE n = Len(p) - k + 1
    <3>1. n + 1 = Len(p) - k + 2 /\ k + n - 1 = Len(p)
      BY <1>1, <2>2
    <3> QED
      BY <1>3, <2>1, <3>1
  <2>3. CASE n < Len(p) - k + 1
    <3> DEFINE m == k + n - 1
    <3>1. /\ m \in 1 .. Len(p) - 1 /\ n + 1 \in 1 .. Len(p) - k + 1
          /\ k + (n + 1) - 1 = m + 1
      BY <1>1, <2>3
    <3>2. p[m + 1] \in g[p[m]]
      BY <3>1
    <3>3. r[n + 1] = p[m + 1]
      BY <1>4, <3>1
    <3> QED
      BY <2>1, <3>2, <3>3
  <2> QED
    BY <1>1, <2>2, <2>3
<1>6. r[1] = p[k] /\ Len(r) > 1
  <2>1. 1 \in 1 .. Len(p) - k + 1 /\ k + 1 - 1 = k
    BY <1>1
  <2> QED
    BY <1>1, <1>3, <1>4, <2>1
<1>7. r[1] = r[Len(r)] /\ \A n \in 1 .. Len(r) - 1 : r[n + 1] \in g[r[n]]
  BY <1>1, <1>3, <1>5, <1>6
<1> QED
  BY <1>3, <1>6, <1>7 DEF r, c

-----------------------------------------------------------------------------
(* One call of visit *)

\* What a caller has done before the call: the dependency is out of its loop, and
\* depends on the innermost visit, if there is one.
Called(i, left) ==
    /\ i \in DOMAIN graph
    /\ left \in [DOMAIN graph -> SUBSET Nodes]
    /\ path # <<>> => i \in graph[Top]
    /\ \A n \in DOMAIN path :
         /\ left[path[n]] \subseteq graph[path[n]]
         /\ \A d \in graph[path[n]] \ left[path[n]] :
              \/ mark[d] = 2
              \/ n < Len(path) /\ d = path[n + 1]
              \/ n = Len(path) /\ d = i

\* A call of visit keeps the invariant, whatever its caller's loop has left.
LEMMA VisitPreserves ==
    ASSUME SearchInv, stage = "searching", NEW i, NEW left, Called(i, left),
           Visit(i, left), graph' = graph, unvisited' \in SUBSET unvisited,
           \A j \in unvisited \ unvisited' : j = i
    PROVE  SearchInv'
<1> USE DEF SearchInv, SearchTypeOK, AnswerRight, ReportIsCycle
<1>1. CASE Closes(i)
  <2>1. /\ stage' = "cycle" /\ report' = CycleFrom(i) /\ pending' = left
        /\ mark' = mark /\ path' = path /\ mark[i] = 1
    BY <1>1 DEF Visit, Closes
  <2>2. PICK k \in DOMAIN path : path[k] = i /\ Position(i) = k
    BY <2>1 DEF PathIsMarked, Called, Position
  <2>3. path # <<>> /\ k \in 1 .. Len(path) /\ i \in graph[path[Len(path)]]
    BY <2>2 DEF Called, Top
  <2>4. ~ Acyclic(graph)
    BY <2>2, <2>3, PathBackIsCycle DEF PathDepends
  <2>5. /\ report' \in Seq(DOMAIN graph)
        /\ Len(report') > 1 /\ report'[1] = report'[Len(report')]
        /\ \A n \in 1 .. Len(report') - 1 : report'[n + 1] \in graph[report'[n]]
    <3> DEFINE r == Append(SubSeq(path, k, Len(path)), path[k])
    <3>1. report' = r
      BY <2>1, <2>2 DEF CycleFrom
    <3>2. \A n \in 1 .. Len(path) - 1 : path[n + 1] \in graph[path[n]]
      BY DEF PathDepends
    <3>3. path[k] \in graph[path[Len(path)]]
      BY <2>2, <2>3
    <3>4. path \in Seq(DOMAIN graph)
      OBVIOUS
    <3>5. /\ r \in Seq(DOMAIN graph)
          /\ Len(r) > 1 /\ r[1] = r[Len(r)]
          /\ \A n \in 1 .. Len(r) - 1 : r[n + 1] \in graph[r[n]]
      BY <2>2, <3>2, <3>3, <3>4, PathBackReported
    <3> QED
      BY <3>1, <3>5
  <2>6. report' \in Seq(Nodes)
    <3>1. DOMAIN graph \subseteq Nodes
      OBVIOUS
    <3> QED
      BY <2>5, <3>1
  <2>7. /\ SearchTypeOK' /\ PathIsMarked' /\ PathDepends'
    BY <2>1, <2>6 DEF PathIsMarked, PathDepends, Called
  <2>8. LeftIsDone'
    BY <2>1 DEF LeftIsDone, Left
  <2>9. AnswerRight' /\ ReportIsCycle'
    BY <2>1, <2>4, <2>5 DEF Complete, Acyclic
  <2> QED
    BY <2>1, <2>7, <2>8, <2>9 DEF Called, Complete
<1>2. CASE ~ Closes(i) /\ mark[i] # 0
  <2>1. /\ pending' = left /\ mark[i] = 2
        /\ stage' = stage /\ mark' = mark /\ path' = path /\ report' = report
    BY <1>2 DEF Visit, Closes, Called
  <2>2. LoopsDone'
    BY <2>1 DEF LoopsDone, Called
  <2> QED
    BY <2>1, <2>2 DEF PathIsMarked, PathDepends, LeftIsDone, Left, Called, Complete
<1>3. CASE ~ Closes(i) /\ mark[i] = 0
  <2>1. /\ mark' = [mark EXCEPT ![i] = 1] /\ path' = Append(path, i)
        /\ pending' = [left EXCEPT ![i] = graph[i]]
        /\ stage' = stage /\ report' = report
    BY <1>3 DEF Visit, Enter
  <2>2. /\ path' \in Seq(DOMAIN graph) /\ Len(path') = Len(path) + 1
        /\ path'[Len(path')] = i
        /\ \A n \in 1 .. Len(path) : path'[n] = path[n] /\ path[n] # i
    BY <1>3, <2>1 DEF Called, PathIsMarked
  <2>3. SearchTypeOK'
    BY <2>1, <2>2 DEF Called
  <2>4. PathIsMarked'
    <3>1. \A n \in DOMAIN path' : n \in 1 .. Len(path) \/ n = Len(path')
      BY <2>2
    <3>2. DOMAIN path' = 1 .. Len(path') /\ DOMAIN path = 1 .. Len(path)
      BY <2>2
    <3>3. ASSUME NEW j \in DOMAIN graph
          PROVE  mark'[j] = 1 <=> \E n \in DOMAIN path' : path'[n] = j
      <4>1. CASE j = i
        BY <2>1, <2>2, <3>2, <4>1
      <4>2. CASE j # i
        <5>1. mark'[j] = mark[j]
          BY <2>1, <4>2
        <5> QED
          BY <2>2, <3>1, <3>2, <4>2, <5>1 DEF PathIsMarked
      <4> QED
        BY <4>1, <4>2
    <3> QED
      BY <2>1, <2>2, <3>1, <3>2, <3>3 DEF PathIsMarked
  <2>5. PathDepends'
    BY <2>2 DEF PathDepends, Called, Top
  <2>6. LoopsDone'
    <3>1. ASSUME NEW n \in 1 .. Len(path)
          PROVE  /\ pending'[path'[n]] \subseteq graph[path'[n]]
                 /\ \A d \in graph[path'[n]] \ pending'[path'[n]] :
                      mark'[d] = 2 \/ (n < Len(path') /\ d = path'[n + 1])
      <4>1. path'[n] = path[n] /\ path[n] # i /\ pending'[path[n]] = left[path[n]]
        BY <2>1, <2>2 DEF Called
      <4>2. \A d \in graph[path[n]] : mark[d] = 2 => mark'[d] = 2
        BY <1>3, <2>1 DEF Complete
      <4>3. CASE n < Len(path)
        <5>1. path'[n + 1] = path[n + 1] /\ n < Len(path')
          BY <2>2, <4>3
        <5> QED
          BY <4>1, <4>2, <4>3, <5>1 DEF Called
      <4>4. CASE n = Len(path)
        <5>1. path'[n + 1] = i /\ n < Len(path')
          BY <2>2, <4>4
        <5> QED
          BY <4>1, <4>2, <4>4, <5>1 DEF Called
      <4> QED
        BY <4>3, <4>4
    <3>2. pending'[i] = graph[i]
      BY <2>1 DEF Called
    <3> QED
      BY <2>2, <3>1, <3>2 DEF LoopsDone
  <2>7. Left' = Left
    BY <1>3, <2>1 DEF Left
  <2> QED
    BY <2>1, <2>3, <2>4, <2>5, <2>6, <2>7 DEF LeftIsDone, Called, Complete
<1> QED
  BY <1>1, <1>2, <1>3

-----------------------------------------------------------------------------
(* The steps of the search *)

\* So does the outermost loop,
LEMMA StartPreserves ==
    ASSUME SearchInv, NEW i \in Nodes, Start(i)
    PROVE  SearchInv'
<1>1. /\ stage = "searching" /\ path = <<>> /\ i \in unvisited
      /\ unvisited' = unvisited \ {i} /\ graph' = graph /\ Visit(i, pending)
  BY DEF Start
<1>2. Called(i, pending)
  BY <1>1 DEF Called, SearchInv, SearchTypeOK
<1> QED
  BY <1>1, <1>2, VisitPreserves

\* the loop of a visit,
LEMMA DescendPreserves ==
    ASSUME SearchInv, NEW d \in Nodes, Descend(d)
    PROVE  SearchInv'
<1> DEFINE left == [pending EXCEPT ![Top] = @ \ {d}]
<1>1. /\ stage = "searching" /\ path # <<>> /\ d \in pending[Top]
      /\ unvisited' = unvisited /\ graph' = graph /\ Visit(d, left)
  BY DEF Descend
<1>2. /\ path \in Seq(DOMAIN graph) /\ Len(path) \in DOMAIN path /\ Top \in DOMAIN graph
      /\ LoopsDone /\ PathIsMarked /\ Complete(graph)
      /\ pending \in [DOMAIN graph -> SUBSET Nodes]
  BY <1>1 DEF SearchInv, SearchTypeOK, Top
<1>3. d \in graph[Top] /\ d \in DOMAIN graph
  BY <1>1, <1>2 DEF LoopsDone, Top, Complete
<1>4. ASSUME NEW n \in DOMAIN path
      PROVE  /\ left[path[n]] \subseteq graph[path[n]]
             /\ \A e \in graph[path[n]] \ left[path[n]] :
                  \/ mark[e] = 2
                  \/ n < Len(path) /\ e = path[n + 1]
                  \/ n = Len(path) /\ e = d
  <2>1. CASE n = Len(path)
    <3>1. left[path[n]] = pending[path[n]] \ {d}
      BY <1>2, <2>1 DEF Top
    <3> QED
      BY <1>2, <2>1, <3>1 DEF LoopsDone
  <2>2. CASE n # Len(path)
    <3>1. path[n] # Top
      BY <1>2, <2>2 DEF PathIsMarked, Top
    <3>2. left[path[n]] = pending[path[n]]
      BY <1>2, <3>1
    <3> QED
      BY <1>2, <2>2, <3>2 DEF LoopsDone
  <2> QED
    BY <2>1, <2>2
<1>5. Called(d, left)
  BY <1>2, <1>3, <1>4 DEF Called
<1> HIDE DEF left
<1> QED
  BY <1>1, <1>5, VisitPreserves

\* and the end of a visit.
LEMMA ReturnPreserves ==
    ASSUME SearchInv, Return
    PROVE  SearchInv'
<1> USE DEF SearchInv, SearchTypeOK
<1>1. /\ stage = "searching" /\ path # <<>> /\ pending[Top] = {}
      /\ path' = SubSeq(path, 1, Len(path) - 1) /\ mark' = [mark EXCEPT ![Top] = 2]
      /\ UNCHANGED <<graph, stage, unvisited, pending, report>>
  BY DEF Return, Popped
<1>2. /\ Len(path) \in DOMAIN path /\ Top \in DOMAIN graph /\ Top = path[Len(path)]
      /\ mark[Top] = 1
  BY <1>1 DEF PathIsMarked, Top
<1>3. /\ path' \in Seq(DOMAIN graph) /\ Len(path') = Len(path) - 1
      /\ \A n \in 1 .. Len(path) - 1 : path'[n] = path[n] /\ path[n] # Top
  <2>1. /\ Len(path) \in Nat \ {0} /\ DOMAIN path = 1 .. Len(path)
        /\ \A n \in 1 .. Len(path) : path[n] \in DOMAIN graph
    BY <1>1
  <2>2. /\ SubSeq(path, 1, Len(path) - 1) \in Seq(DOMAIN graph)
        /\ Len(SubSeq(path, 1, Len(path) - 1)) = Len(path) - 1
        /\ \A n \in 1 .. Len(path) - 1 : SubSeq(path, 1, Len(path) - 1)[n] = path[n]
    BY <2>1
  <2>3. \A n \in 1 .. Len(path) - 1 : path[n] # path[Len(path)]
    BY <2>1 DEF PathIsMarked
  <2> QED
    BY <1>1, <1>2, <2>2, <2>3
<1>4. graph[Top] \subseteq Left
  BY <1>1, <1>2 DEF LoopsDone, Left, Complete
<1>5. Left' = Left \cup {Top}
  BY <1>1, <1>2 DEF Left
<1>6. LeftIsDone'
  <2>1. ASSUME NEW S \in SUBSET (Left \cup {Top}), S # {}
        PROVE  \E j \in S : graph[j] \cap S = {}
    <3> HIDE DEF SearchInv, SearchTypeOK
    <3>1. CASE S \cap Left = {}
      <4>1. S = {Top} /\ graph[Top] \cap S = {}
        BY <1>4, <2>1, <3>1
      <4> QED
        BY <4>1
    <3>2. CASE S \cap Left # {}
      <4>1. PICK j \in S \cap Left : graph[j] \cap (S \cap Left) = {}
        <5>1. S \cap Left \in SUBSET Left
          OBVIOUS
        <5> QED
          BY <3>2, <5>1 DEF SearchInv, LeftIsDone
      <4>2. graph[j] \subseteq Left
        BY DEF SearchInv, LeftIsDone
      <4>3. graph[j] \cap S = {}
        BY <4>1, <4>2
      <4> QED
        BY <4>3
    <3> QED
      BY <3>1, <3>2
  <2> QED
    BY <1>1, <1>4, <1>5, <2>1 DEF LeftIsDone
<1>7. PathIsMarked'
  <2>1. /\ Len(path) \in Nat /\ DOMAIN path = 1 .. Len(path)
        /\ DOMAIN path' = 1 .. Len(path) - 1
    BY <1>3
  <2>2. ASSUME NEW j \in DOMAIN graph
        PROVE  mark'[j] = 1 <=> \E n \in DOMAIN path' : path'[n] = j
    <3>1. CASE j = Top
      BY <1>1, <1>2, <1>3, <2>1, <3>1
    <3>2. CASE j # Top
      <4>1. mark'[j] = mark[j]
        BY <1>1, <3>2
      <4>2. mark[j] = 1 <=> \E n \in 1 .. Len(path) : path[n] = j
        BY <2>1 DEF PathIsMarked
      <4>3. \A n \in 1 .. Len(path) : path[n] = j => n \in 1 .. Len(path) - 1
        BY <1>2, <2>1, <3>2
      <4> HIDE DEF SearchInv, SearchTypeOK
      <4>4. \A n \in 1 .. Len(path) - 1 : n \in 1 .. Len(path) /\ path'[n] = path[n]
        BY <1>3, <2>1
      <4> QED
        BY <2>1, <4>1, <4>2, <4>3, <4>4
    <3> QED
      BY <3>1, <3>2
  <2> QED
    BY <1>1, <1>3, <2>1, <2>2 DEF PathIsMarked
<1>8. PathDepends'
  BY <1>1, <1>3 DEF PathDepends
<1>9. LoopsDone'
  BY <1>1, <1>2, <1>3 DEF LoopsDone, Complete
<1> QED
  BY <1>1, <1>2, <1>3, <1>6, <1>7, <1>8, <1>9 DEF AnswerRight, ReportIsCycle, Complete

\* The inductive invariant holds for any finite set of ids.
THEOREM SearchInvariant == SearchSpec => []SearchInv
<1>1. SearchInit => SearchInv
  BY DEF SearchInit, Graphs, SearchInv, SearchTypeOK, PathIsMarked, PathDepends, LeftIsDone, Left,
         AnswerRight, ReportIsCycle
<1>2. SearchInv /\ [SearchNext]_svars => SearchInv'
  <2> SUFFICES ASSUME SearchInv, [SearchNext]_svars
               PROVE  SearchInv'
    OBVIOUS
  <2>1. CASE LookForMissing
    BY <2>1
    DEF LookForMissing, SearchInv, SearchTypeOK, PathIsMarked, PathDepends, LeftIsDone, Left,
        LoopsDone, AnswerRight, ReportIsCycle, Complete
  <2>2. CASE \E i \in Nodes : Start(i) \/ Descend(i)
    BY <2>2, StartPreserves, DescendPreserves
  <2>3. CASE Return
    BY <2>3, ReturnPreserves
  <2>4. CASE Accept
    <3>1. /\ stage = "searching" /\ path = <<>> /\ unvisited = {} /\ stage' = "accepted"
          /\ UNCHANGED <<graph, unvisited, mark, path, pending, report>>
      BY <2>4 DEF Accept
    <3>2. Left = DOMAIN graph
      <4>1. \A i \in DOMAIN graph : mark[i] # 0 /\ mark[i] \in 0 .. 2
        BY <3>1 DEF SearchInv, SearchTypeOK
      <4>2. \A i \in DOMAIN graph : mark[i] # 1
        BY <3>1 DEF SearchInv, PathIsMarked
      <4> QED
        BY <4>1, <4>2 DEF Left
    <3>3. Accepted(graph)
      BY <3>1, <3>2 DEF SearchInv, LeftIsDone, Accepted, Acyclic
    <3> QED
      BY <3>1, <3>3
      DEF SearchInv, SearchTypeOK, PathIsMarked, PathDepends, LeftIsDone, Left,
          AnswerRight, ReportIsCycle, Complete, Accepted, Acyclic
  <2>5. CASE UNCHANGED svars
    BY <2>5
    DEF svars, SearchInv, SearchTypeOK, PathIsMarked, PathDepends, LeftIsDone, Left,
        LoopsDone, AnswerRight, ReportIsCycle, Complete, Accepted, Acyclic
  <2> QED
    BY <2>1, <2>2, <2>3, <2>4, <2>5 DEF SearchNext
<1> QED
  BY <1>1, <1>2, PTL DEF SearchSpec

-----------------------------------------------------------------------------
(* What follows from it *)

\* The search accepts a graph only if it is complete and without a cycle, and an
\* error it raises is the right one.
THEOREM SearchCorrect == SearchSpec => []AnswerRight
<1>1. SearchInv => AnswerRight
  BY DEF SearchInv
<1> QED
  BY <1>1, SearchInvariant, PTL

\* path.index finds the item whose cycle is reported.
THEOREM SearchPathMarked == SearchSpec => []PathIsMarked
<1>1. SearchInv => PathIsMarked
  BY DEF SearchInv
<1> QED
  BY <1>1, SearchInvariant, PTL

\* What is reported as a cycle is one.
THEOREM ReportedCycleReal == SearchSpec => []ReportIsCycle
<1>1. SearchInv => ReportIsCycle
  BY DEF SearchInv
<1> QED
  BY <1>1, SearchInvariant, PTL

\* The recursion is no deeper than there are items, for nothing is on the path twice.
THEOREM SearchDepth == SearchSpec => []DepthBounded
<1>1. SearchInv => DepthBounded
  <2> SUFFICES ASSUME SearchInv
               PROVE  DepthBounded
    OBVIOUS
  <2>1. path \in Seq(DOMAIN graph) /\ Len(path) \in Nat /\ DOMAIN path = 1 .. Len(path)
    BY DEF SearchInv, SearchTypeOK
  <2>2. IsFiniteSet(DOMAIN graph)
    BY DEF SearchInv, SearchTypeOK
  <2>3. path \in Injection(1 .. Len(path), DOMAIN graph)
    <3>1. \A m, n \in 1 .. Len(path) : path[m] = path[n] => m = n
      BY <2>1 DEF SearchInv, PathIsMarked
    <3>2. path \in [1 .. Len(path) -> DOMAIN graph]
      BY <2>1
    <3> QED
      BY <3>1, <3>2, Fun_IsInj
  <2>4. IsFiniteSet(1 .. Len(path)) /\ Cardinality(1 .. Len(path)) = Len(path)
    <3> DEFINE L == Len(path)
    <3>1. 1 \in Int /\ L \in Int
      BY <2>1
    <3> HIDE DEF L
    <3>2. /\ IsFiniteSet(1 .. L)
          /\ Cardinality(1 .. L) = IF 1 > L THEN 0 ELSE L - 1 + 1
      BY <3>1, FS_Interval, Zenon
    <3> QED
      BY <2>1, <3>2 DEF L
  <2>5. Cardinality(1 .. Len(path)) <= Cardinality(DOMAIN graph)
    BY <2>2, <2>3, <2>4, FS_Injection
  <2> QED
    BY <2>4, <2>5 DEF DepthBounded
<1> QED
  BY <1>1, SearchInvariant, PTL
=============================================================================
