--------------------------- MODULE DependencySearch ---------------------------
(***************************************************************************)
(* The search for dependency cycles: _validate_graph and its visit in      *)
(* scripts/agent_queue_store.py, one call or return of visit at a time.    *)
(* The loops go through their items in any order.                          *)
(***************************************************************************)
EXTENDS DependencyGraph, Naturals, Sequences, FiniteSets

CONSTANT Nodes     \* queue ids

VARIABLES
    graph,      \* "items": what each of them depends on
    stage,      \* "looking" for missing items, "searching", or how it ended
    unvisited,  \* the items that the outermost loop has yet to visit
    mark,       \* "state": 0 not met yet, 1 on the path, 2 left
    path,       \* the items whose visit is under way, the outermost first
    pending,    \* the dependencies that the loop of an item's visit has left
    report      \* the cycle in the error message

svars == <<graph, stage, unvisited, mark, path, pending, report>>

\* Any finite graph; a dependency may be no item.
Graphs == UNION {[D -> SUBSET Nodes] : D \in {S \in SUBSET Nodes : IsFiniteSet(S)}}

SearchInit ==
    /\ graph \in Graphs
    /\ stage = "looking"
    /\ unvisited = DOMAIN graph
    /\ mark = [i \in DOMAIN graph |-> 0]
    /\ path = <<>>
    /\ pending = [i \in DOMAIN graph |-> {}]
    /\ report = <<>>

Top == path[Len(path)]

Ended == stage \in {"accepted", "missing", "cycle"}

LookForMissing ==
    /\ stage = "looking"
    /\ stage' = IF Complete(graph) THEN "searching" ELSE "missing"
    /\ UNCHANGED <<graph, unvisited, mark, path, pending, report>>

\* path.index
Position(i) == CHOOSE n \in DOMAIN path : path[n] = i

CycleFrom(i) == Append(SubSeq(path, Position(i), Len(path)), i)

Closes(i) == mark[i] = 1

Enter(i) == mark' = [mark EXCEPT ![i] = 1] /\ path' = Append(path, i)

\* A call of visit, up to its loop; "left" is what the caller's loop has left.
Visit(i, left) ==
    \/ /\ Closes(i)
       /\ stage' = "cycle" /\ report' = CycleFrom(i)
       /\ pending' = left /\ UNCHANGED <<mark, path>>
    \/ /\ ~ Closes(i) /\ mark[i] # 0
       /\ pending' = left /\ UNCHANGED <<stage, mark, path, report>>
    \/ /\ ~ Closes(i) /\ mark[i] = 0
       /\ Enter(i) /\ pending' = [left EXCEPT ![i] = graph[i]]
       /\ UNCHANGED <<stage, report>>

\* The outermost loop visits an item.
Start(i) ==
    /\ stage = "searching" /\ path = <<>> /\ i \in unvisited
    /\ unvisited' = unvisited \ {i}
    /\ Visit(i, pending)
    /\ UNCHANGED graph

\* The loop of the innermost visit comes to a dependency.
Descend(d) ==
    /\ stage = "searching" /\ path # <<>> /\ d \in pending[Top]
    /\ Visit(d, [pending EXCEPT ![Top] = @ \ {d}])
    /\ UNCHANGED <<graph, unvisited>>

Popped == SubSeq(path, 1, Len(path) - 1)

\* The innermost visit ends.
Return ==
    /\ stage = "searching" /\ path # <<>> /\ pending[Top] = {}
    /\ path' = Popped
    /\ mark' = [mark EXCEPT ![Top] = 2]
    /\ UNCHANGED <<graph, stage, unvisited, pending, report>>

Accept ==
    /\ stage = "searching" /\ path = <<>> /\ unvisited = {}
    /\ stage' = "accepted"
    /\ UNCHANGED <<graph, unvisited, mark, path, pending, report>>

SearchNext ==
    \/ LookForMissing
    \/ \E i \in Nodes : Start(i) \/ Descend(i)
    \/ Return \/ Accept

\* The search is a loop of one process.
SearchSpec == SearchInit /\ [][SearchNext]_svars /\ WF_svars(SearchNext)

-----------------------------------------------------------------------------
(* Properties *)

SearchTypeOK ==
    /\ graph \in UNION {[D -> SUBSET Nodes] : D \in SUBSET Nodes}
    /\ IsFiniteSet(DOMAIN graph)
    /\ stage \in {"looking", "searching", "accepted", "missing", "cycle"}
    /\ unvisited \subseteq DOMAIN graph
    /\ mark \in [DOMAIN graph -> 0 .. 2]
    /\ path \in Seq(DOMAIN graph)
    /\ pending \in [DOMAIN graph -> SUBSET Nodes]
    /\ report \in Seq(Nodes)

\* The marks of a depth-first search tell a cycle from an item that two others
\* depend on, whatever the graph and the order of its items: the answer is the
\* one that Accepted stands for, and an error is the right one.
AnswerRight ==
    /\ stage = "accepted" => Accepted(graph)
    /\ stage = "missing" => ~ Complete(graph)
    /\ stage = "cycle" => Complete(graph) /\ ~ Acyclic(graph)

\* "path" and "state" agree: path.index finds any item marked 1 (it raises
\* ValueError otherwise, which no caller expects), and nothing is on it twice.
PathIsMarked ==
    /\ \A i \in DOMAIN graph : mark[i] = 1 <=> \E n \in DOMAIN path : path[n] = i
    /\ \A m, n \in DOMAIN path : path[m] = path[n] => m = n

\* The cycle in the message is one: each item depends on the next, the last is
\* the first again.
ReportIsCycle ==
    stage = "cycle" =>
        /\ Len(report) > 1 /\ report[1] = report[Len(report)]
        /\ \A n \in 1 .. Len(report) - 1 : report[n + 1] \in graph[report[n]]

\* The recursion is never deeper than there are items, in a graph with cycles
\* neither (Python ends it with RecursionError at about 1000).
DepthBounded == Len(path) <= Cardinality(DOMAIN graph)

\* It comes to an end.
SearchEnds == <>Ended
=============================================================================
