---------------------------- MODULE DependencyGraph ----------------------------
(***************************************************************************)
(* The graph of the queue's dependencies, and what _validate_graph in      *)
(* scripts/agent_queue_store.py promises of it.  A graph is a function     *)
(* from the ids of the items that were loaded to the ids they depend on.   *)
(***************************************************************************)

Complete(graph) == \A i \in DOMAIN graph : graph[i] \subseteq DOMAIN graph

\* What is meant: every set of items has one that depends on none of the set.
Acyclic(graph) ==
    \A S \in SUBSET DOMAIN graph : S # {} => \E i \in S : graph[i] \cap S = {}

\* A slip: the search looks for missing items only.
AcceptedIfComplete(graph) == Complete(graph)

\* _validate_graph raises no error: DependencySearch, which has its steps, comes
\* to this answer.
Accepted(graph) == Complete(graph) /\ Acyclic(graph)
=============================================================================
