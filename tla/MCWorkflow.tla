------------------------------ MODULE MCWorkflow ------------------------------
(***************************************************************************)
(* One piece of work for TLC.                                              *)
(***************************************************************************)
EXTENDS Workflow

CONSTANTS a, b, u1, u2

(* One flag of each kind: it makes the work LARGE with a specialist, LARGE   *)
(* without one, or MEDIUM.                                                   *)
EachKind == {"secrets", "release", "tool-schema"}
SmallShapes ==
    [persistent : BOOLEAN, reversible : BOOLEAN, unresolved : BOOLEAN,
     burst : BOOLEAN, steps : {1, 2}, independent : {0, 1, 3, 7}, flags : SUBSET EachKind]

Packet(scopes, files, expands) ==
    [flags |-> {"release"}, acceptanceCriteria |-> {"works"}, exclusiveScopes |-> scopes,
     requiredValidation |-> {"tests"},
     budget |-> [files |-> files, tools |-> 1, allowExpansion |-> expands]]
SomePackets == {Packet({}, 1, TRUE), Packet({"api"}, MaxContextFiles + 1, TRUE)}
               \cup {Packet({"api"}, MaxContextFiles, e) : e \in BOOLEAN}

(* Lists of checks: one, a failed one, two different ones, one twice. *)
Passed == Entry("tests", "PASS")
DistinctChecks == {<<Passed>>, <<Entry("tests", "FAIL")>>, <<Entry("lint", "FIXED"), Passed>>}
AnyChecks == DistinctChecks \cup {<<Passed, Passed>>, <<>>}

(* Two tracked files, clean at first, and an untracked one, which is a large  *)
(* file of one or the other content, but of the same size, or is not there.   *)
TwoContents == {a, b}
LargeFiles == {u1, u2}
OneSize == {u1}
BySize == [u \in LargeFiles |-> u1]
CleanCheckouts ==
    LET clean == [f \in 1 .. 2 |-> a]
    IN  {[head |-> clean, index |-> clean, work |-> clean, untracked |-> others] :
            others \in {<<NoFile>>, <<u1>>}}
=============================================================================
