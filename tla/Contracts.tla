------------------------------- MODULE Contracts -------------------------------
(***************************************************************************)
(* The pure decisions of scripts/agent_workflow_contracts.py: how heavy a  *)
(* workflow a declared piece of work gets, what follows a failed attempt,  *)
(* and which work packets and handoffs are let through.  A payload that    *)
(* the code refuses with WorkflowContractError is one that is not          *)
(* Acceptable here; that a field is a string, a list or a boolean at all   *)
(* is left out.                                                            *)
(***************************************************************************)
EXTENDS Naturals, Sequences

MaxWorkers == 6
NormalMaxWorkers == 4
MaxContextFiles == 128
MaxToolCalls == 128

\* The effort levels by their rank; Off is for a role that has no turn.
Off == 0
Light == 1
Standard == 2
High == 3
Highest == 4
EffortLevels == Light .. Highest

RiskFlags ==
    {"workspace-isolation", "path-safety", "secrets", "permission", "approval",
     "tool-schema", "public-contract", "process-execution", "destructive-action",
     "migration", "release", "cross-area", "security"}
LargeRiskFlags == RiskFlags \ {"path-safety", "tool-schema", "process-execution"}
SpecialistReviewFlags == LargeRiskFlags \ {"release"}

\* What route_work is told about a piece of work.
Shapes == [persistent : BOOLEAN, reversible : BOOLEAN, unresolved : BOOLEAN,
           burst : BOOLEAN, steps : 0 .. 1000, independent : 0 .. 64,
           flags : SUBSET RiskFlags]

-----------------------------------------------------------------------------
(* Routing *)

Least(m, n) == IF m <= n THEN m ELSE n

AdaptiveWorkers(independent) ==
    CASE independent <= 1 -> 1
      [] independent \in 2 .. 3 -> 2
      [] independent \in 4 .. 5 -> 3
      [] OTHER -> NormalMaxWorkers

WorkerCount(independent, burst) ==
    IF burst /\ independent > 1 THEN Least(MaxWorkers, independent)
                                ELSE AdaptiveWorkers(independent)

\* A slip: an explicit burst goes beyond the cap of high risk.
WorkersUnlessBurst(independent, burst, highRisk) ==
    IF highRisk /\ ~ burst THEN Least(WorkerCount(independent, burst), 3)
                           ELSE WorkerCount(independent, burst)

adaptive_worker_count(independent, burst, highRisk) ==
    IF highRisk THEN Least(WorkerCount(independent, burst), 3)
                ELSE WorkerCount(independent, burst)

HighRisk(s) == s.flags \cap LargeRiskFlags # {}

NeedsSpecialist(s) == s.flags \cap SpecialistReviewFlags # {}

\* Work of several items, or of high semantic risk.
IsLarge(s) == HighRisk(s) \/ s.independent > 1

\* Work of one item with something about it that is worth tracking.
IsMeaningful(s) == s.flags # {} \/ s.unresolved \/ s.steps > 1 \/ ~ s.reversible

ReadOnlyRoute ==
    [classification |-> "READ_ONLY", tracked |-> FALSE, planner |-> FALSE,
     reviewer |-> FALSE, workers |-> 1, review |-> "NONE",
     effort |-> [controller |-> Light, planner |-> Off, reviewer |-> Off, worker |-> Off]]

SmallRoute ==
    [classification |-> "SMALL", tracked |-> FALSE, planner |-> FALSE,
     reviewer |-> FALSE, workers |-> 1, review |-> "SELF",
     effort |-> [controller |-> Standard, planner |-> Off, reviewer |-> Off, worker |-> Off]]

MediumRoute(s) ==
    [classification |-> "MEDIUM", tracked |-> TRUE, planner |-> s.unresolved,
     reviewer |-> s.flags # {}, workers |-> 1,
     review |-> CASE NeedsSpecialist(s) -> "LEAD_PLUS_SPECIALIST"
                  [] ~ NeedsSpecialist(s) /\ s.flags # {} -> "LEAD"
                  [] OTHER -> "SELF",
     effort |-> [controller |-> Light, planner |-> IF s.unresolved THEN High ELSE Off,
                 reviewer |-> CASE NeedsSpecialist(s) -> High
                                [] ~ NeedsSpecialist(s) /\ s.flags # {} -> Standard
                                [] OTHER -> Off,
                 worker |-> Standard]]

LargeRoute(s) ==
    LET plans == HighRisk(s) \/ s.unresolved
        special == NeedsSpecialist(s)
    IN  [classification |-> "LARGE", tracked |-> TRUE, planner |-> plans,
         reviewer |-> TRUE,
         workers |-> adaptive_worker_count(s.independent, s.burst, HighRisk(s)),
         review |-> IF special THEN "LEAD_PLUS_SPECIALIST" ELSE "LEAD",
         effort |-> [controller |-> Light, planner |-> IF plans THEN High ELSE Off,
                     reviewer |-> IF special THEN High ELSE Standard,
                     worker |-> Standard]]

\* A slip: parallel work is looked at before its risks.
RouteParallelFirst(s) ==
    CASE ~ s.persistent -> ReadOnlyRoute
      [] s.persistent /\ s.independent > 1 -> LargeRoute([s EXCEPT !.flags = {}])
      [] s.persistent /\ s.independent <= 1 /\ HighRisk(s) -> LargeRoute(s)
      [] s.persistent /\ ~ IsLarge(s) /\ IsMeaningful(s) -> MediumRoute(s)
      [] OTHER -> SmallRoute

\* "trackerRequired" and "queueRequired" are the same everywhere: tracked.
route_work(s) ==
    CASE ~ s.persistent -> ReadOnlyRoute
      [] s.persistent /\ IsLarge(s) -> LargeRoute(s)
      [] s.persistent /\ ~ IsLarge(s) /\ IsMeaningful(s) -> MediumRoute(s)
      [] OTHER -> SmallRoute

-----------------------------------------------------------------------------
(* Escalation *)

NonCapability == {"environment", "tooling"}
FailureClasses ==
    NonCapability \cup {"authority", "missing-context", "reasoning",
                        "implementation", "planning"}

\* A slip: the context is expanded again and again.
NeedsContextAlways(failure, expanded) == failure = "missing-context"

NeedsContext(failure, expanded) == failure = "missing-context" /\ ~ expanded

\* Slips: one escalation too many; no look at the level.
ExhaustedLate(level, escalations, maxEscalations) ==
    level = Highest \/ escalations > maxEscalations

ExhaustedByCount(level, escalations, maxEscalations) == escalations >= maxEscalations

Exhausted(level, escalations, maxEscalations) ==
    level = Highest \/ escalations >= maxEscalations

\* What follows a failed attempt at an item.
RecoveryAction(failure, level, escalations, maxEscalations, expanded) ==
    IF failure \in NonCapability THEN "REMEDIATE_SAME_LEVEL"
    ELSE IF failure = "authority" THEN "BLOCK_FOR_AUTHORITY"
    ELSE IF NeedsContext(failure, expanded) THEN "EXPAND_CONTEXT"
    ELSE IF Exhausted(level, escalations, maxEscalations) THEN "REPLAN"
    ELSE "ESCALATE_ONE_LEVEL"

\* The level of the next attempt.
NextLevel(action, level) == IF action = "ESCALATE_ONE_LEVEL" THEN level + 1 ELSE level

-----------------------------------------------------------------------------
(* Packets and handoffs *)

\* validate_budget; bytes are bounded in the same way as files.
BudgetAcceptable(b) == b.files \in 1 .. MaxContextFiles /\ b.tools \in 1 .. MaxToolCalls

\* validate_work_packet
PacketAcceptable(p) ==
    /\ p.flags \subseteq RiskFlags
    /\ p.acceptanceCriteria # {} /\ p.exclusiveScopes # {} /\ p.requiredValidation # {}
    /\ BudgetAcceptable(p.budget)

Results == {"PASS", "FIXED", "BLOCKED", "FAIL", "NOT_RUN"}
BlockingResults == {"BLOCKED", "FAIL", "NOT_RUN"}
ClaimStateOf == [DONE |-> "completed", BLOCKED |-> "blocked", RELEASED |-> "released"]

\* A slip: the results are not looked at.
HandoffOfAnyResult(h) ==
    /\ h.outcome \in DOMAIN ClaimStateOf
    /\ h.claimState = ClaimStateOf[h.outcome]
    /\ h.validation # <<>>

\* validate_handoff: "validation" is a list of checks with their results.
HandoffAcceptable(h) ==
    /\ h.outcome \in DOMAIN ClaimStateOf
    /\ h.claimState = ClaimStateOf[h.outcome]
    /\ h.validation # <<>>
    /\ \A n \in DOMAIN h.validation :
         /\ h.validation[n].result \in Results
         /\ h.outcome = "DONE" => h.validation[n].result \notin BlockingResults

-----------------------------------------------------------------------------
(* What the decisions promise *)

ClassRank == [READ_ONLY |-> 0, SMALL |-> 1, MEDIUM |-> 2, LARGE |-> 3]
ReviewRank == [NONE |-> 0, SELF |-> 1, LEAD |-> 2, LEAD_PLUS_SPECIALIST |-> 3]

\* Route e is no lighter than route d.  The controller's own effort may fall, if
\* another role then works at that level.
NoLighter(d, e) ==
    /\ ClassRank[d.classification] <= ClassRank[e.classification]
    /\ ReviewRank[d.review] <= ReviewRank[e.review]
    /\ d.tracked => e.tracked
    /\ d.planner => e.planner
    /\ d.reviewer => e.reviewer
    /\ d.effort.planner <= e.effort.planner
    /\ d.effort.reviewer <= e.effort.reviewer
    /\ d.effort.worker <= e.effort.worker
    /\ \E role \in DOMAIN e.effort : d.effort.controller <= e.effort[role]

\* The work of shape t is in no respect easier than that of shape s.
NoEasier(s, t) ==
    /\ s.persistent => t.persistent
    /\ t.reversible => s.reversible
    /\ s.unresolved => t.unresolved
    /\ s.steps <= t.steps
    /\ s.independent <= t.independent
    /\ s.flags \subseteq t.flags
=============================================================================
