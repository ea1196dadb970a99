------------------------------- MODULE Workflow -------------------------------
(***************************************************************************)
(* One piece of work through scripts/agent_workflow.py: it is routed,      *)
(* prepared as a work packet, attempted (with the escalations that failed  *)
(* attempts get), verified by an evidence record, handed off and           *)
(* finalized.  The commands are the pure decisions of Contracts and the    *)
(* fingerprints of Evidence; what a caller does with an answer is taken    *)
(* from docs/runtime/lean-agent-workflow.md.  Of finalize there is only    *)
(* what depends on the handoff and the evidence: Finalize has the rest.    *)
(***************************************************************************)
EXTENDS Contracts, Evidence

CONSTANTS
    Declared,        \* the shapes the work may be declared with
    Packets,         \* the work packets that may be made of it
    MaxEscalations,  \* the "maxEscalations" the caller passes
    Validations,     \* the lists of checks with results a worker may report
    NoShape,         \* nothing was declared yet
    NoHandoff        \* nothing was handed off, or prepared

ASSUME DeclaredAssumption == Declared \subseteq Shapes /\ NoShape \notin Shapes
ASSUME PacketsAssumption == \A p \in Packets : p.budget.allowExpansion \in BOOLEAN
ASSUME EscalationsAssumption == MaxEscalations \in 0 .. 3

VARIABLES
    phase,     \* how far the work is
    shape,     \* the shape that was routed last, or NoShape
    attempt,   \* the attempt under way: its effort level and how it got there
    handoff,   \* the handoff, with the inputs of its evidence, or NoHandoff
    prepared   \* the handoff in the finalize journal, or NoHandoff

wvars == <<phase, shape, attempt, handoff, prepared, evars>>

Phases == {"route", "execute", "verify", "finalize", "finished", "stopped"}

Actions == {"NONE", "REMEDIATE_SAME_LEVEL", "BLOCK_FOR_AUTHORITY", "EXPAND_CONTEXT",
            "ESCALATE_ONE_LEVEL", "REPLAN"}

\* "turn" changes with every attempt, so that each is a step.
Attempts == [start : EffortLevels, level : EffortLevels, escalations : Nat,
             expanded : BOOLEAN, expandable : BOOLEAN, action : Actions, turn : 0 .. 1]

FirstAttempt(effort, expandable) ==
    [start |-> effort, level |-> effort, escalations |-> 0, expanded |-> FALSE,
     expandable |-> expandable, action |-> "NONE", turn |-> 0]

Idle == FirstAttempt(Light, FALSE)

WorkflowInit ==
    /\ phase = "route"
    /\ shape = NoShape
    /\ attempt = Idle
    /\ handoff = NoHandoff
    /\ prepared = NoHandoff
    /\ EvidenceInit

-----------------------------------------------------------------------------
(* ROUTE and PREPARE *)

\* The work is routed again when it turns out to be harder than was declared.
Route(s) ==
    /\ phase = "route"
    /\ shape \in Shapes => NoEasier(shape, s)
    /\ shape' = s
    /\ UNCHANGED <<phase, attempt, handoff, prepared, evars>>

route == route_work(shape)

\* A role of the route begins with an item: of untracked work at once, of other
\* work with a packet that is let through.
Begin(role, expandable) ==
    /\ phase = "route"
    /\ route.classification # "READ_ONLY"
    /\ route.effort[role] # Off
    /\ phase' = "execute" /\ shape' = NoShape
    /\ attempt' = FirstAttempt(route.effort[role], expandable)
    /\ UNCHANGED <<handoff, prepared, evars>>

Prepare(role) ==
    /\ shape # NoShape
    /\ \/ ~ route.tracked /\ Begin(role, TRUE)
       \/ \E p \in Packets :
            route.tracked /\ PacketAcceptable(p) /\ Begin(role, p.budget.allowExpansion)

-----------------------------------------------------------------------------
(* EXECUTE and RECOVER *)

EscalationOf(failure) ==
    RecoveryAction(failure, attempt.level, attempt.escalations, MaxEscalations,
                   attempt.expanded)

\* The caller counts the escalations and notes that the context was expanded,
\* if the packet allows that at all.
Fail(failure) ==
    LET answer == EscalationOf(failure)
    IN  /\ phase = "execute"
        /\ attempt' = [attempt EXCEPT
             !.action = answer, !.level = NextLevel(answer, @), !.turn = 1 - @,
             !.escalations = IF answer = "ESCALATE_ONE_LEVEL" THEN @ + 1 ELSE @,
             !.expanded = @ \/ (answer = "EXPAND_CONTEXT" /\ attempt.expandable)]
        /\ phase' = IF answer \in {"BLOCK_FOR_AUTHORITY", "REPLAN"} THEN "stopped" ELSE "execute"
        /\ UNCHANGED <<shape, handoff, prepared, evars>>

Succeed ==
    /\ phase = "execute" /\ phase' = "verify"
    /\ attempt' = Idle
    /\ UNCHANGED <<shape, handoff, prepared, evars>>

Attempt == Succeed \/ \E f \in FailureClasses : Fail(f)

-----------------------------------------------------------------------------
(* VERIFY and FINALIZE *)

TakeEvidence ==
    /\ phase = "verify" /\ record = NoRecord /\ BeginProbe("record")
    /\ UNCHANGED <<phase, shape, attempt, handoff, prepared>>

HandoffOf(outcome, claimState, v) ==
    [outcome |-> outcome, claimState |-> claimState, validation |-> v,
     evidence |-> record.inputs]

\* A handoff that is let through; only a DONE one can be finalized.
HandOff(outcome, claimState, v) ==
    /\ phase = "verify" /\ record # NoRecord
    /\ HandoffAcceptable(HandoffOf(outcome, claimState, v))
    /\ handoff' = HandoffOf(outcome, claimState, v)
    /\ phase' = IF outcome = "DONE" THEN "finalize" ELSE "stopped"
    /\ UNCHANGED <<shape, attempt, prepared, evars>>

\* finalize and resume-finalize begin with the freshness of the evidence.
CheckEvidence ==
    /\ phase = "finalize" /\ verdict = "NONE" /\ BeginProbe("check")
    /\ UNCHANGED <<phase, shape, attempt, handoff, prepared>>

PrepareRecord ==
    /\ phase = "finalize" /\ verdict = "FRESH" /\ prepared = NoHandoff
    /\ prepared' = handoff
    /\ UNCHANGED <<phase, shape, attempt, handoff, evars>>

\* _completion_evidence: the idempotency key, the fingerprint, the checks.
Entry(check, result) == [check |-> check, result |-> result]

CompletionEvidence(h) ==
    <<Entry("lean-finalize", "KEY"), Entry("evidence-fingerprint", "SHA")>> \o h.validation

\* ensure_string_list: no entry twice.
NoneTwice(list) == \A m, n \in DOMAIN list : list[m] = list[n] => m = n

\* QueueStore.complete refuses evidence with an entry twice; then the record
\* stays prepared and a resume begins with the evidence again.
CompleteItem ==
    /\ phase = "finalize" /\ verdict = "FRESH" /\ prepared # NoHandoff
    /\ \/ NoneTwice(CompletionEvidence(prepared)) /\ phase' = "finished" /\ UNCHANGED verdict
       \/ ~ NoneTwice(CompletionEvidence(prepared)) /\ verdict' = "NONE" /\ UNCHANGED phase
    /\ UNCHANGED <<shape, attempt, handoff, prepared, tree, probe, record, edits>>

\* The call dies, or its claim ends, before the queue is completed: a resume
\* begins with the evidence again.
Interrupted ==
    /\ phase = "finalize" /\ verdict = "FRESH" /\ prepared # NoHandoff
    /\ verdict' = "NONE"
    /\ UNCHANGED <<phase, shape, attempt, handoff, prepared, tree, probe, record, edits>>

\* "STALE evidence -> rerun affected validation"; with a prepared record there
\* is only the resume, for any other evidence is a conflict.
Stale ==
    /\ phase = "finalize" /\ verdict = "STALE"
    /\ IF prepared = NoHandoff
       THEN phase' = "verify" /\ record' = NoRecord /\ handoff' = NoHandoff
       ELSE UNCHANGED <<phase, record, handoff>>
    /\ verdict' = "NONE"
    /\ UNCHANGED <<shape, attempt, prepared, tree, probe, edits>>

Probing ==
    /\ ProbeStep
    /\ UNCHANGED <<phase, shape, attempt, handoff, prepared>>

\* Edits before the evidence is taken make no difference to it.
Editing ==
    /\ phase \in {"verify", "finalize"} /\ EditStep
    /\ UNCHANGED <<phase, shape, attempt, handoff, prepared>>

WorkflowNext ==
    \/ \E s \in Declared : Route(s)
    \/ \E role \in {"controller", "planner", "reviewer", "worker"} : Prepare(role)
    \/ Attempt
    \/ TakeEvidence
    \/ \E outcome \in DOMAIN ClaimStateOf, v \in Validations :
         \E claimState \in {"completed", "blocked", "released"} : HandOff(outcome, claimState, v)
    \/ CheckEvidence \/ PrepareRecord \/ CompleteItem \/ Interrupted \/ Stale
    \/ Probing \/ Editing

\* An attempt that is under way ends, one way or the other.
WorkflowSpec == WorkflowInit /\ [][WorkflowNext]_wvars /\ WF_wvars(Attempt)

-----------------------------------------------------------------------------
(* Properties *)

\* "High-risk flags can only make the route heavier": whatever is found out
\* about the work, a risk, an open decision, another step or item, the route is
\* in no respect lighter than before (agent_workflow_contracts.py:222).
RouteNeverLightens ==
    [][shape # NoShape /\ shape' # NoShape =>
         NoLighter(route_work(shape), route_work(shape'))]_wvars

\* The recommended number of workers fits the work: never more workers than
\* independent items, more than 4 only for an explicit burst, at most 3 at high
\* risk, and all work that is not parallel has one.
WorkersFit ==
    shape # NoShape =>
        /\ route.workers \in 1 .. MaxWorkers
        /\ route.workers > 1 => route.workers <= shape.independent
        /\ route.workers > NormalMaxWorkers => shape.burst
        /\ HighRisk(shape) => route.workers <= 3

\* Escalation is bounded over all the attempts at an item: its level is the one
\* it began with and the escalations on top, of which there are no more than
\* allowed, and never beyond the highest level.
EscalationBounded ==
    /\ attempt.level = attempt.start + attempt.escalations
    /\ attempt.escalations <= MaxEscalations
    /\ attempt.level <= Highest

\* "Do not retry blindly": failed attempts do not go on for ever, unless the
\* environment or the tools keep failing, or context is missing that the packet
\* does not allow to be expanded (evaluate_escalation is not told, and answers
\* EXPAND_CONTEXT each time).
AttemptsEnd ==
    \/ []<>(phase # "execute")
    \/ []<>(attempt.action = "REMEDIATE_SAME_LEVEL")
    \/ []<>(attempt.action = "EXPAND_CONTEXT" /\ ~ attempt.expandable)

\* What is finished was verified: no check of the handoff that was prepared has
\* a blocking result, and its evidence is the record that was found fresh, also
\* when the completion was resumed after others were prepared or refused.
FinishedIsVerified ==
    phase = "finished" =>
        /\ \A n \in DOMAIN prepared.validation :
             prepared.validation[n].result \notin BlockingResults
        /\ prepared.evidence = record.inputs
        /\ verdict = "FRESH"

\* "Finalize writes token-free ignored record [...], then completes item"
\* (docs/runtime/lean-agent-workflow.md): what it has written it can complete.
PreparedIsCompletable ==
    prepared # NoHandoff => NoneTwice(CompletionEvidence(prepared))

WorkflowTypeOK ==
    /\ phase \in Phases
    /\ shape \in Declared \cup {NoShape}
    /\ attempt \in Attempts
    /\ verdict \in {"NONE", "FRESH", "STALE"}
    /\ tree \in Trees
    /\ edits \in 0 .. MaxEdits
=============================================================================
