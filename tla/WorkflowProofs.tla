----------------------------- MODULE WorkflowProofs -----------------------------
(***************************************************************************)
(* Theorems about routing, escalation and evidence: for every shape of     *)
(* work, every bound on escalations and every set of file contents.        *)
(***************************************************************************)
EXTENDS Workflow, SequenceTheorems, TLAPS

\* The recommended workers of any shape of work.
LEMMA WorkersBounded ==
    ASSUME NEW s \in Shapes
    PROVE  LET w == route_work(s).workers
           IN  /\ w \in 1 .. MaxWorkers
               /\ w > 1 => w <= s.independent
               /\ w > NormalMaxWorkers => s.burst
               /\ HighRisk(s) => w <= 3
<1> USE DEF MaxWorkers, NormalMaxWorkers, Shapes
<1>1. CASE ~ s.persistent \/ ~ IsLarge(s)
  <2>1. route_work(s).workers = 1
    BY <1>1 DEF route_work, ReadOnlyRoute, MediumRoute, SmallRoute
  <2> QED
    BY <2>1
<1>2. CASE s.persistent /\ IsLarge(s)
  <2>1. route_work(s).workers = adaptive_worker_count(s.independent, s.burst, HighRisk(s))
    BY <1>2 DEF route_work, LargeRoute
  <2> QED
    BY <2>1 DEF adaptive_worker_count, WorkerCount, AdaptiveWorkers, Least
<1> QED
  BY <1>1, <1>2

\* Harder work never gets a lighter route.
LEMMA HarderIsHeavier ==
    ASSUME NEW s \in Shapes, NEW t \in Shapes, NoEasier(s, t)
    PROVE  NoLighter(route_work(s), route_work(t))
<1> USE DEF Shapes, NoEasier, NoLighter, ClassRank, ReviewRank, Off, Light, Standard, High
<1>1. /\ HighRisk(s) => HighRisk(t)
      /\ NeedsSpecialist(s) => NeedsSpecialist(t)
      /\ IsLarge(s) => IsLarge(t)
      /\ IsMeaningful(s) => IsMeaningful(t)
      /\ s.flags # {} => t.flags # {}
      /\ s.unresolved => t.unresolved
      /\ s.persistent => t.persistent
  BY DEF HighRisk, NeedsSpecialist, IsLarge, IsMeaningful
<1>2. NeedsSpecialist(s) => HighRisk(s)
  BY DEF NeedsSpecialist, HighRisk, SpecialistReviewFlags
<1> HIDE DEF NoEasier
<1>3. CASE t.persistent /\ IsLarge(t)
  <2>1. route_work(t) = LargeRoute(t)
    BY <1>3 DEF route_work
  <2>2. CASE s.persistent /\ IsLarge(s)
    <3>1. route_work(s) = LargeRoute(s)
      BY <2>2 DEF route_work
    <3> QED
      BY <1>1, <2>1, <3>1 DEF LargeRoute
  <2>3. CASE s.persistent /\ ~ IsLarge(s) /\ IsMeaningful(s)
    <3>1. route_work(s) = MediumRoute(s)
      BY <2>3 DEF route_work
    <3> QED
      BY <1>1, <1>2, <2>1, <2>3, <3>1 DEF LargeRoute, MediumRoute, IsLarge
  <2>4. CASE ~ s.persistent \/ (~ IsLarge(s) /\ ~ IsMeaningful(s))
    <3>1. route_work(s) \in {ReadOnlyRoute, SmallRoute}
      BY <2>4 DEF route_work
    <3> QED
      BY <2>1, <3>1 DEF LargeRoute, ReadOnlyRoute, SmallRoute
  <2> QED
    BY <2>2, <2>3, <2>4
<1>4. CASE t.persistent /\ ~ IsLarge(t) /\ IsMeaningful(t)
  <2>1. route_work(t) = MediumRoute(t)
    BY <1>4 DEF route_work
  <2>2. CASE s.persistent /\ IsMeaningful(s)
    <3>1. route_work(s) = MediumRoute(s)
      BY <1>1, <1>4, <2>2 DEF route_work
    <3> QED
      BY <1>1, <2>1, <3>1 DEF MediumRoute
  <2>3. CASE ~ (s.persistent /\ IsMeaningful(s))
    <3>1. route_work(s) \in {ReadOnlyRoute, SmallRoute}
      BY <1>1, <1>4, <2>3 DEF route_work
    <3> QED
      BY <2>1, <3>1 DEF MediumRoute, ReadOnlyRoute, SmallRoute
  <2> QED
    BY <2>2, <2>3
<1>5. CASE t.persistent /\ ~ IsLarge(t) /\ ~ IsMeaningful(t)
  BY <1>1, <1>5 DEF route_work, ReadOnlyRoute, SmallRoute
<1>6. CASE ~ t.persistent
  BY <1>1, <1>6 DEF route_work, ReadOnlyRoute
<1> QED
  BY <1>3, <1>4, <1>5, <1>6

-----------------------------------------------------------------------------
(* Routing *)

\* What is routed is one of the declared shapes.
ShapeTyped == shape \in Declared \cup {NoShape}

\* A declared shape is one of the shapes.
LEMMA ShapeInvariant == WorkflowSpec => []ShapeTyped
<1>1. WorkflowInit => ShapeTyped
  BY DEF WorkflowInit, ShapeTyped
<1>2. ShapeTyped /\ [WorkflowNext]_wvars => ShapeTyped'
  BY DEF ShapeTyped, WorkflowNext, Route, Prepare, Begin, Attempt, Succeed, Fail,
         TakeEvidence, HandOff, CheckEvidence, PrepareRecord, CompleteItem, Interrupted, Stale,
         Probing, Editing, wvars
<1> QED
  BY <1>1, <1>2, PTL DEF WorkflowSpec

\* The workers recommended for any declared work fit it.
THEOREM RouteFitsWork == WorkflowSpec => []WorkersFit
<1>1. ShapeTyped => WorkersFit
  <2>1. SUFFICES ASSUME ShapeTyped, shape # NoShape
                 PROVE  WorkersFit
    BY DEF WorkersFit
  <2>2. shape \in Shapes
    BY <2>1, DeclaredAssumption DEF ShapeTyped
  <2> QED
    BY <2>2, WorkersBounded DEF WorkersFit, route
<1> QED
  BY <1>1, ShapeInvariant, PTL

\* Whatever is found out about the work, its route does not get lighter.
THEOREM RouteMonotone == WorkflowSpec => RouteNeverLightens
<1> DEFINE Heavier == shape # NoShape /\ shape' # NoShape =>
                        NoLighter(route_work(shape), route_work(shape'))
<1>1. ASSUME ShapeTyped, WorkflowNext
      PROVE  Heavier
  <2>1. SUFFICES ASSUME shape # NoShape, shape' # NoShape
                 PROVE  NoLighter(route_work(shape), route_work(shape'))
    OBVIOUS
  <2>2. shape \in Shapes
    BY <1>1, <2>1, DeclaredAssumption DEF ShapeTyped
  <2>3. CASE shape' = shape
    <3>1. NoEasier(shape, shape)
      BY <2>2 DEF NoEasier, Shapes
    <3> QED
      BY <2>2, <2>3, <3>1, HarderIsHeavier
  <2>4. CASE shape' # shape
    <3>1. PICK s \in Declared : Route(s)
      BY <1>1, <2>1, <2>4
      DEF WorkflowNext, Prepare, Begin, Attempt, Succeed, Fail, TakeEvidence, HandOff,
          CheckEvidence, PrepareRecord, CompleteItem, Interrupted, Stale, Probing, Editing
    <3>2. NoEasier(shape, s) /\ shape' = s /\ s \in Shapes
      BY <2>2, <3>1, DeclaredAssumption DEF Route
    <3> QED
      BY <2>2, <3>2, HarderIsHeavier
  <2> QED
    BY <2>3, <2>4
<1>2. ShapeTyped /\ [WorkflowNext]_wvars => [Heavier]_wvars
  BY <1>1
<1> QED
  BY <1>2, ShapeInvariant, PTL DEF WorkflowSpec, RouteNeverLightens

-----------------------------------------------------------------------------
(* Escalation *)

\* The effort of a role of a route is one of the levels, or off.
LEMMA EffortTyped ==
    ASSUME NEW s \in Shapes, NEW role \in {"controller", "planner", "reviewer", "worker"}
    PROVE  route_work(s).effort[role] \in EffortLevels \cup {Off}
<1> USE DEF Off, Light, Standard, High, Highest, EffortLevels
<1>1. ReadOnlyRoute.effort[role] \in EffortLevels \cup {Off}
  BY DEF ReadOnlyRoute
<1>2. SmallRoute.effort[role] \in EffortLevels \cup {Off}
  BY DEF SmallRoute
<1>3. MediumRoute(s).effort[role] \in EffortLevels \cup {Off}
  BY DEF MediumRoute
<1>4. LargeRoute(s).effort[role] \in EffortLevels \cup {Off}
  BY DEF LargeRoute
<1> QED
  BY <1>1, <1>2, <1>3, <1>4 DEF route_work

\* The bound, with the ranges that make it inductive.
EscalationInv ==
    /\ attempt \in Attempts
    /\ EscalationBounded

\* A failed attempt is escalated only below the limit and the highest level.
LEMMA EscalatedBelowLimit ==
    ASSUME EscalationInv, NEW f \in FailureClasses,
           EscalationOf(f) = "ESCALATE_ONE_LEVEL"
    PROVE  attempt.level # Highest /\ ~ (attempt.escalations >= MaxEscalations)
  BY DEF EscalationOf, RecoveryAction, Exhausted

\* What is answered is an action.
LEMMA ActionTyped ==
    ASSUME NEW f \in FailureClasses
    PROVE  EscalationOf(f) \in Actions
  BY DEF EscalationOf, RecoveryAction, Actions

\* Each step of an attempt keeps the bound.
LEMMA EscalationInvariant == WorkflowSpec => []EscalationInv
<1> USE EscalationsAssumption
<1>1. WorkflowInit => EscalationInv
  BY DEF WorkflowInit, Idle, FirstAttempt, EscalationInv, EscalationBounded, Attempts,
         Actions, EffortLevels, Light, Highest
<1>2. ASSUME EscalationInv, ShapeTyped, [WorkflowNext]_wvars
      PROVE  EscalationInv'
  <2>1. CASE UNCHANGED attempt
    BY <1>2, <2>1 DEF EscalationInv, EscalationBounded
  <2>2. ASSUME NEW role \in {"controller", "planner", "reviewer", "worker"},
               NEW e \in BOOLEAN, shape # NoShape, Begin(role, e)
        PROVE  EscalationInv'
    <3>1. shape \in Shapes
      BY <1>2, <2>2, DeclaredAssumption DEF ShapeTyped
    <3>2. route.effort[role] \in EffortLevels
      BY <2>2, <3>1, EffortTyped DEF Begin, route
    <3>3. attempt' = FirstAttempt(route.effort[role], e)
      BY <2>2 DEF Begin
    <3> QED
      BY <3>2, <3>3 DEF FirstAttempt, EscalationInv, EscalationBounded, Attempts, Actions,
                        EffortLevels, Light, Highest
  <2>3. ASSUME NEW f \in FailureClasses, Fail(f)
        PROVE  EscalationInv'
    <3> DEFINE answer == EscalationOf(f)
    <3>1. answer \in Actions
      BY ActionTyped
    <3>2. attempt' = [attempt EXCEPT
            !.action = answer, !.level = NextLevel(answer, @), !.turn = 1 - @,
            !.escalations = IF answer = "ESCALATE_ONE_LEVEL" THEN @ + 1 ELSE @,
            !.expanded = @ \/ (answer = "EXPAND_CONTEXT" /\ attempt.expandable)]
      BY <2>3 DEF Fail
    <3>3. attempt \in Attempts /\ EscalationBounded
      BY <1>2 DEF EscalationInv
    <3> HIDE DEF answer
    <3>4. /\ attempt'.start = attempt.start
          /\ attempt'.level = NextLevel(answer, attempt.level)
          /\ attempt'.escalations = IF answer = "ESCALATE_ONE_LEVEL"
                                    THEN attempt.escalations + 1 ELSE attempt.escalations
      BY <3>2, <3>3 DEF Attempts
    <3>5. /\ attempt'.level \in EffortLevels
          /\ attempt'.escalations \in Nat
          /\ EscalationBounded'
      <4>1. CASE answer = "ESCALATE_ONE_LEVEL"
        <5>1. attempt.level # Highest /\ ~ (attempt.escalations >= MaxEscalations)
          BY <1>2, <4>1, EscalatedBelowLimit DEF answer
        <5> QED
          BY <3>3, <3>4, <4>1, <5>1
          DEF EscalationBounded, Attempts, NextLevel, EffortLevels, Light, Highest
      <4>2. CASE answer # "ESCALATE_ONE_LEVEL"
        BY <3>3, <3>4, <4>2
        DEF EscalationBounded, Attempts, NextLevel, EffortLevels, Light, Highest
      <4> QED
        BY <4>1, <4>2
    <3>6. attempt' \in Attempts
      <4>1. (attempt.expanded \/ (answer = "EXPAND_CONTEXT" /\ attempt.expandable)) \in BOOLEAN
        OBVIOUS
      <4>2. 1 - attempt.turn \in 0 .. 1
        BY <3>3 DEF Attempts
      <4> QED
        BY <3>1, <3>2, <3>3, <3>4, <3>5, <4>1, <4>2 DEF Attempts
    <3> QED
      BY <3>5, <3>6 DEF EscalationInv
  <2>4. ASSUME Succeed
        PROVE  EscalationInv'
    BY <2>4 DEF Succeed, Idle, FirstAttempt, EscalationInv, EscalationBounded, Attempts,
                Actions, EffortLevels, Light, Highest
  <2>5. ASSUME NEW role \in {"controller", "planner", "reviewer", "worker"}, Prepare(role)
        PROVE  EscalationInv'
    BY <2>2, <2>5, PacketsAssumption DEF Prepare
  <2> QED
    BY <1>2, <2>1, <2>3, <2>4, <2>5
    DEF WorkflowNext, Route, Attempt, TakeEvidence, HandOff, CheckEvidence, PrepareRecord,
        CompleteItem, Interrupted, Stale, Probing, Editing, wvars
<1> QED
  BY <1>1, <1>2, ShapeInvariant, PTL DEF WorkflowSpec

\* Escalation stops at the caller's limit and at the highest level, whatever
\* fails in whatever order.
THEOREM EscalationStops == WorkflowSpec => []EscalationBounded
<1>1. EscalationInv => EscalationBounded
  BY DEF EscalationInv
<1> QED
  BY <1>1, EscalationInvariant, PTL

-----------------------------------------------------------------------------
(* Evidence *)

Facts == FileStates \cup Contents \cup (SUBSET OtherFiles) \cup Untracked \cup {NoFile}

\* What each look finds in a repository.
LEMMA ViewsFind ==
    ASSUME NEW t \in Trees
    PROVE  /\ Views(t) \in Seq(Facts) /\ Len(Views(t)) = AllLooks
           /\ Views(t)[1] = t.head /\ Views(t)[2] = t.head
           /\ Views(t)[3] = t.index /\ Views(t)[4] = t.index
           /\ \A f \in Files : WorkView(Views(t), f) = t.work[f]
           /\ NamesView(Views(t)) = Existing(t)
           /\ \A n \in OtherFiles : OtherView(Views(t), n) = t.untracked[n]
<1> DEFINE base == <<t.head, t.head, t.index, t.index>>
           names == <<Existing(t)>>
<1>1. Tracked \in Nat /\ Others \in Nat
  BY EvidenceAssumption
<1>2. base \in Seq(Facts) /\ Len(base) = 4
  BY DEF Trees, Facts
<1>3. t.work \in Seq(Facts) /\ Len(t.work) = Tracked
  <2>1. t.work \in [1 .. Tracked -> Facts]
    BY DEF Trees, FileStates, Files, Facts
  <2> QED
    BY <1>1, <2>1, SeqDef
<1>4. names \in Seq(Facts) /\ Len(names) = 1
  BY DEF Existing, Facts
<1>5. t.untracked \in Seq(Facts) /\ Len(t.untracked) = Others
  <2>1. t.untracked \in [1 .. Others -> Facts]
    BY DEF Trees, OtherStates, OtherFiles, Facts
  <2> QED
    BY <1>1, <2>1, SeqDef
<1> DEFINE two == base \o t.work
           three == two \o names
<1>6. /\ two \in Seq(Facts) /\ Len(two) = 4 + Tracked
      /\ \A i \in 1 .. 4 : two[i] = base[i]
      /\ \A f \in 1 .. Tracked : two[4 + f] = t.work[f]
  BY <1>1, <1>2, <1>3, ConcatProperties
<1>7. base[1] = t.head /\ base[2] = t.head /\ base[3] = t.index /\ base[4] = t.index
  OBVIOUS
<1> HIDE DEF base, two
<1>8. /\ three \in Seq(Facts) /\ Len(three) = 5 + Tracked
      /\ \A i \in 1 .. 4 + Tracked : three[i] = two[i]
      /\ three[5 + Tracked] = names[1]
  BY <1>1, <1>4, <1>6, ConcatProperties
<1>9. names[1] = Existing(t)
  OBVIOUS
<1> HIDE DEF names, three
<1>10. Views(t) = three \o t.untracked
  BY DEF Views, base, names, two, three
<1>11. /\ Views(t) \in Seq(Facts) /\ Len(Views(t)) = 5 + Tracked + Others
       /\ \A i \in 1 .. 5 + Tracked : Views(t)[i] = three[i]
       /\ \A n \in 1 .. Others : Views(t)[5 + Tracked + n] = t.untracked[n]
  <2> DEFINE u == t.untracked
             all == three \o u
  <2>1. u \in Seq(Facts) /\ Len(u) = Others
    BY <1>5
  <2> HIDE DEF u
  <2>2. /\ all \in Seq(Facts) /\ Len(all) = Len(three) + Len(u)
        /\ \A i \in 1 .. Len(three) + Len(u) :
             all[i] = IF i <= Len(three) THEN three[i] ELSE u[i - Len(three)]
    BY <1>8, <2>1, ConcatProperties
  <2> HIDE DEF all
  <2>3. ASSUME NEW n \in 1 .. Others
        PROVE  all[5 + Tracked + n] = u[n]
    <3> DEFINE i == 5 + Tracked + n
    <3>1. i \in 1 .. Len(three) + Len(u) /\ ~ (i <= Len(three)) /\ i - Len(three) = n
      BY <1>1, <1>8, <2>1
    <3> HIDE DEF i
    <3>2. all[i] = u[i - Len(three)]
      BY <2>2, <3>1
    <3>3. all[i] = u[n]
      BY <3>1, <3>2
    <3> QED
      BY <3>3 DEF i
  <2>4. Views(t) = all
    BY <1>10 DEF all, u
  <2> QED
    BY <1>1, <1>8, <2>1, <2>2, <2>3, <2>4 DEF u
<1>12. \A i \in 1 .. 4 : Views(t)[i] = base[i]
  BY <1>1, <1>6, <1>8, <1>11
<1>13. \A f \in 1 .. Tracked : Views(t)[4 + f] = t.work[f]
  BY <1>1, <1>6, <1>8, <1>11
<1> QED
  BY <1>1, <1>7, <1>8, <1>9, <1>11, <1>12, <1>13
     DEF AllLooks, WorkView, NamesView, OtherView, Files, OtherFiles

\* The inputs of a repository that keeps still.
LEMMA InputsOfStill ==
    ASSUME NEW t \in Trees
    PROVE  Inputs(Views(t)) =
             [head |-> t.head,
              staged |-> [f \in Files |-> Diff(t.head[f], t.index[f])],
              unstaged |-> [f \in Files |-> Diff(t.index[f], t.work[f])],
              untracked |-> [n \in OtherFiles |-> Told(t.untracked[n])]]
<1>1. \A n \in OtherFiles : n \notin Existing(t) => Told(t.untracked[n]) = NoFile
  BY EvidenceAssumption DEF Existing, Told
<1>2. UntrackedDigest(Views(t)) = [n \in OtherFiles |-> Told(t.untracked[n])]
  BY <1>1, ViewsFind DEF UntrackedDigest
<1>3. [f \in Files |-> Diff(Views(t)[2][f], Views(t)[3][f])]
        = [f \in Files |-> Diff(t.head[f], t.index[f])]
  BY ViewsFind
<1>4. [f \in Files |-> Diff(Views(t)[4][f], WorkView(Views(t), f))]
        = [f \in Files |-> Diff(t.index[f], t.work[f])]
  BY ViewsFind
<1>5. Views(t)[1] = t.head
  BY ViewsFind
<1> QED
  BY <1>2, <1>3, <1>4, <1>5 DEF Inputs

\* A diff tells one side from the other.
LEMMA DiffTells ==
    ASSUME NEW x \in Contents, NEW y \in Contents, NEW z \in Contents,
           Diff(x, y) = Diff(x, z)
    PROVE  y = z
  BY EvidenceAssumption DEF Diff

\* Three trees can be told from HEAD and the two diffs.
LEMMA InputsTell ==
    ASSUME NEW t \in Trees, NEW u \in Trees
    PROVE  Inputs(Views(t)) = Inputs(Views(u)) <=> Same(t, u)
<1>1. /\ t.head \in FileStates /\ t.index \in FileStates /\ t.work \in FileStates
      /\ u.head \in FileStates /\ u.index \in FileStates /\ u.work \in FileStates
  BY DEF Trees
<1>2. ASSUME Inputs(Views(t)) = Inputs(Views(u))
      PROVE  Same(t, u)
  <2>1. /\ t.head = u.head
        /\ \A f \in Files : Diff(t.head[f], t.index[f]) = Diff(u.head[f], u.index[f])
        /\ \A f \in Files : Diff(t.index[f], t.work[f]) = Diff(u.index[f], u.work[f])
        /\ \A n \in OtherFiles : Told(t.untracked[n]) = Told(u.untracked[n])
    <3> DEFINE d(v) == [f \in Files |-> Diff(v.head[f], v.index[f])]
               e(v) == [f \in Files |-> Diff(v.index[f], v.work[f])]
               g(v) == [n \in OtherFiles |-> Told(v.untracked[n])]
    <3>1. t.head = u.head /\ d(t) = d(u) /\ e(t) = e(u) /\ g(t) = g(u)
      <4> HIDE DEF d, e, g
      <4>1. Inputs(Views(t)) = [head |-> t.head, staged |-> d(t), unstaged |-> e(t), untracked |-> g(t)]
        BY InputsOfStill DEF d, e, g
      <4>2. Inputs(Views(u)) = [head |-> u.head, staged |-> d(u), unstaged |-> e(u), untracked |-> g(u)]
        BY InputsOfStill DEF d, e, g
      <4>3. /\ Inputs(Views(t)).head = t.head /\ Inputs(Views(t)).staged = d(t)
            /\ Inputs(Views(t)).unstaged = e(t) /\ Inputs(Views(t)).untracked = g(t)
        BY <4>1
      <4>4. /\ Inputs(Views(u)).head = u.head /\ Inputs(Views(u)).staged = d(u)
            /\ Inputs(Views(u)).unstaged = e(u) /\ Inputs(Views(u)).untracked = g(u)
        BY <4>2
      <4> QED
        BY <1>2, <4>3, <4>4
    <3>2. \A f \in Files : d(t)[f] = d(u)[f] /\ e(t)[f] = e(u)[f]
      BY <3>1
    <3>3. \A n \in OtherFiles : g(t)[n] = g(u)[n]
      BY <3>1
    <3> QED
      BY <3>1, <3>2, <3>3
  <2>2. ASSUME NEW f \in Files
        PROVE  SameFile(f, t, u)
    <3>1. t.index[f] = u.index[f]
      BY <1>1, <2>1, DiffTells DEF FileStates
    <3>2. t.work[f] = u.work[f]
      BY <1>1, <2>1, <3>1, DiffTells DEF FileStates
    <3> QED
      BY <2>1, <3>1, <3>2 DEF SameFile
  <2> QED
    BY <2>1, <2>2 DEF Same, SameOther
<1>3. ASSUME Same(t, u)
      PROVE  Inputs(Views(t)) = Inputs(Views(u))
  <2>1. \A f \in Files : /\ t.head[f] = u.head[f] /\ t.index[f] = u.index[f]
                          /\ t.work[f] = u.work[f]
    BY <1>3 DEF Same, SameFile
  <2>2. t.head = u.head
    BY <1>1, <2>1 DEF FileStates
  <2>3. \A n \in OtherFiles : Told(t.untracked[n]) = Told(u.untracked[n])
    BY <1>3 DEF Same, SameOther
  <2> HIDE DEF Inputs
  <2>4. [f \in Files |-> Diff(t.head[f], t.index[f])] = [f \in Files |-> Diff(u.head[f], u.index[f])]
    BY <2>1
  <2>5. [f \in Files |-> Diff(t.index[f], t.work[f])] = [f \in Files |-> Diff(u.index[f], u.work[f])]
    BY <2>1
  <2>6. [n \in OtherFiles |-> Told(t.untracked[n])] = [n \in OtherFiles |-> Told(u.untracked[n])]
    BY <2>3
  <2> QED
    BY <2>2, <2>4, <2>5, <2>6, InputsOfStill
<1> QED
  BY <1>2, <1>3

\* What some looks found, each in a repository there was.
Seen(found, saw) ==
    /\ found \in Seq(Facts) /\ Len(found) <= AllLooks
    /\ saw \subseteq Trees
    /\ \A n \in 1 .. Len(found) : \E t \in saw : found[n] = Views(t)[n]

\* These inputs come from such looks.
Taken(inputs, saw) ==
    \E found \in Seq(Facts) :
        Seen(found, saw) /\ Len(found) = AllLooks /\ inputs = Inputs(found)

Probes == [use : {"record", "check"}, found : Seq(Facts), saw : SUBSET Trees,
           steady : BOOLEAN]

\* What was found is true of the repositories there were, for the fingerprint
\* being taken and for the record; an answer ends the taking.
EvidenceInv ==
    /\ tree \in Trees
    /\ probe # NoProbe =>
         probe \in Probes /\ Seen(probe.found, probe.saw) /\ tree \in probe.saw
    /\ probe # NoProbe /\ probe.use = "check" => record # NoRecord
    /\ record # NoRecord => Taken(record.inputs, record.saw) /\ record.saw \subseteq Trees
    /\ verdict # "NONE" => probe = NoProbe

\* All that is found in one repository is its views.
LEMMA SeenOfOne ==
    ASSUME NEW found, NEW t \in Trees, Seen(found, {t}), Len(found) = AllLooks
    PROVE  found = Views(t)
<1>1. found \in Seq(Facts) /\ Views(t) \in Seq(Facts) /\ Len(Views(t)) = Len(found)
  BY ViewsFind DEF Seen
<1>2. \A n \in 1 .. Len(found) : found[n] = Views(t)[n]
  BY DEF Seen
<1> QED
  BY <1>1, <1>2, SeqEqual

\* A repository more changes nothing.
LEMMA SeenInMore ==
    ASSUME NEW found, NEW saw, NEW t \in Trees, Seen(found, saw)
    PROVE  Seen(found, saw \cup {t})
  BY DEF Seen

\* One more look.
LEMMA SeenMore ==
    ASSUME NEW found, NEW saw, NEW t \in saw, Seen(found, saw), Len(found) < AllLooks
    PROVE  Seen(Append(found, Views(t)[Len(found) + 1]), saw)
<1> DEFINE x == Views(t)[Len(found) + 1]
<1>1. /\ t \in Trees /\ found \in Seq(Facts)
      /\ AllLooks \in Nat /\ Len(found) \in Nat
  BY EvidenceAssumption DEF Seen, AllLooks
<1>2. Views(t) \in Seq(Facts) /\ Len(Views(t)) = AllLooks
  BY <1>1, ViewsFind
<1>3. x \in Facts
  BY <1>1, <1>2
<1>4. /\ Append(found, x) \in Seq(Facts)
      /\ Len(Append(found, x)) = Len(found) + 1
      /\ \A n \in 1 .. Len(found) : Append(found, x)[n] = found[n]
      /\ Append(found, x)[Len(found) + 1] = x
  BY <1>1, <1>3
<1> QED
  BY <1>1, <1>4 DEF Seen

\* Whatever happens between the readings.
LEMMA EvidenceInvariant == WorkflowSpec => []EvidenceInv
<1>1. WorkflowInit => EvidenceInv
  BY EvidenceAssumption DEF WorkflowInit, EvidenceInit, EvidenceInv
<1>2. ASSUME EvidenceInv, [WorkflowNext]_wvars
      PROVE  EvidenceInv'
  <2> DEFINE Holds ==
          /\ tree' \in Trees
          /\ probe' # NoProbe =>
               probe' \in Probes /\ Seen(probe'.found, probe'.saw) /\ tree' \in probe'.saw
          /\ probe' # NoProbe /\ probe'.use = "check" => record' # NoRecord
          /\ record' # NoRecord => Taken(record'.inputs, record'.saw) /\ record'.saw \subseteq Trees
          /\ verdict' # "NONE" => probe' = NoProbe
  <2>1. SUFFICES Holds
    BY DEF EvidenceInv
  <2> USE <1>2 DEF EvidenceInv
  <2>2. CASE UNCHANGED evars
    BY <2>2 DEF evars
  <2>3. ASSUME NEW use \in {"record", "check"}, BeginProbe(use)
        PROVE  Holds
    <3>1. Seen(<<>>, {tree})
      BY EvidenceAssumption DEF Seen, AllLooks
    <3>2. Began(use) \in Probes
      BY DEF Began, Probes
    <3> QED
      BY <2>3, <3>1, <3>2 DEF BeginProbe, Began
  <2>4. CASE Look
    <3> DEFINE found == Append(probe.found, Views(tree)[Len(probe.found) + 1])
    <3>1. Seen(found, probe.saw)
      BY <2>4, SeenMore DEF Look
    <3>2. found \in Seq(Facts)
      BY <3>1 DEF Seen
    <3>3. probe # NoProbe /\ probe' = [probe EXCEPT !.found = found]
      BY <2>4 DEF Look
    <3> HIDE DEF found
    <3> QED
      BY <2>4, <3>1, <3>2, <3>3 DEF Look, Probes
  <2>5. CASE MakeRecord
    <3>1. Taken(Inputs(probe.found), probe.saw) /\ probe.saw \subseteq Trees
      BY <2>5 DEF MakeRecord, AllSeen, Taken, Seen
    <3> QED
      BY <2>5, <3>1 DEF MakeRecord, AllSeen
  <2>6. CASE Judge
    BY <2>6 DEF Judge
  <2>7. ASSUME NEW t \in Trees, NEW steady \in BOOLEAN, Changes(t, steady)
        PROVE  Holds
    <3>1. CASE probe = NoProbe
      BY <2>7, <3>1 DEF Changes
    <3>2. CASE probe # NoProbe
      <4>1. probe' = [probe EXCEPT !.saw = @ \cup {t}, !.steady = @ /\ steady]
        BY <2>7, <3>2 DEF Changes
      <4>2. (probe.steady /\ steady) \in BOOLEAN
        OBVIOUS
      <4>3. /\ probe' \in Probes /\ probe'.use = probe.use /\ probe'.found = probe.found
            /\ probe'.saw = probe.saw \cup {t}
        BY <3>2, <4>1, <4>2 DEF Probes
      <4>4. Seen(probe.found, probe.saw \cup {t})
        BY <3>2, SeenInMore
      <4> QED
        BY <2>7, <3>2, <4>3, <4>4 DEF Changes
    <3> QED
      BY <3>1, <3>2
  <2>8. CASE Editing
    <3>1. ASSUME NEW f \in Files, NEW c \in Contents, EditWork(f, c)
          PROVE  Holds
      <4>1. [tree EXCEPT !.work[f] = c] \in Trees
        BY DEF Trees, FileStates
      <4> QED
        BY <2>7, <3>1, <4>1 DEF EditWork
    <3>2. ASSUME NEW n \in OtherFiles, NEW u \in Untracked \cup {NoFile}, EditUntracked(n, u)
          PROVE  Holds
      <4>1. [tree EXCEPT !.untracked[n] = u] \in Trees
        BY DEF Trees, OtherStates
      <4> QED
        BY <2>7, <3>2, <4>1 DEF EditUntracked
    <3>3. ASSUME NEW f \in Files, GitAdd(f)
          PROVE  Holds
      <4>1. [tree EXCEPT !.index[f] = tree.work[f]] \in Trees
        BY DEF Trees, FileStates
      <4> QED
        BY <2>7, <3>3, <4>1 DEF GitAdd
    <3>4. CASE GitCommit
      <4>1. [tree EXCEPT !.head = tree.index] \in Trees
        BY DEF Trees
      <4> QED
        BY <2>7, <3>4, <4>1 DEF GitCommit
    <3> HIDE DEF Holds
    <3> QED
      BY <2>8, <3>1, <3>2, <3>3, <3>4 DEF Editing, EditStep
  <2>9. CASE Stale \/ Interrupted
    BY <2>9 DEF Stale, Interrupted
  <2>10. CASE CompleteItem
    BY <2>10 DEF CompleteItem
  <2> HIDE DEF Holds
  <2>11. ASSUME NEW s, Route(s)
         PROVE  Holds
    BY <2>2, <2>11 DEF Route
  <2>12. ASSUME NEW role, Prepare(role)
         PROVE  Holds
    BY <2>2, <2>12 DEF Prepare, Begin
  <2>13. CASE Attempt
    BY <2>2, <2>13 DEF Attempt, Succeed, Fail
  <2>14. CASE TakeEvidence \/ CheckEvidence
    BY <2>3, <2>14 DEF TakeEvidence, CheckEvidence
  <2>15. ASSUME NEW o, NEW cs, NEW v, HandOff(o, cs, v)
         PROVE  Holds
    BY <2>2, <2>15 DEF HandOff
  <2>16. CASE PrepareRecord
    BY <2>2, <2>16 DEF PrepareRecord
  <2>17. CASE Probing
    BY <2>4, <2>5, <2>6, <2>17 DEF Probing, ProbeStep
  <2>18. CASE UNCHANGED wvars
    BY <2>2, <2>18 DEF wvars
  <2> QED
    BY <2>8, <2>9, <2>10, <2>11, <2>12, <2>13, <2>14, <2>15, <2>16, <2>17, <2>18
    DEF WorkflowNext
<1> QED
  BY <1>1, <1>2, PTL DEF WorkflowSpec

\* Only the end of a check answers.
LEMMA JudgedIsJudge ==
    ASSUME EvidenceInv, WorkflowNext, Judged
    PROVE  Judge
  BY DEF Judged, EvidenceInv, WorkflowNext, Route, Prepare, Begin, Attempt, Succeed, Fail,
         TakeEvidence, HandOff, CheckEvidence, BeginProbe, PrepareRecord, CompleteItem,
         Interrupted, Stale, Probing, ProbeStep, Look, MakeRecord, Editing, EditStep, EditWork, EditUntracked,
         GitAdd, GitCommit, Changes, evars

\* FRESH exactly if nothing that a fingerprint can tell has changed.
THEOREM FreshIsUnchanged == WorkflowSpec => StaleExactlyIfChanged
<1> DEFINE Answered ==
      Judged => \A t \in record.saw, u \in probe.saw : record.saw = {t} /\ probe.saw = {u} =>
        (verdict' = "FRESH" <=> Same(t, u))
<1>1. ASSUME EvidenceInv, WorkflowNext
      PROVE  Answered
  <2>1. SUFFICES ASSUME Judged, NEW t \in record.saw, NEW u \in probe.saw,
                        record.saw = {t}, probe.saw = {u}
                 PROVE  verdict' = "FRESH" <=> Same(t, u)
    OBVIOUS
  <2>2. Judge
    BY <1>1, <2>1, JudgedIsJudge
  <2>3. probe # NoProbe /\ record # NoRecord /\ Len(probe.found) = AllLooks
    BY <1>1, <2>2 DEF EvidenceInv, Judge, AllSeen
  <2>4. t \in Trees /\ u \in Trees /\ Seen(probe.found, {u}) /\ Taken(record.inputs, {t})
    BY <1>1, <2>1, <2>3 DEF EvidenceInv, Seen
  <2>5. probe.found = Views(u)
    BY <2>3, <2>4, SeenOfOne
  <2>6. record.inputs = Inputs(Views(t))
    BY <2>4, SeenOfOne DEF Taken
  <2>7. verdict' = "FRESH" <=> Inputs(Views(u)) = Inputs(Views(t))
    BY <2>2, <2>5, <2>6 DEF Judge, Answer
  <2> QED
    BY <2>4, <2>7, InputsTell
<1>2. EvidenceInv /\ [WorkflowNext]_wvars => [Answered]_evars
  <2> SUFFICES ASSUME EvidenceInv, [WorkflowNext]_wvars PROVE [Answered]_evars
    OBVIOUS
  <2>1. CASE WorkflowNext
    BY <1>1, <2>1
  <2>2. CASE UNCHANGED wvars
    BY <2>2 DEF wvars
  <2> QED
    BY <2>1, <2>2
<1> QED
  BY <1>2, EvidenceInvariant, PTL DEF WorkflowSpec, StaleExactlyIfChanged

\* While nobody runs "git add" or commits, HEAD and the index stay what they are.
SameBase(saw) == \A t, u \in saw : t.head = u.head /\ t.index = u.index

SteadyInv ==
    /\ probe # NoProbe /\ probe.steady => SameBase(probe.saw)
    /\ record # NoRecord /\ record.steady => SameBase(record.saw)

\* The looks of a steady probe are at one HEAD and one index.
LEMMA SteadyInvariant == WorkflowSpec => []SteadyInv
<1>1. WorkflowInit => SteadyInv
  BY DEF WorkflowInit, EvidenceInit, SteadyInv
<1>2. ASSUME SteadyInv, EvidenceInv, [WorkflowNext]_wvars
      PROVE  SteadyInv'
  <2> DEFINE Holds ==
        /\ probe' # NoProbe /\ probe'.steady => SameBase(probe'.saw)
        /\ record' # NoRecord /\ record'.steady => SameBase(record'.saw)
  <2>1. SUFFICES Holds
    BY DEF SteadyInv
  <2> USE <1>2 DEF SteadyInv
  <2>2. CASE UNCHANGED <<probe, record>>
    BY <2>2
  <2>3. ASSUME NEW use \in {"record", "check"}, BeginProbe(use)
        PROVE  Holds
    <3>1. SameBase({tree})
      BY DEF SameBase
    <3> QED
      BY <2>3, <3>1 DEF BeginProbe, Began
  <2>4. CASE Look
    BY <2>4 DEF Look, EvidenceInv, Probes
  <2>5. CASE MakeRecord
    BY <2>5 DEF MakeRecord, AllSeen
  <2>6. CASE Judge
    BY <2>6 DEF Judge
  <2>7. ASSUME NEW t, NEW steady \in BOOLEAN, Changes(t, steady),
               steady => t.head = tree.head /\ t.index = tree.index
        PROVE  Holds
    <3>1. CASE probe = NoProbe
      BY <2>7, <3>1 DEF Changes
    <3>2. CASE probe # NoProbe
      <4>1. probe' = [probe EXCEPT !.saw = @ \cup {t}, !.steady = @ /\ steady]
        BY <2>7, <3>2 DEF Changes
      <4>2. /\ probe'.saw = probe.saw \cup {t}
            /\ probe'.steady => probe.steady /\ steady
        BY <3>2, <4>1 DEF EvidenceInv, Probes
      <4>3. tree \in probe.saw
        BY <3>2 DEF EvidenceInv
      <4> QED
        BY <2>7, <3>2, <4>2, <4>3 DEF Changes, SameBase
    <3> QED
      BY <3>1, <3>2
  <2>8. CASE Editing
    <3>1. ASSUME NEW f \in Files, NEW c \in Contents, EditWork(f, c)
          PROVE  Holds
      <4>1. /\ [tree EXCEPT !.work[f] = c].head = tree.head
            /\ [tree EXCEPT !.work[f] = c].index = tree.index
        BY DEF EvidenceInv, Trees
      <4> QED
        BY <2>7, <3>1, <4>1 DEF EditWork
    <3>2. ASSUME NEW n \in OtherFiles, NEW u \in Untracked \cup {NoFile}, EditUntracked(n, u)
          PROVE  Holds
      <4>1. /\ [tree EXCEPT !.untracked[n] = u].head = tree.head
            /\ [tree EXCEPT !.untracked[n] = u].index = tree.index
        BY DEF EvidenceInv, Trees
      <4> QED
        BY <2>7, <3>2, <4>1 DEF EditUntracked
    <3>3. ASSUME NEW f \in Files, GitAdd(f)
          PROVE  Holds
      BY <2>7, <3>3 DEF GitAdd
    <3>4. CASE GitCommit
      BY <2>7, <3>4 DEF GitCommit
    <3> HIDE DEF Holds
    <3> QED
      BY <2>8, <3>1, <3>2, <3>3, <3>4 DEF Editing, EditStep
  <2>9. CASE Stale \/ Interrupted
    BY <2>9 DEF Stale, Interrupted
  <2>10. CASE CompleteItem
    BY <2>10 DEF CompleteItem
  <2> HIDE DEF Holds
  <2>11. ASSUME NEW s, Route(s)
         PROVE  Holds
    BY <2>2, <2>11 DEF Route, evars
  <2>12. ASSUME NEW role, Prepare(role)
         PROVE  Holds
    BY <2>2, <2>12 DEF Prepare, Begin, evars
  <2>13. CASE Attempt
    BY <2>2, <2>13 DEF Attempt, Succeed, Fail, evars
  <2>14. CASE TakeEvidence \/ CheckEvidence
    BY <2>3, <2>14 DEF TakeEvidence, CheckEvidence
  <2>15. ASSUME NEW o, NEW cs, NEW v, HandOff(o, cs, v)
         PROVE  Holds
    BY <2>2, <2>15 DEF HandOff, evars
  <2>16. CASE PrepareRecord
    BY <2>2, <2>16 DEF PrepareRecord, evars
  <2>17. CASE Probing
    BY <2>4, <2>5, <2>6, <2>17 DEF Probing, ProbeStep
  <2>18. CASE UNCHANGED wvars
    BY <2>2, <2>18 DEF wvars, evars
  <2> QED
    BY <2>8, <2>9, <2>10, <2>11, <2>12, <2>13, <2>14, <2>15, <2>16, <2>17, <2>18
    DEF WorkflowNext
<1> QED
  BY <1>1, <1>2, EvidenceInvariant, PTL DEF WorkflowSpec

\* Equal inputs from looks with a still HEAD and index: each file is the same.
LEMMA EqualFiles ==
    ASSUME NEW x, NEW y, NEW S, NEW T, Seen(x, S), Seen(y, T),
           Len(x) = AllLooks, Len(y) = AllLooks, Inputs(x) = Inputs(y),
           SameBase(S), SameBase(T), NEW f \in Files
    PROVE  \E t \in S, u \in T : SameFile(f, t, u)
<1>1. /\ S \subseteq Trees /\ T \subseteq Trees /\ f \in 1 .. Tracked
      /\ Tracked \in Nat /\ Others \in Nat /\ AllLooks = 5 + Tracked + Others
      /\ \A n \in 1 .. AllLooks : \E t \in S : x[n] = Views(t)[n]
      /\ \A n \in 1 .. AllLooks : \E t \in T : y[n] = Views(t)[n]
  BY EvidenceAssumption DEF Seen, AllLooks, Files
<1>2. /\ 1 \in 1 .. AllLooks /\ 2 \in 1 .. AllLooks /\ 3 \in 1 .. AllLooks
      /\ 4 \in 1 .. AllLooks /\ 4 + f \in 1 .. AllLooks
  BY <1>1
<1>3. PICK t \in S : WorkView(x, f) = t.work[f]
  BY <1>1, <1>2, ViewsFind DEF WorkView
<1>4. PICK u \in T : WorkView(y, f) = u.work[f]
  BY <1>1, <1>2, ViewsFind DEF WorkView
<1>5. x[1] = t.head /\ x[2] = t.head /\ x[3] = t.index /\ x[4] = t.index
  BY <1>1, <1>2, ViewsFind DEF SameBase
<1>6. y[1] = u.head /\ y[2] = u.head /\ y[3] = u.index /\ y[4] = u.index
  BY <1>1, <1>2, ViewsFind DEF SameBase
<1>7. /\ x[1] = y[1]
      /\ Diff(x[2][f], x[3][f]) = Diff(y[2][f], y[3][f])
      /\ Diff(x[4][f], WorkView(x, f)) = Diff(y[4][f], WorkView(y, f))
  <2> DEFINE d(z) == [g \in Files |-> Diff(z[2][g], z[3][g])]
             e(z) == [g \in Files |-> Diff(z[4][g], WorkView(z, g))]
  <2>1. x[1] = y[1] /\ d(x) = d(y) /\ e(x) = e(y)
    <3>1. /\ Inputs(x).head = x[1] /\ Inputs(x).staged = d(x) /\ Inputs(x).unstaged = e(x)
          /\ Inputs(y).head = y[1] /\ Inputs(y).staged = d(y) /\ Inputs(y).unstaged = e(y)
      <4> HIDE DEF WorkView
      <4> QED
        BY DEF Inputs
    <3> HIDE DEF d, e
    <3> QED
      BY <3>1
  <2>2. d(x)[f] = d(y)[f] /\ e(x)[f] = e(y)[f]
    BY <2>1
  <2> QED
    BY <2>1, <2>2
<1>8. /\ t.head \in FileStates /\ t.index \in FileStates /\ t.work \in FileStates
      /\ u.head \in FileStates /\ u.index \in FileStates /\ u.work \in FileStates
  BY <1>1 DEF Trees
<1>9. t.head[f] = u.head[f]
  BY <1>5, <1>6, <1>7
<1>10. t.index[f] = u.index[f]
  BY <1>5, <1>6, <1>7, <1>8, <1>9, DiffTells DEF FileStates
<1>11. t.work[f] = u.work[f]
  BY <1>3, <1>4, <1>5, <1>6, <1>7, <1>8, <1>10, DiffTells DEF FileStates
<1> QED
  BY <1>9, <1>10, <1>11 DEF SameFile

\* What is told of an untracked file was so at some moment.
LEMMA ToldWasTrue ==
    ASSUME NEW x, NEW S, Seen(x, S), Len(x) = AllLooks, NEW n \in OtherFiles
    PROVE  \E t \in S : UntrackedDigest(x)[n] = Told(t.untracked[n])
<1>1. /\ S \subseteq Trees /\ n \in 1 .. Others
      /\ Tracked \in Nat /\ Others \in Nat /\ AllLooks = 5 + Tracked + Others
      /\ \A m \in 1 .. AllLooks : \E t \in S : x[m] = Views(t)[m]
  BY EvidenceAssumption DEF Seen, AllLooks, OtherFiles
<1>2. 5 + Tracked \in 1 .. AllLooks /\ 5 + Tracked + n \in 1 .. AllLooks
  BY <1>1
<1>3. PICK t \in S : NamesView(x) = Existing(t)
  BY <1>1, <1>2, ViewsFind DEF NamesView
<1>4. PICK u \in S : OtherView(x, n) = u.untracked[n]
  BY <1>1, <1>2, ViewsFind DEF OtherView
<1>5. UntrackedDigest(x)[n] = IF n \in NamesView(x) THEN Told(OtherView(x, n)) ELSE NoFile
  BY DEF UntrackedDigest
<1>6. CASE n \in NamesView(x)
  BY <1>4, <1>5, <1>6
<1>7. CASE n \notin NamesView(x)
  <2>1. Told(t.untracked[n]) = NoFile
    BY <1>3, <1>7, EvidenceAssumption DEF Existing, Told
  <2> QED
    BY <1>5, <1>7, <2>1
<1> QED
  BY <1>6, <1>7

\* Edits between the looks do no harm to any one file as long as HEAD and the
\* index stay.
THEOREM FreshIsTrue == WorkflowSpec => FreshWasTrue
<1> DEFINE Answered ==
      Judged /\ verdict' = "FRESH" =>
        /\ record.steady /\ probe.steady =>
             \A f \in Files : \E t \in record.saw, u \in probe.saw : SameFile(f, t, u)
        /\ \A n \in OtherFiles : \E t \in record.saw, u \in probe.saw : SameOther(n, t, u)
<1>1. ASSUME EvidenceInv, SteadyInv, WorkflowNext
      PROVE  Answered
  <2>1. SUFFICES ASSUME Judged, verdict' = "FRESH"
                 PROVE  /\ record.steady /\ probe.steady =>
                             \A f \in Files :
                               \E t \in record.saw, u \in probe.saw : SameFile(f, t, u)
                        /\ \A n \in OtherFiles :
                             \E t \in record.saw, u \in probe.saw : SameOther(n, t, u)
    OBVIOUS
  <2>2. Judge
    BY <1>1, <2>1, JudgedIsJudge
  <2>3. /\ record # NoRecord /\ probe # NoProbe /\ Len(probe.found) = AllLooks
        /\ Inputs(probe.found) = record.inputs
    BY <1>1, <2>1, <2>2 DEF Judge, AllSeen, Answer, EvidenceInv
  <2>4. Seen(probe.found, probe.saw) /\ Taken(record.inputs, record.saw)
    BY <1>1, <2>3 DEF EvidenceInv
  <2>5. PICK found \in Seq(Facts) : /\ Seen(found, record.saw) /\ Len(found) = AllLooks
                                    /\ record.inputs = Inputs(found)
    BY <2>4 DEF Taken
  <2>6. ASSUME record.steady, probe.steady, NEW f \in Files
        PROVE  \E t \in record.saw, u \in probe.saw : SameFile(f, t, u)
    <3>1. SameBase(record.saw) /\ SameBase(probe.saw)
      BY <1>1, <2>3, <2>6 DEF SteadyInv
    <3>2. Inputs(found) = Inputs(probe.found)
      BY <2>3, <2>5
    <3> QED
      BY <2>3, <2>4, <2>5, <3>1, <3>2, EqualFiles
  <2>7. ASSUME NEW n \in OtherFiles
        PROVE  \E t \in record.saw, u \in probe.saw : SameOther(n, t, u)
    <3>1. UntrackedDigest(found) = UntrackedDigest(probe.found)
      <4>1. /\ Inputs(found).untracked = UntrackedDigest(found)
            /\ Inputs(probe.found).untracked = UntrackedDigest(probe.found)
        BY DEF Inputs
      <4> QED
        BY <2>3, <2>5, <4>1
    <3>2. PICK t \in record.saw : UntrackedDigest(found)[n] = Told(t.untracked[n])
      BY <2>5, ToldWasTrue
    <3>3. PICK u \in probe.saw : UntrackedDigest(probe.found)[n] = Told(u.untracked[n])
      BY <2>3, <2>4, ToldWasTrue
    <3> QED
      BY <3>1, <3>2, <3>3 DEF SameOther
  <2> QED
    BY <2>6, <2>7
<1>2. EvidenceInv /\ SteadyInv /\ [WorkflowNext]_wvars => [Answered]_evars
  <2> SUFFICES ASSUME EvidenceInv, SteadyInv, [WorkflowNext]_wvars
               PROVE  [Answered]_evars
    OBVIOUS
  <2>1. CASE WorkflowNext
    BY <1>1, <2>1
  <2>2. CASE UNCHANGED wvars
    BY <2>2 DEF wvars
  <2> QED
    BY <2>1, <2>2
<1> QED
  BY <1>2, EvidenceInvariant, SteadyInvariant, PTL DEF WorkflowSpec, FreshWasTrue

-----------------------------------------------------------------------------
(* Finalization *)

\* What is ready to be finalized, or finished, has a handoff that was let
\* through for DONE, with the evidence of the record; the record is not replaced
\* meanwhile, and nothing but that handoff is ever prepared.
VerifiedInv ==
    /\ phase \in {"finalize", "finished"} =>
         /\ record # NoRecord
         /\ HandoffAcceptable(handoff) /\ handoff.outcome = "DONE"
         /\ handoff.evidence = record.inputs
    /\ prepared # NoHandoff => prepared = handoff /\ phase \in {"finalize", "finished"}
    /\ phase = "finished" => prepared # NoHandoff /\ verdict = "FRESH"
    /\ probe # NoProbe => verdict = "NONE"
    /\ probe # NoProbe /\ probe.use = "record" => record = NoRecord

\* No item is finished with a failed check, or on evidence other than the record
\* that its handoff named.
THEOREM FinishedVerified == WorkflowSpec => []FinishedIsVerified
<1>1. WorkflowInit => VerifiedInv
  BY DEF WorkflowInit, EvidenceInit, VerifiedInv
<1>2. ASSUME VerifiedInv, EvidenceInv, [WorkflowNext]_wvars
      PROVE  VerifiedInv'
  <2> USE <1>2 DEF VerifiedInv
  <2>1. CASE UNCHANGED wvars
    BY <2>1 DEF wvars, evars, HandoffAcceptable
  <2>2. ASSUME NEW s \in Declared, Route(s)
        PROVE  VerifiedInv'
    BY <2>2 DEF Route, evars, HandoffAcceptable
  <2>3. ASSUME NEW role \in {"controller", "planner", "reviewer", "worker"}, Prepare(role)
        PROVE  VerifiedInv'
    BY <2>3 DEF Prepare, Begin, evars, HandoffAcceptable
  <2>4. ASSUME NEW f \in FailureClasses, Fail(f)
        PROVE  VerifiedInv'
    BY <2>4 DEF Fail, evars, HandoffAcceptable
  <2>5. CASE Succeed
    BY <2>5 DEF Succeed, evars, HandoffAcceptable
  <2>6. CASE TakeEvidence
    BY <2>6 DEF TakeEvidence, BeginProbe, Began, HandoffAcceptable
  <2>7. ASSUME NEW o \in DOMAIN ClaimStateOf, NEW v \in Validations,
               NEW cs \in {"completed", "blocked", "released"}, HandOff(o, cs, v)
        PROVE  VerifiedInv'
    <3>1. /\ HandoffAcceptable(handoff')
          /\ handoff'.outcome = o /\ handoff'.evidence = record.inputs
      BY <2>7 DEF HandOff, HandoffOf
    <3>2. HandoffAcceptable(handoff)' <=> HandoffAcceptable(handoff')
      BY DEF HandoffAcceptable
    <3> QED
      BY <2>7, <3>1, <3>2 DEF HandOff, evars
  <2>8. CASE CheckEvidence
    BY <2>8 DEF CheckEvidence, BeginProbe, Began, HandoffAcceptable
  <2>9. CASE PrepareRecord
    BY <2>9 DEF PrepareRecord, evars, HandoffAcceptable
  <2>10. CASE CompleteItem
    BY <2>10 DEF CompleteItem, HandoffAcceptable
  <2>11. CASE Stale \/ Interrupted
    BY <2>11 DEF Stale, Interrupted, HandoffAcceptable
  <2>12. CASE Probing
    <3>1. CASE MakeRecord
      BY <2>12, <3>1 DEF Probing, MakeRecord, AllSeen, HandoffAcceptable
    <3>2. CASE Judge
      BY <2>12, <3>2 DEF Probing, Judge, AllSeen, HandoffAcceptable
    <3>3. CASE Look
      <4>1. probe # NoProbe /\ probe'.use = probe.use /\ UNCHANGED <<record, verdict>>
        BY <3>3 DEF Look, EvidenceInv, Probes
      <4> QED
        BY <2>12, <4>1 DEF Probing, HandoffAcceptable
    <3> QED
      BY <2>12, <3>1, <3>2, <3>3 DEF Probing, ProbeStep
  <2>13. CASE Editing
    <3>1. UNCHANGED <<phase, handoff, prepared, record, verdict>>
      BY <2>13
      DEF Editing, EditStep, EditWork, EditUntracked, GitAdd, GitCommit, Changes
    <3>2. PICK t, steady : Changes(t, steady)
      BY <2>13 DEF Editing, EditStep, EditWork, EditUntracked, GitAdd, GitCommit
    <3>3. probe' # NoProbe => probe # NoProbe /\ probe'.use = probe.use
      BY <3>2 DEF Changes, EvidenceInv, Probes
    <3> QED
      BY <3>1, <3>3 DEF HandoffAcceptable
  <2> QED
    BY <2>1, <2>2, <2>3, <2>4, <2>5, <2>6, <2>7, <2>8, <2>9, <2>10, <2>11, <2>12, <2>13
    DEF WorkflowNext, Attempt
<1>3. VerifiedInv => FinishedIsVerified
  BY DEF VerifiedInv, FinishedIsVerified, HandoffAcceptable
<1> QED
  BY <1>1, <1>2, <1>3, EvidenceInvariant, PTL DEF WorkflowSpec

-----------------------------------------------------------------------------
(* Types *)

\* What no other invariant says: the phases, the answers, the count of edits.
RestTyped ==
    /\ phase \in Phases
    /\ verdict \in {"NONE", "FRESH", "STALE"}
    /\ edits \in 0 .. MaxEdits

\* Every variable keeps its type.
THEOREM WorkflowTyped == WorkflowSpec => []WorkflowTypeOK
<1>1. WorkflowInit => RestTyped
  BY EvidenceAssumption DEF WorkflowInit, EvidenceInit, RestTyped, Phases
<1>2. RestTyped /\ [WorkflowNext]_wvars => RestTyped'
  <2> SUFFICES ASSUME RestTyped, [WorkflowNext]_wvars
               PROVE  RestTyped'
    OBVIOUS
  <2> USE DEF RestTyped, Phases
  <2>1. phase' \in Phases
    BY DEF WorkflowNext, Route, Prepare, Begin, Attempt, Succeed, Fail, TakeEvidence, HandOff,
           CheckEvidence, PrepareRecord, CompleteItem, Interrupted, Stale, Probing, Editing, wvars
  <2>2. verdict' \in {"NONE", "FRESH", "STALE"}
    BY DEF WorkflowNext, Route, Prepare, Begin, Attempt, Succeed, Fail, TakeEvidence, HandOff,
           CheckEvidence, PrepareRecord, CompleteItem, Interrupted, Stale, Probing, Editing, wvars,
           evars, BeginProbe, ProbeStep, Look, MakeRecord, Judge, Answer, EditStep, EditWork,
           EditUntracked, GitAdd, GitCommit, Changes
  <2>3. UNCHANGED edits \/ (edits < MaxEdits /\ edits' = edits + 1)
    BY DEF WorkflowNext, Route, Prepare, Begin, Attempt, Succeed, Fail, TakeEvidence, HandOff,
           CheckEvidence, PrepareRecord, CompleteItem, Interrupted, Stale, Probing, Editing, wvars,
           evars, BeginProbe, ProbeStep, Look, MakeRecord, Judge, EditStep, EditWork,
           EditUntracked, GitAdd, GitCommit, Changes
  <2>4. edits' \in 0 .. MaxEdits
    BY <2>3, EvidenceAssumption
  <2> QED
    BY <2>1, <2>2, <2>4
<1>3. RestTyped /\ ShapeTyped /\ EscalationInv /\ EvidenceInv => WorkflowTypeOK
  BY DEF RestTyped, ShapeTyped, EscalationInv, EvidenceInv, WorkflowTypeOK
<1> QED
  BY <1>1, <1>2, <1>3, ShapeInvariant, EscalationInvariant, EvidenceInvariant, PTL
  DEF WorkflowSpec
=============================================================================
