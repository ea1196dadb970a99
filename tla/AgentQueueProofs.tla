--------------------------- MODULE AgentQueueProofs ---------------------------
(***************************************************************************)
(* Theorems about the queue, for any items, agents, scopes and leases,     *)
(* with and without processes that die inside an operation.                *)
(***************************************************************************)
EXTENDS AgentQueue, TLAPS

ClaimFiles == [Items -> Claims \cup {NoClaim}]

\* A claim, while it is there, has a history entry of the right type.
LEMMA ArchiveType ==
    ASSUME TypeOK, NEW i \in Claimed(claim), NEW event \in Events
    PROVE  Archive(i, event) \in Archives
  BY DEF TypeOK, Claimed, Archive, Archives, Claims

LEMMA RecoveryEventType ==
    ASSUME NEW i
    PROVE  RecoveryEvent(i) \in Events
  BY DEF RecoveryEvent, Events

\* Recovery keeps the types, and leaves only the claims of TODO items.
LEMMA RecoveredType ==
    ASSUME TypeOK
    PROVE  /\ Recovered \in ClaimFiles
           /\ RecoveredDirs \subseteq Items
           /\ RecoveredHistory \subseteq Archives
           /\ \A i \in Claimed(Recovered) :
                i \in Claimed(claim) /\ status[i] = "TODO" /\ Recovered[i] = claim[i]
<1>1. Recovered \in ClaimFiles
  BY DEF TypeOK, Recovered, ClaimFiles
<1>2. RecoveredDirs \subseteq Items
  BY DEF TypeOK, RecoveredDirs
<1>3. RecoveredHistory \subseteq Archives
  BY ArchiveType, RecoveryEventType DEF TypeOK, RecoveredHistory, Recoverable
<1>4. \A i \in Claimed(Recovered) :
        i \in Claimed(claim) /\ status[i] = "TODO" /\ Recovered[i] = claim[i]
  BY DEF Recovered, Recoverable, Claimed
<1> QED
  BY <1>1, <1>2, <1>3, <1>4

\* A tick keeps the types and makes no claim live.
LEMMA AgedType ==
    ASSUME NEW files \in ClaimFiles
    PROVE  /\ Aged(files) \in ClaimFiles
           /\ Claimed(Aged(files)) = Claimed(files)
           /\ ActiveClaims(Aged(files)) \subseteq ActiveClaims(files)
           /\ \A i \in Claimed(files) : Aged(files)[i].agent = files[i].agent
           /\ \A i \in Claimed(files) : Aged(files)[i].token = files[i].token
<1> USE NullAssumption DEF ClaimFiles
<1>1. \A i \in ActiveClaims(files) :
        /\ Aged(files)[i] \in Claims
        /\ Aged(files)[i].agent = files[i].agent
        /\ Aged(files)[i].token = files[i].token
  BY DEF Aged, ActiveClaims, Claimed, IsStale, Claims
<1>2. \A i \in Items : i \notin ActiveClaims(files) => Aged(files)[i] = files[i]
  BY DEF Aged
<1>3. Aged(files) \in ClaimFiles
  <2>1. Aged(files) = [i \in Items |-> Aged(files)[i]]
    BY DEF Aged
  <2>2. \A i \in Items : Aged(files)[i] \in Claims \cup {NoClaim}
    BY <1>1, <1>2
  <2> QED
    BY <2>1, <2>2
<1>4. Claimed(Aged(files)) = Claimed(files)
  BY <1>1, <1>2 DEF Claimed, ActiveClaims
<1>5. ActiveClaims(Aged(files)) \subseteq ActiveClaims(files)
  BY <1>2, <1>4 DEF ActiveClaims, Claimed
<1>6. \A i \in Claimed(files) : /\ Aged(files)[i].agent = files[i].agent
                                /\ Aged(files)[i].token = files[i].token
  BY <1>1, <1>2 DEF Claimed
<1> QED
  BY <1>3, <1>4, <1>5, <1>6

\* Whichever reading of the clock claim and claim-next act on, they see well
\* typed claims of TODO items, each of the agent that has it on disk, and none
\* live that was not.
LEMMA SeenType ==
    ASSUME TypeOK, NEW seen \in LaterReading
    PROVE  /\ seen \in ClaimFiles
           /\ \A i \in Claimed(seen) : /\ i \in Claimed(claim)
                                       /\ status[i] = "TODO"
                                       /\ seen[i].agent = claim[i].agent
                                       /\ seen[i].token = claim[i].token
           /\ ActiveClaims(seen) \subseteq ActiveClaims(claim)
<1>1. CASE seen = Recovered
  BY <1>1, RecoveredType DEF ActiveClaims
<1>2. CASE seen = Aged(Recovered)
  <2>1. ActiveClaims(Recovered) \subseteq ActiveClaims(claim)
    BY RecoveredType DEF ActiveClaims
  <2> QED
    BY <1>2, <2>1, RecoveredType, AgedType
<1> QED
  BY <1>1, <1>2 DEF LaterReading

\* Granting a claim keeps the types.
LEMMA GrantType ==
    ASSUME TypeOK, NEW seen \in LaterReading,
           NEW a \in Agents, NEW i \in Items, NEW lease \in Leases,
           NEW owner \in Owners \cup {Legacy},
           Grant(a, i, lease, owner, seen, RecoveredDirs)
    PROVE  /\ claim' \in ClaimFiles
           /\ claimDirs' \subseteq Items
           /\ issued' \in Nat
<1>1. NewClaim(a, lease, owner) \in Claims
  BY LeasesAssumption DEF NewClaim, Claims, TypeOK
<1> QED
  BY <1>1, SeenType, RecoveredType DEF Grant, TypeOK, ClaimFiles

\* Archiving a claim keeps the types.
LEMMA ArchiveClaimType ==
    ASSUME TypeOK, NEW i \in Claimed(claim), NEW event \in Events,
           ArchiveClaim(i, event)
    PROVE  /\ claim' \in ClaimFiles
           /\ claimDirs' \subseteq Items
           /\ history' \subseteq Archives
  BY ArchiveType DEF ArchiveClaim, TypeOK, ClaimFiles

\* So does archiving that is cut short.
LEMMA DieArchivingType ==
    ASSUME TypeOK, NEW done \in SUBSET Recoverable, NEW i \in Claimed(claim),
           NEW event \in Events, DieArchiving(done, i, event)
    PROVE  /\ claim' \in ClaimFiles
           /\ claimDirs' \subseteq Items
           /\ history' \subseteq Archives
           /\ issued' = issued
<1>1. \A j \in done : Archive(j, RecoveryEvent(j)) \in Archives
  BY ArchiveType, RecoveryEventType DEF Recoverable
<1>2. \A j \in {i} : Archive(j, event) \in Archives
  BY ArchiveType
<1>3. claim' \in ClaimFiles
  BY DEF DieArchiving, TypeOK, ClaimFiles
<1> QED
  BY <1>1, <1>2, <1>3 DEF DieArchiving, TypeOK

\* A call with the right token finds a claim.
LEMMA HeldIsClaimed ==
    ASSUME NEW i \in Items, NEW t, HoldsToken(i, t)
    PROVE  i \in Claimed(claim)
  BY DEF HoldsToken, Claimed

-----------------------------------------------------------------------------
\* Every operation of the queue keeps the files and counters within their types.
LEMMA NextType ==
    ASSUME TypeOK, Next
    PROVE  TypeOK'
<1> USE NullAssumption
<1>1. CASE Tick
  <2>1. claim' \in ClaimFiles
    BY <1>1, AgedType DEF Tick, TypeOK, ClaimFiles
  <2> QED
    BY <1>1, <2>1 DEF Tick, TypeOK, ClaimFiles
<1>2. CASE ClaimOperation
  <2>1. PICK a \in Agents, lease \in Leases, owner \in Owners \cup {Legacy},
             multiple \in BOOLEAN :
               \/ ClaimNext(a, lease, owner, multiple)
               \/ \E i \in Known : Claim(a, i, lease, owner, multiple)
    BY <1>2, OwnersAssumption DEF ClaimOperation
  <2>2. PICK seen \in LaterReading :
               \/ \E i \in Items : Grant(a, i, lease, owner, seen, RecoveredDirs)
               \/ Refuse(seen, RecoveredDirs)
    BY <2>1 DEF ClaimNext, Claim, Picks, Eligible, Known
  <2>3. UNCHANGED <<status, completion, crashes>> /\ history' = RecoveredHistory
    BY <2>1 DEF ClaimNext, Claim
  <2>4. /\ claim' \in ClaimFiles
        /\ claimDirs' \subseteq Items
        /\ issued' \in Nat
    <3>1. CASE \E i \in Items : Grant(a, i, lease, owner, seen, RecoveredDirs)
      BY <3>1, GrantType
    <3>2. CASE Refuse(seen, RecoveredDirs)
      BY <3>2, SeenType, RecoveredType DEF Refuse, TypeOK
    <3> QED
      BY <2>2, <3>1, <3>2
  <2> QED
    BY <2>3, <2>4, RecoveredType DEF TypeOK, ClaimFiles
<1>3. CASE OwnerOperation
  <2>1. PICK i \in Items, t \in 1 .. issued :
               \/ OwnedCallTooLate(i, t)
               \/ Heartbeat(i, t)
               \/ Release(i, t)
               \/ Complete(i, t)
               \/ Block(i, t)
    BY <1>3 DEF OwnerOperation
  <2>2. i \in Claimed(claim)
    BY <2>1, HeldIsClaimed
       DEF OwnedCallTooLate, Heartbeat, Release, Complete, Block, Owns
  <2>3. claim[i] \in Claims
    BY <2>2 DEF TypeOK, Claimed
  <2>4. CASE OwnedCallTooLate(i, t)
    BY <2>2, <2>4, ArchiveClaimType DEF OwnedCallTooLate, TypeOK, ClaimFiles, Events
  <2>5. CASE Heartbeat(i, t)
    <3>1. [claim[i] EXCEPT !.left = claim[i].lease] \in Claims
      BY <2>3, LeasesAssumption DEF Claims
    <3>2. claim' = [claim EXCEPT ![i] = [claim[i] EXCEPT !.left = claim[i].lease]]
      BY <2>5 DEF Heartbeat
    <3> QED
      BY <2>5, <3>1, <3>2 DEF Heartbeat, TypeOK
  <2>6. CASE Release(i, t)
    BY <2>2, <2>6, ArchiveClaimType DEF Release, TypeOK, ClaimFiles, Events
  <2>7. CASE Complete(i, t)
    <3>1. status' \in [Items -> Statuses \cup FileStates]
      BY <2>7 DEF Complete, WriteCompleted, TypeOK, Statuses
    <3>2. completion' \in [Items -> Agents \cup {Nobody}]
      BY <2>3, <2>7 DEF Complete, WriteCompleted, TypeOK, Claims
    <3> QED
      BY <2>2, <2>7, <3>1, <3>2, ArchiveClaimType DEF Complete, TypeOK, ClaimFiles, Events
  <2>8. CASE Block(i, t)
    <3>1. status' \in [Items -> Statuses \cup FileStates]
      BY <2>8 DEF Block, WriteBlocked, TypeOK, Statuses
    <3>2. completion' \in [Items -> Agents \cup {Nobody}]
      BY <2>8 DEF Block, WriteBlocked, TypeOK
    <3> QED
      BY <2>2, <2>8, <3>1, <3>2, ArchiveClaimType DEF Block, TypeOK, ClaimFiles, Events
  <2> QED
    BY <2>1, <2>4, <2>5, <2>6, <2>7, <2>8
<1>4. CASE ItemOperation
  <2>1. PICK i \in Items : \/ \E s \in EnqueuedAs : Enqueue(i, s)
                           \/ Unblock(i)
                           \/ Cancel(i)
                           \/ Remove(i)
    BY <1>4 DEF ItemOperation
  <2>2. status' \in [Items -> Statuses \cup FileStates]
    BY <2>1, EnqueuedAssumption
       DEF Enqueue, Unblock, Cancel, Remove, TypeOK, Statuses, FileStates
  <2>3. completion' \in [Items -> Agents \cup {Nobody}]
    BY <2>1 DEF Enqueue, Unblock, Cancel, Remove, TypeOK
  <2> QED
    BY <2>1, <2>2, <2>3 DEF Enqueue, Unblock, Cancel, Remove, TypeOK
<1>5. CASE RecoverStale
  BY <1>5, RecoveredType DEF RecoverStale, TypeOK, ClaimFiles
<1>6. CASE RecoverGenerationOperation
  <2>1. PICK i \in Items, a \in Agents, owner \in Owners : RecoverGeneration(i, a, owner)
    BY <1>6 DEF RecoverGenerationOperation
  <2>2. i \in Claimed(claim) /\ GenerationEvent(i) \in Events
    BY <2>1 DEF RecoverGeneration, NeedsRecovery, Claimed, GenerationEvent, Events
  <2> QED
    BY <2>1, <2>2, ArchiveClaimType DEF RecoverGeneration, TypeOK, ClaimFiles
<1> QED
  BY <1>1, <1>2, <1>3, <1>4, <1>5, <1>6 DEF Next

\* And so does an operation that a crash cuts short.
LEMMA CrashType ==
    ASSUME TypeOK, CrashStep \/ \E i \in Items : DiscardTorn(i)
    PROVE  TypeOK'
<1> USE NullAssumption DEF ClaimFiles
<1>1. CASE CrashRecover
  <2>1. PICK i \in Recoverable :
               DieArchiving({j \in Recoverable : j < i}, i, RecoveryEvent(i))
    BY <1>1 DEF CrashRecover
  <2>2. i \in Claimed(claim)
    BY DEF Recoverable
  <2>3. /\ claim' \in ClaimFiles
        /\ claimDirs' \subseteq Items
        /\ history' \subseteq Archives
        /\ issued' = issued
    BY <2>1, <2>2, DieArchivingType, RecoveryEventType
  <2> QED
    BY <1>1, <2>3 DEF CrashRecover, Dies, TypeOK
<1>2. ASSUME NEW i \in Items, CrashEnqueue(i) \/ DiscardTorn(i)
      PROVE  TypeOK'
  BY <1>2 DEF CrashEnqueue, DiscardTorn, Dies, TypeOK, FileStates
<1>3. ASSUME NEW i \in Items, NEW a \in Agents, NEW multiple \in BOOLEAN,
             CrashClaim(a, i, multiple)
      PROVE  TypeOK'
  BY <1>3, SeenType, RecoveredType DEF CrashClaim, Dies, TypeOK
<1>4. ASSUME NEW i \in Items, NEW t,
             \/ CrashComplete(i, t) \/ CrashBlock(i, t)
             \/ CrashRelease(i, t) \/ CrashTooLate(i, t)
      PROVE  TypeOK'
  <2>1. i \in Claimed(claim)
    BY <1>4, HeldIsClaimed
    DEF CrashComplete, CrashBlock, CrashRelease, CrashTooLate, Owns
  <2>2. claim[i] \in Claims
    BY <2>1 DEF TypeOK, Claimed
  <2>3. /\ status' \in [Items -> Statuses \cup FileStates]
        /\ completion' \in [Items -> Agents \cup {Nobody}]
    BY <1>4, <2>2 DEF CrashComplete, CrashBlock, CrashRelease, CrashTooLate,
                      WriteCompleted, WriteBlocked, TypeOK, Statuses, Claims
  <2>4. \E event \in Events : DieArchiving({}, i, event)
    BY <1>4 DEF CrashComplete, CrashBlock, CrashRelease, CrashTooLate, Events
  <2>5. crashes' \in Nat
    BY <1>4 DEF CrashComplete, CrashBlock, CrashRelease, CrashTooLate, Dies, TypeOK
  <2> QED
    BY <2>1, <2>3, <2>4, <2>5, DieArchivingType DEF TypeOK
<1>5. ASSUME NEW i \in Items, CrashRecoverGeneration(i)
      PROVE  TypeOK'
  <2>1. i \in Claimed(claim) /\ GenerationEvent(i) \in Events
    BY <1>5 DEF CrashRecoverGeneration, NeedsRecovery, Claimed, GenerationEvent, Events
  <2>2. /\ claim' \in ClaimFiles
        /\ claimDirs' \subseteq Items
        /\ history' \subseteq Archives
        /\ issued' = issued
    BY <1>5, <2>1, DieArchivingType DEF CrashRecoverGeneration
  <2> QED
    BY <1>5, <2>2 DEF CrashRecoverGeneration, Dies, TypeOK
<1> QED
  BY <1>1, <1>2, <1>3, <1>4, <1>5 DEF CrashStep

\* The files of the queue always have the shapes the code gives them, whatever
\* the order of the operations and whoever dies in the middle of one.
THEOREM CrashTypeCorrect == CrashSpec => []TypeOK
<1>1. Init => TypeOK
  BY DEF Init, TypeOK, FileStates
<1>2. TypeOK /\ [CrashNext]_vars => TypeOK'
  BY NextType, CrashType DEF CrashNext, TypeOK, vars
<1> QED
  BY <1>1, <1>2, PTL DEF CrashSpec

\* The same while no process dies.
THEOREM TypeCorrect == Spec => []TypeOK
<1>1. Spec => CrashSpec
  BY PTL DEF Spec, CrashSpec, CrashNext
<1> QED
  BY <1>1, CrashTypeCorrect, PTL

-----------------------------------------------------------------------------
(* The invariant *)

\* Most steps only take claims away, or renew a live one.
OnlyShrinks ==
    /\ Claimed(claim') \subseteq Claimed(claim)
    /\ ActiveClaims(claim') \subseteq ActiveClaims(claim)
    /\ \A i \in Claimed(claim') : claim'[i].agent = claim[i].agent

\* And they leave alone what is over: deleted files and items that are done and
\* have no owner.
LeavesSettled ==
    /\ \A i \in Items : status[i] = "REMOVED" => status'[i] = "REMOVED"
    /\ \A i \in Items : status[i] = "DONE" /\ claim[i] = NoClaim =>
                         status'[i] \in {"DONE", "REMOVED"}

\* A step that does no more than that keeps the invariant.
LEMMA QuietStep ==
    ASSUME QueueInv, TypeOK', OnlyShrinks, LeavesSettled
    PROVE  QueueInv'
<1> USE DEF QueueInv
<1>1. ScopesExclusive'
  BY DEF ScopesExclusive, OnlyShrinks
<1>2. OneClaimPerWorker'
  BY DEF OneClaimPerWorker, OnlyShrinks, ActiveClaims
<1>3. SettledDependencies'
  <2> SUFFICES ASSUME NEW i \in Claimed(claim'), NEW d \in Dependencies[i]
               PROVE  \/ status'[d] = "REMOVED"
                      \/ status'[d] = "DONE" /\ claim'[d] = NoClaim
    BY DEF SettledDependencies, Claimed
  <2>1. i \in Items /\ d \in Items /\ i \in Claimed(claim)
    BY ItemsAssumption DEF OnlyShrinks, Claimed
  <2>2. \/ status[d] = "REMOVED"
        \/ status[d] = "DONE" /\ claim[d] = NoClaim
    BY <2>1 DEF SettledDependencies
  <2>3. claim[d] = NoClaim => claim'[d] = NoClaim
    BY <2>1 DEF OnlyShrinks, Claimed
  <2> QED
    BY <2>1, <2>2, <2>3 DEF LeavesSettled
<1> QED
  BY <1>1, <1>2, <1>3

LEMMA ArchiveShrinks ==
    ASSUME TypeOK, NEW i \in Items, NEW event, ArchiveClaim(i, event)
    PROVE  OnlyShrinks
  BY DEF ArchiveClaim, OnlyShrinks, ActiveClaims, Claimed, TypeOK

LEMMA DieArchivingShrinks ==
    ASSUME TypeOK, NEW done, NEW i \in Items, NEW event, DieArchiving(done, i, event)
    PROVE  OnlyShrinks
<1>1. \A j \in Items : claim'[j] = NoClaim \/ claim'[j] = claim[j]
  BY DEF DieArchiving
<1> QED
  BY <1>1 DEF OnlyShrinks, ActiveClaims, Claimed

LEMMA SeenShrinks ==
    ASSUME TypeOK, NEW seen \in LaterReading, claim' = seen
    PROVE  OnlyShrinks
  BY SeenType DEF OnlyShrinks

\* A granted claim keeps the invariant: the tests of _claim_locked look at the
\* active claims after the recovery, and recovery has just freed every item
\* that is done.
LEMMA GrantStep ==
    ASSUME QueueInv, TypeOK', NEW seen \in LaterReading,
           NEW a \in Agents, NEW i \in Items, NEW lease \in Leases,
           NEW owner \in Owners \cup {Legacy}, NEW multiple \in BOOLEAN,
           MayAskForMultiple(a, multiple),
           Grantable(a, i, multiple, seen, RecoveredDirs),
           Grant(a, i, lease, owner, seen, RecoveredDirs),
           UNCHANGED status
    PROVE  QueueInv'
<1> DEFINE new == NewClaim(a, lease, owner)
<1> USE NullAssumption, SeenType DEF QueueInv
<1>1. new \in Claims /\ new.agent = a
  BY LeasesAssumption DEF NewClaim, Claims, TypeOK
<1>2. /\ claim'[i] = new
      /\ \A j \in Items : j # i => claim'[j] = seen[j]
  BY DEF Grant, ClaimFiles
<1>3. \A j \in ActiveClaims(claim') : j = i \/ j \in ActiveClaims(seen)
  BY <1>2 DEF ActiveClaims, Claimed
<1>4. \A j \in ActiveClaims(seen) : Present(j)
  BY DEF ActiveClaims, Present, Statuses
<1>5. ScopesExclusive'
  <2> SUFFICES ASSUME NEW j \in ActiveClaims(claim'), NEW k \in ActiveClaims(claim'), j # k
               PROVE  ExclusiveScopes[j] \cap ExclusiveScopes[k] = {}
    BY DEF ScopesExclusive
  <2>1. \A l \in ActiveClaims(seen) : ExclusiveScopes[i] \cap ExclusiveScopes[l] = {}
    BY <1>4 DEF Grantable, ScopesFree
  <2>2. CASE j \in ActiveClaims(seen) /\ k \in ActiveClaims(seen)
    BY <2>2 DEF ScopesExclusive
  <2> QED
    BY <1>3, <2>1, <2>2
<1>6. OneClaimPerWorker'
  <2> SUFFICES ASSUME NEW j \in ActiveClaims(claim'), NEW k \in ActiveClaims(claim'),
                      j # k, claim'[j].agent = claim'[k].agent
               PROVE  claim'[j].agent \in Controllers
    BY DEF OneClaimPerWorker
  <2>1. \A l \in ActiveClaims(seen) : seen[l].agent = a => a \in Controllers
    BY DEF Grantable, AgentFree, MayAskForMultiple
  <2>2. j \in Items /\ k \in Items
    BY DEF ActiveClaims, Claimed
  <2>3. CASE j # i /\ k # i
    BY <1>2, <1>3, <2>2, <2>3 DEF OneClaimPerWorker, ActiveClaims
  <2>4. CASE j = i \/ k = i
    BY <1>1, <1>2, <1>3, <2>1, <2>2, <2>4
  <2> QED
    BY <2>3, <2>4
<1>7. SettledDependencies'
  <2> SUFFICES ASSUME NEW j \in Claimed(claim'), NEW d \in Dependencies[j]
               PROVE  \/ status'[d] = "REMOVED"
                      \/ status'[d] = "DONE" /\ claim'[d] = NoClaim
    BY DEF SettledDependencies, Claimed
  <2>1. j \in Items /\ d \in Items
    BY ItemsAssumption DEF Claimed
  <2>2. status[d] = "REMOVED" \/ status[d] = "DONE"
    <3>1. CASE j = i
      BY <3>1 DEF Grantable, DependenciesDone
    <3>2. CASE j # i
      <4>1. j \in Claimed(claim)
        BY <1>2, <2>1, <3>2 DEF Claimed
      <4> QED
        BY <4>1 DEF SettledDependencies
    <3> QED
      BY <3>1, <3>2
  <2>3. d # i
    BY <2>2 DEF Grantable
  <2>4. status[d] = "DONE" => claim'[d] = NoClaim
    BY <1>2, <2>1, <2>3 DEF Claimed
  <2> QED
    BY <2>2, <2>4
<1> QED
  BY <1>5, <1>6, <1>7

\* Every operation keeps the invariant,
LEMMA NextInv ==
    ASSUME QueueInv, Next
    PROVE  QueueInv'
<1>0. TypeOK /\ TypeOK'
  BY NextType DEF QueueInv
<1> USE <1>0
<1>1. CASE Tick
  <2>1. claim \in ClaimFiles
    BY DEF TypeOK, ClaimFiles
  <2>2. OnlyShrinks
    BY <1>1, <2>1, AgedType DEF Tick, OnlyShrinks
  <2>3. LeavesSettled
    BY <1>1 DEF Tick, LeavesSettled
  <2> QED
    BY <2>2, <2>3, QuietStep
<1>2. CASE ClaimOperation
  <2>1. PICK a \in Agents, lease \in Leases, owner \in Owners \cup {Legacy},
             multiple \in BOOLEAN :
               \/ ClaimNext(a, lease, owner, multiple)
               \/ \E i \in Known : Claim(a, i, lease, owner, multiple)
    BY <1>2, OwnersAssumption DEF ClaimOperation
  <2>2. MayAskForMultiple(a, multiple) /\ UNCHANGED status
    BY <2>1 DEF ClaimNext, Claim
  <2>3. PICK seen \in LaterReading :
               \/ \E i \in Items : /\ Grantable(a, i, multiple, seen, RecoveredDirs)
                                   /\ Grant(a, i, lease, owner, seen, RecoveredDirs)
               \/ Refuse(seen, RecoveredDirs)
    BY <2>1 DEF ClaimNext, Claim, Picks, Eligible, Known
  <2>4. CASE Refuse(seen, RecoveredDirs)
    BY <2>2, <2>4, SeenShrinks, QuietStep DEF Refuse, LeavesSettled
  <2>5. ASSUME NEW i \in Items,
               Grantable(a, i, multiple, seen, RecoveredDirs),
               Grant(a, i, lease, owner, seen, RecoveredDirs)
        PROVE  QueueInv'
    BY <2>2, <2>5, GrantStep
  <2> QED
    BY <2>3, <2>4, <2>5
<1>3. CASE OwnerOperation
  <2>1. PICK i \in Items, t \in 1 .. issued :
               \/ OwnedCallTooLate(i, t)
               \/ Heartbeat(i, t)
               \/ Release(i, t)
               \/ Complete(i, t)
               \/ Block(i, t)
    BY <1>3 DEF OwnerOperation
  <2>2. i \in Claimed(claim)
    BY <2>1, HeldIsClaimed
       DEF OwnedCallTooLate, Heartbeat, Release, Complete, Block, Owns
  <2>3. LeavesSettled
    BY <2>1, <2>2 DEF OwnedCallTooLate, Heartbeat, Release, Complete, Block,
                      WriteCompleted, WriteBlocked, Present, Statuses,
                      LeavesSettled, Claimed, TypeOK
  <2>4. OnlyShrinks
    <3>1. CASE Heartbeat(i, t)
      <4>1. i \in ActiveClaims(claim)
        BY <2>2, <3>1 DEF Heartbeat, Owns, ActiveClaims
      <4>2. claim[i] \in Claims
        BY <2>2 DEF TypeOK, Claimed
      <4>3. claim' = [claim EXCEPT ![i] = [claim[i] EXCEPT !.left = claim[i].lease]]
        BY <3>1 DEF Heartbeat
      <4> QED
        BY <4>1, <4>2, <4>3 DEF OnlyShrinks, ActiveClaims, Claimed, TypeOK, Claims
    <3>2. CASE \E event \in Events : ArchiveClaim(i, event)
      BY <3>2, ArchiveShrinks
    <3> QED
      BY <2>1, <3>1, <3>2 DEF OwnedCallTooLate, Release, Complete, Block, Events
  <2> QED
    BY <2>3, <2>4, QuietStep
<1>4. CASE ItemOperation
  <2>1. PICK i \in Items : \/ \E s \in EnqueuedAs : Enqueue(i, s)
                           \/ Unblock(i)
                           \/ Cancel(i)
                           \/ Remove(i)
    BY <1>4 DEF ItemOperation
  <2>2. LeavesSettled
    BY <2>1 DEF Enqueue, MayEnqueue, Unblock, Cancel, Remove, Present, Statuses,
                LeavesSettled, TypeOK
  <2>3. OnlyShrinks
    BY <2>1 DEF Enqueue, Unblock, Cancel, Remove, OnlyShrinks
  <2> QED
    BY <2>2, <2>3, QuietStep
<1>5. CASE RecoverStale
  <2>1. OnlyShrinks
    BY <1>5, SeenShrinks DEF RecoverStale, LaterReading
  <2>2. LeavesSettled
    BY <1>5 DEF RecoverStale, LeavesSettled
  <2> QED
    BY <2>1, <2>2, QuietStep
<1>6. CASE RecoverGenerationOperation
  <2>1. PICK i \in Items : \E event : ArchiveClaim(i, event) /\ UNCHANGED status
    BY <1>6 DEF RecoverGenerationOperation, RecoverGeneration
  <2>2. LeavesSettled
    BY <2>1 DEF LeavesSettled
  <2> QED
    BY <2>1, <2>2, ArchiveShrinks, QuietStep
<1> QED
  BY <1>1, <1>2, <1>3, <1>4, <1>5, <1>6 DEF Next

\* and so does one that stops half way.
LEMMA CrashInv ==
    ASSUME QueueInv, CrashStep \/ \E i \in Items : DiscardTorn(i)
    PROVE  QueueInv'
<1>0. TypeOK /\ TypeOK'
  BY CrashType DEF QueueInv
<1> USE <1>0
<1>1. CASE CrashRecover
  <2>1. PICK i \in Items : \E done, event : DieArchiving(done, i, event)
    BY <1>1 DEF CrashRecover, Recoverable, Claimed
  <2>2. LeavesSettled
    BY <1>1 DEF CrashRecover, LeavesSettled
  <2> QED
    BY <2>1, <2>2, DieArchivingShrinks, QuietStep
<1>2. ASSUME NEW i \in Items, CrashEnqueue(i) \/ DiscardTorn(i)
      PROVE  QueueInv'
  <2>1. LeavesSettled
    BY <1>2 DEF CrashEnqueue, MayEnqueue, DiscardTorn, LeavesSettled, TypeOK
  <2>2. OnlyShrinks
    BY <1>2 DEF CrashEnqueue, DiscardTorn, OnlyShrinks
  <2> QED
    BY <2>1, <2>2, QuietStep
<1>3. ASSUME NEW i \in Items, NEW a \in Agents, NEW multiple \in BOOLEAN,
             CrashClaim(a, i, multiple)
      PROVE  QueueInv'
  <2>1. OnlyShrinks
    BY <1>3, SeenShrinks DEF CrashClaim
  <2>2. LeavesSettled
    BY <1>3 DEF CrashClaim, LeavesSettled
  <2> QED
    BY <2>1, <2>2, QuietStep
<1>4. ASSUME NEW i \in Items, NEW t,
             \/ CrashComplete(i, t) \/ CrashBlock(i, t)
             \/ CrashRelease(i, t) \/ CrashTooLate(i, t)
      PROVE  QueueInv'
  <2>1. i \in Claimed(claim)
    BY <1>4, HeldIsClaimed
    DEF CrashComplete, CrashBlock, CrashRelease, CrashTooLate, Owns
  <2>2. LeavesSettled
    BY <1>4, <2>1
    DEF CrashComplete, CrashBlock, CrashRelease, CrashTooLate, WriteCompleted,
        WriteBlocked, Present, Statuses, LeavesSettled, Claimed, TypeOK
  <2>3. \E event : DieArchiving({}, i, event)
    BY <1>4 DEF CrashComplete, CrashBlock, CrashRelease, CrashTooLate
  <2> QED
    BY <2>2, <2>3, DieArchivingShrinks, QuietStep
<1>5. ASSUME NEW i \in Items, CrashRecoverGeneration(i)
      PROVE  QueueInv'
  <2>1. (\E event : DieArchiving({}, i, event)) /\ UNCHANGED status
    BY <1>5 DEF CrashRecoverGeneration
  <2>2. LeavesSettled
    BY <2>1 DEF LeavesSettled
  <2> QED
    BY <2>1, <2>2, DieArchivingShrinks, QuietStep
<1> QED
  BY <1>1, <1>2, <1>3, <1>4, <1>5 DEF CrashStep

\* The invariant of the queue holds whatever the order of the operations and
\* whoever dies in the middle of one.
THEOREM CrashInvariant == CrashSpec => []QueueInv
<1>1. Init => QueueInv
  <2>1. Init => TypeOK
    BY DEF Init, TypeOK, FileStates
  <2> QED
    BY <2>1 DEF Init, QueueInv, ScopesExclusive, OneClaimPerWorker,
                SettledDependencies, ActiveClaims, Claimed
<1>2. QueueInv /\ [CrashNext]_vars => QueueInv'
  <2>1. QueueInv /\ UNCHANGED vars => QueueInv'
    BY DEF QueueInv, TypeOK, ScopesExclusive, OneClaimPerWorker, SettledDependencies,
           ActiveClaims, Claimed, IsStale, vars
  <2> QED
    BY <2>1, NextInv, CrashInv DEF CrashNext
<1> QED
  BY <1>1, <1>2, PTL DEF CrashSpec

\* Exclusive scopes are exclusive, even when processes die: no two live claims
\* hold the same scope.
THEOREM CrashScopesExclusive == CrashSpec => []ScopesExclusive
<1>1. QueueInv => ScopesExclusive
  BY DEF QueueInv
<1> QED
  BY <1>1, CrashInvariant, PTL

\* A worker that may not pass --allow-multiple has at most one live claim, even
\* when processes die.
THEOREM CrashOneClaimPerWorker == CrashSpec => []OneClaimPerWorker
<1>1. QueueInv => OneClaimPerWorker
  BY DEF QueueInv
<1> QED
  BY <1>1, CrashInvariant, PTL

\* What a claimed item depends on stays done, even when processes die between
\* writing an item and archiving its claim.
THEOREM CrashStartedInOrder == CrashSpec => []StartedInOrder
<1>1. QueueInv => StartedInOrder
  BY DEF QueueInv, SettledDependencies, StartedInOrder
<1> QED
  BY <1>1, CrashInvariant, PTL

-----------------------------------------------------------------------------
(* Completions, when processes die *)

\* Item i had a claim of agent a: it is archived, or is still on disk.
HadClaim(i, a) ==
    \/ \E h \in history : h.item = i /\ h.agent = a
    \/ claim[i] # NoClaim /\ claim[i].agent = a

\* What a step may do to the records of claims: none is forgotten.
Remembers == \A i \in Items : \A a : HadClaim(i, a) => HadClaim(i, a)'

\* Archiving, also a part of it, writes to history before it removes a claim.
LEMMA ArchivedIsRemembered ==
    ASSUME TypeOK, NEW event, NEW i \in Items, ArchiveClaim(i, event)
    PROVE  Remembers
<1> SUFFICES ASSUME NEW j \in Items, NEW a, HadClaim(j, a)
             PROVE  HadClaim(j, a)'
  BY DEF Remembers
<1>1. CASE j = i /\ claim[j].agent = a
  <2>1. Archive(i, event) \in history'
    BY DEF ArchiveClaim
  <2> QED
    BY <1>1, <2>1 DEF HadClaim, Archive
<1>2. CASE j # i \/ claim[j].agent # a
  BY <1>2 DEF HadClaim, ArchiveClaim, TypeOK
<1> QED
  BY <1>1, <1>2

\* Also when it is cut short, at whatever point.
LEMMA PartIsRemembered ==
    ASSUME TypeOK, NEW done \in SUBSET Items, NEW event, NEW i \in Items,
           DieArchiving(done, i, event)
    PROVE  Remembers
<1> SUFFICES ASSUME NEW j \in Items, NEW a, HadClaim(j, a)
             PROVE  HadClaim(j, a)'
  BY DEF Remembers
<1>1. PICK written \in BOOLEAN, emptied \in BOOLEAN :
        /\ emptied => written
        /\ history' = history \cup {Archive(k, RecoveryEvent(k)) : k \in done}
                              \cup {Archive(k, event) : k \in {l \in {i} : written}}
        /\ claim' = [k \in Items |-> IF k \in done \/ (k = i /\ emptied)
                                     THEN NoClaim ELSE claim[k]]
  BY DEF DieArchiving
<1>2. CASE \E h \in history : h.item = j /\ h.agent = a
  BY <1>1, <1>2 DEF HadClaim
<1>3. CASE claim[j] # NoClaim /\ claim[j].agent = a
  <2>1. CASE j \in done
    <3>1. Archive(j, RecoveryEvent(j)) \in history'
      BY <1>1, <2>1
    <3> QED
      BY <1>3, <3>1 DEF HadClaim, Archive
  <2>2. CASE j = i /\ written
    <3>1. Archive(j, event) \in history'
      BY <1>1, <2>2
    <3> QED
      BY <1>3, <3>1 DEF HadClaim, Archive
  <2>3. CASE j \notin done /\ ~ (j = i /\ written)
    <3>1. claim'[j] = claim[j]
      BY <1>1, <2>3
    <3> QED
      BY <1>3, <3>1 DEF HadClaim
  <2> QED
    BY <2>1, <2>2, <2>3
<1> QED
  BY <1>2, <1>3 DEF HadClaim

\* Recovery, which a claim begins with, remembers; and what it leaves is
\* overwritten by no grant.
LEMMA RecoveredIsRemembered ==
    ASSUME TypeOK, NEW seen \in LaterReading, history' = RecoveredHistory,
           \A j \in Items : seen[j] # NoClaim => claim'[j] = seen[j]
    PROVE  Remembers
<1> SUFFICES ASSUME NEW j \in Items, NEW a, HadClaim(j, a)
             PROVE  HadClaim(j, a)'
  BY DEF Remembers
<1>1. CASE \E h \in history : h.item = j /\ h.agent = a
  BY <1>1 DEF HadClaim, RecoveredHistory
<1>2. CASE claim[j] # NoClaim /\ claim[j].agent = a /\ j \in Recoverable
  <2>1. Archive(j, RecoveryEvent(j)) \in history'
    BY <1>2 DEF RecoveredHistory
  <2> QED
    BY <1>2, <2>1 DEF HadClaim, Archive
<1>3. CASE claim[j] # NoClaim /\ claim[j].agent = a /\ j \notin Recoverable
  <2>1. Recovered[j] = claim[j] /\ j \in Claimed(Recovered)
    BY <1>3 DEF Recovered, Claimed
  <2>2. j \in Claimed(seen) /\ seen[j].agent = a
    BY <1>3, <2>1, RecoveredType, AgedType DEF LaterReading
  <2>3. claim'[j] = seen[j] /\ seen[j] # NoClaim
    BY <2>2 DEF Claimed
  <2> QED
    BY <2>2, <2>3 DEF HadClaim
<1> QED
  BY <1>1, <1>2, <1>3 DEF HadClaim

\* No operation forgets a claim, even if it is cut short.
LEMMA NextRemembers ==
    ASSUME TypeOK, CrashNext
    PROVE  Remembers
<1>1. ASSUME UNCHANGED <<claim, history>>
      PROVE  Remembers
  BY <1>1 DEF Remembers, HadClaim
<1>2. CASE Tick
  <2>1. claim \in ClaimFiles
    BY DEF TypeOK, ClaimFiles
  <2> QED
    BY <1>2, <2>1, AgedType DEF Tick, Remembers, HadClaim, Claimed
<1>3. ASSUME NEW a, NEW lease, NEW owner, NEW multiple,
             \/ ClaimNext(a, lease, owner, multiple)
             \/ \E i \in Known : Claim(a, i, lease, owner, multiple)
      PROVE  Remembers
  <2>1. PICK seen \in LaterReading :
          /\ history' = RecoveredHistory
          /\ \/ \E i \in Items : /\ Grantable(a, i, multiple, seen, RecoveredDirs)
                                 /\ Grant(a, i, lease, owner, seen, RecoveredDirs)
             \/ Refuse(seen, RecoveredDirs)
    BY <1>3 DEF ClaimNext, Claim, Picks, Eligible, Known
  <2>2. \A j \in Items : seen[j] # NoClaim => claim'[j] = seen[j]
    BY <2>1, SeenType DEF Grantable, Grant, Refuse, ClaimFiles
  <2> QED
    BY <2>1, <2>2, RecoveredIsRemembered
<1>4. ASSUME NEW i \in Items, NEW t,
             \/ OwnedCallTooLate(i, t) \/ Heartbeat(i, t) \/ Release(i, t)
             \/ Complete(i, t) \/ Block(i, t)
      PROVE  Remembers
  <2>1. CASE Heartbeat(i, t)
    <3>1. /\ i \in Claimed(claim) /\ UNCHANGED history
          /\ claim' = [claim EXCEPT ![i] = [claim[i] EXCEPT !.left = claim[i].lease]]
      BY <2>1, HeldIsClaimed DEF Heartbeat, Owns
    <3>2. claim[i] \in Claims
      BY <3>1 DEF TypeOK, Claimed
    <3>3. claim'[i] \in Claims /\ claim'[i].agent = claim[i].agent
      BY <3>1, <3>2, LeasesAssumption DEF TypeOK, Claims
    <3>4. \A j \in Items : j # i => claim'[j] = claim[j]
      BY <3>1 DEF TypeOK
    <3> QED
      BY <3>1, <3>3, <3>4, NullAssumption DEF Remembers, HadClaim
  <2> QED
    BY <1>4, <2>1, ArchivedIsRemembered DEF OwnedCallTooLate, Release, Complete, Block
<1>5. CASE RecoverStale
  BY <1>5, RecoveredIsRemembered DEF RecoverStale, LaterReading
<1>6. CASE RecoverGenerationOperation
  BY <1>6, ArchivedIsRemembered DEF RecoverGenerationOperation, RecoverGeneration
<1>7. CASE CrashRecover
  BY <1>7, PartIsRemembered DEF CrashRecover, Recoverable, Claimed
<1>8. ASSUME NEW i \in Items, NEW t,
             \/ CrashComplete(i, t) \/ CrashBlock(i, t) \/ CrashRelease(i, t)
             \/ CrashTooLate(i, t) \/ CrashRecoverGeneration(i)
      PROVE  Remembers
  BY <1>8, PartIsRemembered
  DEF CrashComplete, CrashBlock, CrashRelease, CrashTooLate, CrashRecoverGeneration
<1>9. ASSUME NEW i \in Items, NEW a, NEW multiple, CrashClaim(a, i, multiple)
      PROVE  Remembers
  BY <1>9, RecoveredIsRemembered DEF CrashClaim
<1>10. ASSUME NEW i \in Items, CrashEnqueue(i) \/ DiscardTorn(i)
       PROVE  Remembers
  BY <1>1, <1>10 DEF CrashEnqueue, DiscardTorn
<1>11. CASE ItemOperation
  BY <1>1, <1>11 DEF ItemOperation, Enqueue, Unblock, Cancel, Remove
<1> QED
  BY <1>2, <1>3, <1>4, <1>5, <1>6, <1>7, <1>8, <1>9, <1>10, <1>11
  DEF CrashNext, CrashStep, Next, ClaimOperation, OwnerOperation

\* An item gets done by its owner, and by nothing else.
LEMMA DoneByOwner ==
    ASSUME TypeOK, CrashNext, NEW i \in Items, status'[i] = "DONE"
    PROVE  \/ status[i] = "DONE" /\ completion'[i] = completion[i]
           \/ claim[i] # NoClaim /\ completion'[i] = claim[i].agent
<1>1. ASSUME NEW j \in Items, NEW t, Complete(j, t) \/ CrashComplete(j, t)
      PROVE  \/ status[i] = "DONE" /\ completion'[i] = completion[i]
             \/ claim[i] # NoClaim /\ completion'[i] = claim[i].agent
  <2>1. /\ claim[j] # NoClaim
        /\ status' = [status EXCEPT ![j] = "DONE"]
        /\ completion' = [completion EXCEPT ![j] = claim[j].agent]
    BY <1>1 DEF Complete, CrashComplete, WriteCompleted, Owns, HoldsToken
  <2> QED
    BY <2>1 DEF TypeOK
<1>2. CASE UNCHANGED <<status, completion>>
  BY <1>2
<1>3. ASSUME NEW j \in Items, NEW t, Block(j, t) \/ CrashBlock(j, t)
      PROVE  status[i] = "DONE" /\ completion'[i] = completion[i]
  BY <1>3 DEF Block, CrashBlock, WriteBlocked, TypeOK
<1>4. CASE ItemOperation
  BY <1>4, EnqueuedAssumption DEF ItemOperation, Enqueue, Unblock, Cancel, Remove, TypeOK
<1>5. ASSUME NEW j \in Items, CrashEnqueue(j) \/ DiscardTorn(j)
      PROVE  status[i] = "DONE" /\ completion'[i] = completion[i]
  BY <1>5 DEF CrashEnqueue, DiscardTorn, TypeOK
<1> QED
  BY <1>1, <1>2, <1>3, <1>4, <1>5
  DEF CrashNext, CrashStep, Next, Tick, ClaimOperation, ClaimNext, Claim, OwnerOperation,
      OwnedCallTooLate, Heartbeat, Release, RecoverStale, RecoverGenerationOperation,
      RecoverGeneration, CrashRecover, CrashClaim, CrashRelease, CrashTooLate,
      CrashRecoverGeneration

\* Every completion can be traced to a claim of the agent that the item names,
\* even when that agent dies between writing the item and archiving its claim.
THEOREM CrashCompletionTraced == CrashSpec => []CompletionAccounted
<1>1. Init => CompletionAccounted
  BY DEF Init, CompletionAccounted
<1>2. TypeOK /\ CompletionAccounted /\ [CrashNext]_vars => CompletionAccounted'
  <2>1. CompletionAccounted <=>
          \A i \in Items : status[i] = "DONE" => HadClaim(i, completion[i])
    BY DEF CompletionAccounted, HadClaim
  <2>2. CompletionAccounted' <=>
          \A i \in Items : status'[i] = "DONE" => HadClaim(i, completion[i])'
    BY DEF CompletionAccounted, HadClaim
  <2>3. ASSUME TypeOK, CompletionAccounted, CrashNext, NEW i \in Items, status'[i] = "DONE"
        PROVE  HadClaim(i, completion[i])'
    <3> DEFINE a == completion'[i]
    <3>1. HadClaim(i, a)
      BY <2>1, <2>3, DoneByOwner DEF HadClaim
    <3>2. \/ \E h \in history' : h.item = i /\ h.agent = a
          \/ claim'[i] # NoClaim /\ claim'[i].agent = a
      BY <2>3, <3>1, NextRemembers DEF Remembers, HadClaim
    <3> QED
      BY <3>2 DEF HadClaim
  <2>4. CompletionAccounted /\ UNCHANGED vars => CompletionAccounted'
    BY DEF CompletionAccounted, vars
  <2> QED
    BY <2>2, <2>3, <2>4
<1> QED
  BY <1>1, <1>2, CrashTypeCorrect, PTL DEF CrashSpec

-----------------------------------------------------------------------------
(* Leases and cancelled items, when processes die *)

\* Claim i is still in force after a step.
Stays(i) == claim'[i] # NoClaim /\ claim'[i].token = claim[i].token

\* Its owner, or its own session, ended it, and history says so.
EndedByOwner(i) ==
    /\ claim'[i] = NoClaim
    /\ \E h \in history' :
         /\ h.token = claim[i].token
         /\ h.event \in {"released", "completed", "blocked",
                         "session-generation-recovered", "legacy-claim-recovered"}

\* Recovery passes over a claim of work that is to do while its lease runs.
LEMMA RecoverySpares ==
    ASSUME TypeOK, NEW i \in Claimed(claim), status[i] = "TODO", claim[i].left > 0
    PROVE  /\ i \notin Recoverable
           /\ \A seen \in LaterReading : seen[i] # NoClaim /\ seen[i].token = claim[i].token
<1>1. i \notin Recoverable
  BY DEF Recoverable, IsStale, TypeOK, Claimed, Claims
<1>2. Recovered[i] = claim[i] /\ i \in Claimed(Recovered)
  BY <1>1 DEF Recovered, Claimed
<1>3. \A seen \in LaterReading : i \in Claimed(seen) /\ seen[i].token = claim[i].token
  BY <1>2, RecoveredType, AgedType DEF LaterReading
<1> QED
  BY <1>1, <1>3 DEF Claimed

\* Each step leaves a running claim of work that is to do in force, or its owner
\* ended it.
LEMMA HonouredStep ==
    ASSUME TypeOK, CrashNext, NEW i \in Claimed(claim), status[i] = "TODO", claim[i].left > 0
    PROVE  Stays(i) \/ EndedByOwner(i)
<1> USE DEF Stays
<1>0. i \in Items /\ claim[i] # NoClaim
  BY DEF Claimed
<1>1. CASE UNCHANGED claim
  BY <1>0, <1>1
<1>2. CASE Tick
  <2>1. claim \in ClaimFiles
    BY DEF TypeOK, ClaimFiles
  <2> QED
    BY <1>2, <2>1, AgedType DEF Tick, Claimed
<1>3. ASSUME NEW seen \in LaterReading, seen[i] # NoClaim => claim'[i] = seen[i]
      PROVE  Stays(i)
  BY <1>3, RecoverySpares
<1>4. ASSUME NEW a, NEW lease, NEW owner, NEW multiple,
             \/ ClaimNext(a, lease, owner, multiple)
             \/ \E j \in Known : Claim(a, j, lease, owner, multiple)
      PROVE  Stays(i)
  <2>1. PICK seen \in LaterReading :
          \/ \E j \in Items : /\ Grantable(a, j, multiple, seen, RecoveredDirs)
                              /\ Grant(a, j, lease, owner, seen, RecoveredDirs)
          \/ Refuse(seen, RecoveredDirs)
    BY <1>4 DEF ClaimNext, Claim, Picks, Eligible, Known
  <2>2. seen[i] # NoClaim => claim'[i] = seen[i]
    BY <1>0, <2>1, SeenType DEF Grantable, Grant, Refuse, ClaimFiles
  <2> QED
    BY <1>3, <2>2
<1>5. ASSUME NEW j \in Items, NEW event \in {"released", "completed", "blocked",
                                "session-generation-recovered", "legacy-claim-recovered"},
             ArchiveClaim(j, event)
      PROVE  Stays(i) \/ EndedByOwner(i)
  <2>1. CASE j = i
    <3>1. Archive(i, event) \in history' /\ claim'[i] = NoClaim
      BY <1>0, <1>5, <2>1 DEF ArchiveClaim, TypeOK
    <3> QED
      BY <1>5, <3>1 DEF EndedByOwner, Archive
  <2>2. CASE j # i
    BY <1>0, <1>5, <2>2 DEF ArchiveClaim, TypeOK
  <2> QED
    BY <2>1, <2>2
<1>6. ASSUME NEW j \in Items, NEW event \in {"released", "completed", "blocked",
                                "session-generation-recovered", "legacy-claim-recovered"},
             DieArchiving({}, j, event)
      PROVE  Stays(i) \/ EndedByOwner(i)
  <2>1. PICK written \in BOOLEAN, emptied \in BOOLEAN :
          /\ emptied => written
          /\ \A k \in {l \in {j} : written} : Archive(k, event) \in history'
          /\ claim' = [k \in Items |-> IF k = j /\ emptied THEN NoClaim ELSE claim[k]]
    BY <1>6 DEF DieArchiving
  <2>2. CASE j = i /\ emptied
    <3>1. Archive(i, event) \in history' /\ claim'[i] = NoClaim
      BY <1>0, <2>1, <2>2
    <3> QED
      BY <1>6, <3>1 DEF EndedByOwner, Archive
  <2>3. CASE ~ (j = i /\ emptied)
    BY <1>0, <2>1, <2>3
  <2> QED
    BY <2>2, <2>3
<1>7. ASSUME NEW j \in Items, NEW t,
             \/ OwnedCallTooLate(j, t) \/ Heartbeat(j, t) \/ Release(j, t)
             \/ Complete(j, t) \/ Block(j, t)
      PROVE  Stays(i) \/ EndedByOwner(i)
  <2>1. CASE OwnedCallTooLate(j, t)
    <3>1. j # i
      BY <2>1 DEF OwnedCallTooLate, IsStale
    <3> QED
      BY <1>0, <2>1, <3>1 DEF OwnedCallTooLate, ArchiveClaim, TypeOK
  <2>2. CASE Heartbeat(j, t)
    <3>1. /\ j \in Claimed(claim)
          /\ claim' = [claim EXCEPT ![j] = [claim[j] EXCEPT !.left = claim[j].lease]]
      BY <2>2, HeldIsClaimed DEF Heartbeat, Owns
    <3>2. claim[j] \in Claims
      BY <3>1 DEF TypeOK, Claimed
    <3>3. claim'[j] \in Claims /\ claim'[j].token = claim[j].token
      BY <3>1, <3>2, LeasesAssumption DEF TypeOK, Claims
    <3>4. i # j => claim'[i] = claim[i]
      BY <1>0, <3>1 DEF TypeOK
    <3> QED
      BY <1>0, <3>3, <3>4, NullAssumption
  <2> QED
    BY <1>5, <1>7, <2>1, <2>2 DEF Release, Complete, Block
<1>8. CASE RecoverStale
  BY <1>3, <1>8 DEF RecoverStale, LaterReading
<1>9. CASE RecoverGenerationOperation
  BY <1>5, <1>9 DEF RecoverGenerationOperation, RecoverGeneration, GenerationEvent
<1>10. CASE CrashRecover
  <2>1. PICK j \in Recoverable :
               DieArchiving({k \in Recoverable : k < j}, j, RecoveryEvent(j))
    BY <1>10 DEF CrashRecover
  <2>2. i # j /\ i \notin {k \in Recoverable : k < j}
    BY RecoverySpares
  <2> QED
    BY <1>0, <2>1, <2>2 DEF DieArchiving
<1>11. ASSUME NEW j \in Items, NEW a, NEW multiple, CrashClaim(a, j, multiple)
       PROVE  Stays(i)
  BY <1>3, <1>11 DEF CrashClaim
<1>12. ASSUME NEW j \in Items, NEW t,
              \/ CrashComplete(j, t) \/ CrashBlock(j, t) \/ CrashRelease(j, t)
              \/ CrashTooLate(j, t) \/ CrashRecoverGeneration(j)
       PROVE  Stays(i) \/ EndedByOwner(i)
  <2>1. CASE CrashTooLate(j, t)
    <3>1. j # i
      BY <2>1 DEF CrashTooLate, IsStale
    <3> QED
      BY <1>0, <2>1, <3>1 DEF CrashTooLate, DieArchiving
  <2> QED
    BY <1>6, <1>12, <2>1
    DEF CrashComplete, CrashBlock, CrashRelease, CrashRecoverGeneration, GenerationEvent
<1>13. ASSUME NEW j \in Items, CrashEnqueue(j) \/ DiscardTorn(j)
       PROVE  UNCHANGED claim
  BY <1>13 DEF CrashEnqueue, DiscardTorn
<1>14. CASE ItemOperation
  BY <1>1, <1>14 DEF ItemOperation, Enqueue, Unblock, Cancel, Remove
<1> QED
  BY <1>1, <1>2, <1>4, <1>7, <1>8, <1>9, <1>10, <1>11, <1>12, <1>13, <1>14
  DEF CrashNext, CrashStep, Next, ClaimOperation, OwnerOperation

\* Nobody takes an item from its owner while the lease runs, even when processes
\* die in the middle of an operation: who dies while it archives a claim has
\* written the history file before it removes claim.json.
THEOREM CrashLeaseKept == CrashSpec => LeaseHonoured
<1> DEFINE Honoured ==
      \A i \in Claimed(claim) :
          status[i] = "TODO" /\ claim[i].left > 0
          /\ (claim'[i] = NoClaim \/ claim'[i].token # claim[i].token) =>
            /\ claim'[i] = NoClaim
            /\ \E h \in history' :
                 /\ h.token = claim[i].token
                 /\ h.event \in {"released", "completed", "blocked",
                                "session-generation-recovered", "legacy-claim-recovered"}
<1>1. TypeOK /\ [CrashNext]_vars => [Honoured]_vars
  BY HonouredStep DEF Stays, EndedByOwner
<1> QED
  BY <1>1, CrashTypeCorrect, PTL DEF CrashSpec, LeaseHonoured

\* A cancelled item that nobody has stays so until its file is deleted, even when
\* processes die.
THEOREM CrashCancelledLeft == CrashSpec => CancelledNotTakenUp
<1> DEFINE Left ==
      \A i \in Items : status[i] = "CANCELLED" /\ claim[i] = NoClaim =>
          \/ status'[i] = "REMOVED"
          \/ status'[i] = "CANCELLED" /\ claim'[i] = NoClaim
<1>1. ASSUME TypeOK, CrashNext, NEW i \in Items, status[i] = "CANCELLED", claim[i] = NoClaim
      PROVE  \/ status'[i] = "REMOVED"
             \/ status'[i] = "CANCELLED" /\ claim'[i] = NoClaim
  <2> USE <1>1
  <2>1. \A seen \in LaterReading : seen[i] = NoClaim
    BY SeenType DEF Claimed
  <2>2. CASE Tick
    <3>1. claim \in ClaimFiles
      BY DEF TypeOK, ClaimFiles
    <3> QED
      BY <2>2, <3>1, AgedType DEF Tick, Claimed
  <2>3. ASSUME NEW a, NEW lease, NEW owner, NEW multiple,
               \/ ClaimNext(a, lease, owner, multiple)
               \/ \E j \in Known : Claim(a, j, lease, owner, multiple)
        PROVE  status'[i] = "CANCELLED" /\ claim'[i] = NoClaim
    <3>1. PICK seen \in LaterReading :
            \/ \E j \in Items : /\ Grantable(a, j, multiple, seen, RecoveredDirs)
                                /\ Grant(a, j, lease, owner, seen, RecoveredDirs)
            \/ Refuse(seen, RecoveredDirs)
      BY <2>3 DEF ClaimNext, Claim, Picks, Eligible, Known
    <3>2. claim'[i] = seen[i]
      BY <3>1, SeenType DEF Grantable, Grant, Refuse, ClaimFiles
    <3>3. UNCHANGED status
      BY <2>3 DEF ClaimNext, Claim
    <3> QED
      BY <2>1, <3>2, <3>3
  <2>4. ASSUME NEW j \in Items, NEW t,
               \/ OwnedCallTooLate(j, t) \/ Heartbeat(j, t) \/ Release(j, t)
               \/ Complete(j, t) \/ Block(j, t)
        PROVE  status'[i] = "CANCELLED" /\ claim'[i] = NoClaim
    BY <2>4 DEF OwnedCallTooLate, Heartbeat, Release, Complete, Block, Owns, HoldsToken,
                WriteCompleted, WriteBlocked, ArchiveClaim, TypeOK
  <2>5. CASE RecoverStale
    BY <2>1, <2>5 DEF RecoverStale, LaterReading
  <2>6. CASE RecoverGenerationOperation
    BY <2>6
    DEF RecoverGenerationOperation, RecoverGeneration, NeedsRecovery, ArchiveClaim, TypeOK
  <2>7. CASE CrashRecover
    BY <2>7 DEF CrashRecover, DieArchiving
  <2>8. ASSUME NEW j \in Items, NEW a, NEW multiple, CrashClaim(a, j, multiple)
        PROVE  status'[i] = "CANCELLED" /\ claim'[i] = NoClaim
    BY <2>1, <2>8 DEF CrashClaim
  <2>9. ASSUME NEW j \in Items, NEW t,
               \/ CrashComplete(j, t) \/ CrashBlock(j, t) \/ CrashRelease(j, t)
               \/ CrashTooLate(j, t) \/ CrashRecoverGeneration(j)
        PROVE  status'[i] = "CANCELLED" /\ claim'[i] = NoClaim
    BY <2>9 DEF CrashComplete, CrashBlock, CrashRelease, CrashTooLate, Owns, HoldsToken,
                CrashRecoverGeneration, WriteCompleted, WriteBlocked, DieArchiving, TypeOK
  <2>10. CASE ItemOperation \/ \E j \in Items : CrashEnqueue(j) \/ DiscardTorn(j)
    BY <2>10 DEF ItemOperation, Enqueue, MayEnqueue, Unblock, Cancel, Remove, CrashEnqueue,
                 DiscardTorn, TypeOK
  <2> QED
    BY <2>2, <2>3, <2>4, <2>5, <2>6, <2>7, <2>8, <2>9, <2>10
    DEF CrashNext, CrashStep, Next, ClaimOperation, OwnerOperation
<1>2. TypeOK /\ [CrashNext]_vars => [Left]_vars
  BY <1>1
<1> QED
  BY <1>2, CrashTypeCorrect, PTL DEF CrashSpec, CancelledNotTakenUp
=============================================================================
