------------------------ MODULE AgentQueueTokensProofs ------------------------
(***************************************************************************)
(* Theorems about the queue while no process dies: what an operation may   *)
(* do to claims, history and finished items.                               *)
(***************************************************************************)
EXTENDS AgentQueueProofs

SameOwner(c, d) == c.token = d.token /\ c.agent = d.agent

\* What an operation does to the claims: those of gone are archived, each with
\* one event; fresh has the item of a claim that is granted, if one is; any
\* other claim stays what it is but for its clock.
Effect(gone, fresh, event) ==
    /\ gone \subseteq Claimed(claim)
    /\ event \in [Items -> Events]
    /\ \A h : h \in history' <=> \/ h \in history
                                 \/ \E i \in gone : h = Archive(i, event[i])
    /\ claimDirs' = (claimDirs \ gone) \cup fresh
    /\ \A i \in gone : i \in fresh \/ claim'[i] = NoClaim
    /\ \A i \in Items \ (gone \cup fresh) :
         /\ claim'[i] = NoClaim <=> claim[i] = NoClaim
         /\ claim[i] # NoClaim => SameOwner(claim'[i], claim[i])
    /\ \/ fresh = {} /\ issued' = issued
       \/ \E i \in Items : /\ fresh = {i} /\ issued' = issued + 1
                           /\ i \in gone \/ claim[i] = NoClaim
                           /\ status[i] = "TODO" /\ status'[i] = "TODO"
                           /\ claim'[i] # NoClaim /\ claim'[i].token = issued + 1

\* The events that an owner, or its own session, causes.
OwnEvents == {"released", "completed", "blocked",
              "session-generation-recovered", "legacy-claim-recovered"}

\* Nobody else may archive a claim of a TODO item while its lease runs.
Justified(gone, fresh, event) ==
    \A i \in gone : \/ event[i] \in OwnEvents /\ i \notin fresh
                    \/ status[i] # "TODO"
                    \/ IsStale(claim[i])

HasEffect ==
    \E gone \in SUBSET Items, fresh \in SUBSET Items, event \in [Items -> Events] :
        Effect(gone, fresh, event) /\ Justified(gone, fresh, event)

\* Archiving one claim.
LEMMA ArchiveEffect ==
    ASSUME TypeOK, NEW i \in Claimed(claim), NEW e \in Events,
           ArchiveClaim(i, e), UNCHANGED issued,
           e \in OwnEvents \/ IsStale(claim[i])
    PROVE  HasEffect
<1> DEFINE event == [j \in Items |-> e]
<1>1. i \in Items /\ {i} \in SUBSET Items /\ {} \in SUBSET Items
  BY DEF Claimed
<1>2. Effect({i}, {}, event)
  BY <1>1 DEF Effect, ArchiveClaim, TypeOK, SameOwner
<1>3. Justified({i}, {}, event)
  BY <1>1 DEF Justified
<1> QED
  BY <1>1, <1>2, <1>3 DEF HasEffect

\* Touching no claim, but for the clocks.
LEMMA NoEffect ==
    ASSUME UNCHANGED <<history, claimDirs, issued>>,
           \A i \in Items : /\ claim'[i] = NoClaim <=> claim[i] = NoClaim
                            /\ claim[i] # NoClaim => SameOwner(claim'[i], claim[i])
    PROVE  HasEffect
<1> DEFINE event == [j \in Items |-> "released"]
<1>1. Effect({}, {}, event)
  BY DEF Effect, Events
<1>2. Justified({}, {}, event)
  BY DEF Justified
<1>3. event \in [Items -> Events]
  BY DEF Events
<1> QED
  BY <1>1, <1>2, <1>3 DEF HasEffect

\* What is left after the recovery, at either reading of the clock.
LEMMA SeenTokens ==
    ASSUME TypeOK, NEW seen \in LaterReading
    PROVE  /\ \A i \in Recoverable : seen[i] = NoClaim
           /\ \A i \in Items \ Recoverable :
                /\ seen[i] = NoClaim <=> claim[i] = NoClaim
                /\ claim[i] # NoClaim => SameOwner(seen[i], claim[i])
<1> USE DEF SameOwner
<1>1. /\ \A i \in Recoverable : Recovered[i] = NoClaim
      /\ \A i \in Items \ Recoverable : Recovered[i] = claim[i]
  BY DEF Recovered, Recoverable, Claimed
<1>2. CASE seen = Recovered
  BY <1>1, <1>2
<1>3. CASE seen = Aged(Recovered)
  <2>1. /\ Claimed(Aged(Recovered)) = Claimed(Recovered)
        /\ \A i \in Claimed(Recovered) : SameOwner(Aged(Recovered)[i], Recovered[i])
    BY RecoveredType, AgedType
  <2> QED
    BY <1>1, <1>3, <2>1 DEF Claimed, Recoverable
<1> QED
  BY <1>2, <1>3 DEF LaterReading

\* Recovering, and granting or refusing a claim after it.
LEMMA RecoverEffect ==
    ASSUME TypeOK, history' = RecoveredHistory, UNCHANGED status,
           NEW seen \in LaterReading,
           \/ claim' = seen /\ claimDirs' = RecoveredDirs /\ UNCHANGED issued
           \/ \E a \in Agents, i \in Items, lease \in Leases,
                 owner \in Owners \cup {Legacy}, multiple \in BOOLEAN :
                 /\ Grantable(a, i, multiple, seen, RecoveredDirs)
                 /\ Grant(a, i, lease, owner, seen, RecoveredDirs)
    PROVE  HasEffect
<1> DEFINE event == [i \in Items |-> RecoveryEvent(i)]
<1> USE NullAssumption
<1>1. Recoverable \subseteq Claimed(claim) /\ Recoverable \subseteq Items
  BY DEF Recoverable, Claimed
<1>2. event \in [Items -> Events]
  BY RecoveryEventType
<1>3. \A h : h \in history' <=> \/ h \in history
                                \/ \E i \in Recoverable : h = Archive(i, event[i])
  BY <1>1 DEF RecoveredHistory
<1>4. \A fresh : Justified(Recoverable, fresh, event)
  BY DEF Justified, Recoverable
<1>5. CASE claim' = seen /\ claimDirs' = RecoveredDirs /\ UNCHANGED issued
  <2>1. Effect(Recoverable, {}, event)
    BY <1>1, <1>2, <1>3, <1>5, SeenTokens DEF Effect, RecoveredDirs
  <2> QED
    BY <1>1, <1>2, <1>4, <2>1 DEF HasEffect
<1>6. ASSUME NEW a \in Agents, NEW i \in Items, NEW lease \in Leases,
             NEW owner \in Owners \cup {Legacy}, NEW multiple \in BOOLEAN,
             Grantable(a, i, multiple, seen, RecoveredDirs),
             Grant(a, i, lease, owner, seen, RecoveredDirs)
      PROVE  HasEffect
  <2>1. /\ NewClaim(a, lease, owner) \in Claims
        /\ NewClaim(a, lease, owner).token = issued + 1
    BY LeasesAssumption DEF NewClaim, Claims, TypeOK
  <2>2. /\ claim'[i] = NewClaim(a, lease, owner)
        /\ \A j \in Items : j # i => claim'[j] = seen[j]
    BY <1>6, SeenType DEF Grant, ClaimFiles
  <2>3. status[i] = "TODO" /\ seen[i] = NoClaim
    BY <1>6 DEF Grantable
  <2>4. i \in Recoverable \/ claim[i] = NoClaim
    BY <2>3, SeenTokens
  <2>5. claimDirs' = (claimDirs \ Recoverable) \cup {i} /\ issued' = issued + 1
    BY <1>6 DEF Grant, RecoveredDirs
  <2>6. Effect(Recoverable, {i}, event)
    BY <1>1, <1>2, <1>3, <2>1, <2>2, <2>3, <2>4, <2>5, SeenTokens DEF Effect
  <2> QED
    BY <1>1, <1>2, <1>4, <2>6 DEF HasEffect
<1> QED
  BY <1>5, <1>6

\* Every operation has such an effect.
LEMMA NextEffect ==
    ASSUME TypeOK, Next
    PROVE  HasEffect
<1>1. CASE Tick
  <2>1. claim \in ClaimFiles
    BY DEF TypeOK, ClaimFiles
  <2>2. \A i \in Items : /\ claim'[i] = NoClaim <=> claim[i] = NoClaim
                         /\ claim[i] # NoClaim => SameOwner(claim'[i], claim[i])
    BY <1>1, <2>1, AgedType DEF Tick, Claimed, SameOwner
  <2> QED
    BY <1>1, <2>2, NoEffect DEF Tick
<1>2. CASE ClaimOperation
  <2>1. PICK a \in Agents, lease \in Leases, owner \in Owners \cup {Legacy},
             multiple \in BOOLEAN :
               \/ ClaimNext(a, lease, owner, multiple)
               \/ \E i \in Known : Claim(a, i, lease, owner, multiple)
    BY <1>2, OwnersAssumption DEF ClaimOperation
  <2>2. UNCHANGED status /\ history' = RecoveredHistory
    BY <2>1 DEF ClaimNext, Claim
  <2>3. PICK seen \in LaterReading :
               \/ \E i \in Items : /\ Grantable(a, i, multiple, seen, RecoveredDirs)
                                   /\ Grant(a, i, lease, owner, seen, RecoveredDirs)
               \/ Refuse(seen, RecoveredDirs)
    BY <2>1 DEF ClaimNext, Claim, Picks, Eligible, Known
  <2> QED
    BY <2>2, <2>3, RecoverEffect DEF Refuse
<1>3. CASE OwnerOperation
  <2>1. PICK i \in Items, t \in 1 .. issued :
               \/ OwnedCallTooLate(i, t)
               \/ Heartbeat(i, t)
               \/ Release(i, t)
               \/ Complete(i, t)
               \/ Block(i, t)
    BY <1>3 DEF OwnerOperation
  <2>2. i \in Claimed(claim)
    BY <2>1, HeldIsClaimed
       DEF OwnedCallTooLate, Heartbeat, Release, Complete, Block, Owns
  <2>3. CASE Heartbeat(i, t)
    <3>1. claim[i] \in Claims
      BY <2>2 DEF TypeOK, Claimed
    <3>2. claim' = [claim EXCEPT ![i] = [claim[i] EXCEPT !.left = claim[i].lease]]
      BY <2>3 DEF Heartbeat
    <3>3. \A j \in Items : /\ claim'[j] = NoClaim <=> claim[j] = NoClaim
                           /\ claim[j] # NoClaim => SameOwner(claim'[j], claim[j])
      <4>1. [claim[i] EXCEPT !.left = claim[i].lease] \in Claims
        BY <3>1, LeasesAssumption DEF Claims
      <4> QED
        BY <2>2, <3>1, <3>2, <4>1, NullAssumption DEF TypeOK, Claimed, Claims, SameOwner
    <3> QED
      BY <2>3, <3>3, NoEffect DEF Heartbeat
  <2>4. CASE OwnedCallTooLate(i, t)
    BY <2>2, <2>4, ArchiveEffect DEF OwnedCallTooLate, Events
  <2>5. CASE Release(i, t) \/ Complete(i, t) \/ Block(i, t)
    BY <2>2, <2>5, ArchiveEffect DEF Release, Complete, Block, Events, OwnEvents
  <2> QED
    BY <2>1, <2>3, <2>4, <2>5
<1>4. CASE ItemOperation
  BY <1>4, NoEffect DEF ItemOperation, Enqueue, Unblock, Cancel, Remove, SameOwner
<1>5. CASE RecoverStale
  <2>1. Recovered \in LaterReading
    BY DEF LaterReading
  <2> QED
    BY <1>5, <2>1, RecoverEffect DEF RecoverStale
<1>6. CASE RecoverGenerationOperation
  <2>1. PICK i \in Items, a \in Agents, owner \in Owners : RecoverGeneration(i, a, owner)
    BY <1>6 DEF RecoverGenerationOperation
  <2>2. /\ i \in Claimed(claim)
        /\ GenerationEvent(i) \in Events /\ GenerationEvent(i) \in OwnEvents
    BY <2>1
    DEF RecoverGeneration, NeedsRecovery, Claimed, GenerationEvent, Events, OwnEvents
  <2> QED
    BY <2>1, <2>2, ArchiveEffect DEF RecoverGeneration
<1> QED
  BY <1>1, <1>2, <1>3, <1>4, <1>5, <1>6 DEF Next

-----------------------------------------------------------------------------
(* Tokens *)

\* Tokens are handed out once and archived once.
TokensSound ==
    /\ \A i \in Claimed(claim) : claim[i].token \in 1 .. issued
    /\ \A h \in history : h.token <= issued
    /\ \A i, j \in Claimed(claim) : i # j => claim[i].token # claim[j].token
    /\ TokensSpentOnce

\* A claim that is there after an operation was there before, or is the new one.
LEMMA ClaimOrigin ==
    ASSUME HasEffect
    PROVE  /\ issued' = issued \/ issued' = issued + 1
           /\ \A i \in Claimed(claim') :
                \/ i \in Claimed(claim) /\ claim'[i].token = claim[i].token
                \/ /\ status[i] = "TODO" /\ status'[i] = "TODO"
                   /\ claim'[i].token = issued + 1 /\ issued' = issued + 1
  BY DEF HasEffect, Effect, Claimed, SameOwner

LEMMA TokensStep ==
    ASSUME TypeOK, TypeOK', TokensSound, HasEffect
    PROVE  TokensSound'
<1> USE NullAssumption DEF TokensSound
<1>0. /\ issued \in Nat
      /\ \A i \in Claimed(claim) : claim[i].token \in Nat
      /\ \A h \in history : h.token \in Nat
  BY DEF TypeOK, Claimed, Claims, Archives
<1>1. PICK gone \in SUBSET Items, fresh \in SUBSET Items, event \in [Items -> Events] :
             Effect(gone, fresh, event)
  BY DEF HasEffect
<1>2. \A i \in Claimed(claim') :
        \/ i \in Claimed(claim) /\ i \notin gone /\ claim'[i].token = claim[i].token
        \/ fresh = {i} /\ claim'[i].token = issued + 1 /\ issued' = issued + 1
  BY <1>1 DEF Effect, Claimed, SameOwner
<1>3. issued' = issued \/ issued' = issued + 1
  BY <1>1 DEF Effect
<1>4. \A h \in history' : \/ h \in history
                          \/ \E i \in gone : h = Archive(i, event[i])
  BY <1>1 DEF Effect
<1>5. \A i \in gone : i \in Claimed(claim) /\ Archive(i, event[i]).token = claim[i].token
  BY <1>1 DEF Effect, Archive
<1>6. \A i \in Claimed(claim') : claim'[i].token \in 1 .. issued'
  BY <1>0, <1>2, <1>3
<1>7. \A h \in history' : h.token <= issued'
  BY <1>0, <1>3, <1>4, <1>5
<1>8. ASSUME NEW i \in Claimed(claim'), NEW j \in Claimed(claim'), i # j
      PROVE  claim'[i].token # claim'[j].token
  BY <1>0, <1>2, <1>8
<1>9. TokensSpentOnce'
  <2>1. ASSUME NEW h \in history', NEW g \in history', h.token = g.token
        PROVE  h = g
    BY <1>4, <1>5, <2>1 DEF TokensSpentOnce
  <2>2. ASSUME NEW i \in Claimed(claim'), NEW h \in history'
        PROVE  h.token # claim'[i].token
    <3>1. CASE i \in Claimed(claim) /\ i \notin gone /\ claim'[i].token = claim[i].token
      BY <1>4, <1>5, <3>1 DEF TokensSpentOnce
    <3>2. CASE claim'[i].token = issued + 1
      BY <1>0, <1>4, <1>5, <3>2
    <3> QED
      BY <1>2, <3>1, <3>2
  <2> QED
    BY <2>1, <2>2 DEF TokensSpentOnce
<1> QED
  BY <1>6, <1>7, <1>8, <1>9

-----------------------------------------------------------------------------
(* Statuses *)

\* What an operation may do to an item file.
LEMMA StatusStep ==
    ASSUME TypeOK, Next, NEW i \in Items
    PROVE  \/ status'[i] = status[i] /\ completion'[i] = completion[i]
           \/ /\ status'[i] \in {"DONE", "BLOCKED"} /\ Present(i)
              /\ claim[i] # NoClaim /\ claim'[i] = NoClaim
           \/ status[i] = "ABSENT" /\ status'[i] \in EnqueuedAs /\ UNCHANGED claim
           \/ status[i] \in {"TODO", "BLOCKED"} /\ status'[i] \in {"TODO", "CANCELLED"}
           \/ Present(i) /\ status'[i] = "REMOVED"
<1>1. CASE Tick \/ ClaimOperation \/ RecoverStale \/ RecoverGenerationOperation
  BY <1>1 DEF Tick, ClaimOperation, Claim, ClaimNext, RecoverStale,
              RecoverGenerationOperation, RecoverGeneration
<1>2. CASE OwnerOperation
  <2>1. PICK j \in Items, t \in 1 .. issued :
               \/ OwnedCallTooLate(j, t)
               \/ Heartbeat(j, t)
               \/ Release(j, t)
               \/ Complete(j, t)
               \/ Block(j, t)
    BY <1>2 DEF OwnerOperation
  <2>2. CASE UNCHANGED <<status, completion>>
    BY <2>2
  <2>3. CASE Complete(j, t) \/ Block(j, t)
    BY <2>3 DEF Complete, Block, WriteCompleted, WriteBlocked, Owns, HoldsToken,
                ArchiveClaim, TypeOK
  <2> QED
    BY <2>1, <2>2, <2>3 DEF OwnedCallTooLate, Heartbeat, Release
<1>3. CASE ItemOperation
  <2>1. PICK j \in Items : \/ \E s \in EnqueuedAs : Enqueue(j, s)
                           \/ Unblock(j)
                           \/ Cancel(j)
                           \/ Remove(j)
    BY <1>3 DEF ItemOperation
  <2> QED
    BY <2>1 DEF Enqueue, MayEnqueue, Unblock, Cancel, Remove, Present, TypeOK
<1> QED
  BY <1>1, <1>2, <1>3 DEF Next

\* Items that are finished, or not there yet, have no owner.
Closed == \A i \in Items : status[i] \in {"DONE", "BLOCKED", "ABSENT"} => claim[i] = NoClaim

LEMMA ClosedStep ==
    ASSUME TypeOK, TypeOK', Closed, Next
    PROVE  Closed'
<1> SUFFICES ASSUME NEW i \in Items, status'[i] \in {"DONE", "BLOCKED", "ABSENT"},
                    claim'[i] # NoClaim
             PROVE  FALSE
  BY DEF Closed
<1>1. i \in Claimed(claim)
  BY NextEffect, ClaimOrigin DEF Claimed
<1>2. status[i] \notin {"DONE", "BLOCKED", "ABSENT"}
  BY <1>1 DEF Closed, Claimed
<1> QED
  BY <1>1, <1>2, StatusStep DEF Claimed

\* What is done stays done, by the same agent, until its file is deleted.
LEMMA DoneStep ==
    ASSUME TypeOK, Closed, Next, NEW i \in Items
    PROVE  /\ status[i] = "DONE" =>
                \/ status'[i] = "REMOVED"
                \/ status'[i] = "DONE" /\ completion'[i] = completion[i]
           /\ status[i] = "REMOVED" => status'[i] = "REMOVED"
  BY StatusStep DEF Closed, Present, Statuses

-----------------------------------------------------------------------------
(* The invariant *)

CleanInv ==
    /\ TypeOK
    /\ TokensSound
    /\ Closed
    /\ claimDirs = Claimed(claim)

LEMMA CleanNext ==
    ASSUME CleanInv, [Next]_vars
    PROVE  CleanInv'
<1> USE DEF CleanInv
<1>1. CASE Next
  <2>1. TypeOK'
    BY <1>1, NextType
  <2>2. HasEffect
    BY <1>1, NextEffect
  <2>3. claimDirs' = Claimed(claim')
    <3>1. PICK gone \in SUBSET Items, fresh \in SUBSET Items, event \in [Items -> Events] :
                 Effect(gone, fresh, event)
      BY <2>2 DEF HasEffect
    <3> QED
      BY <3>1 DEF Effect, Claimed
  <2> QED
    BY <1>1, <2>1, <2>2, <2>3, TokensStep, ClosedStep
<1>2. CASE UNCHANGED vars
  BY <1>2 DEF vars, TypeOK, TokensSound, TokensSpentOnce, Closed, Claimed
<1> QED
  BY <1>1, <1>2

\* While no process dies, tokens are spent once, finished items have no owner,
\* and the claim directories are those of the claims.
THEOREM CleanInvariant == Spec => []CleanInv
<1>1. Init => CleanInv
  <2>1. Init => TypeOK
    BY DEF Init, TypeOK, FileStates
  <2> QED
    BY <2>1 DEF Init, CleanInv, TokensSound, TokensSpentOnce, Closed, Claimed
<1>2. CleanInv /\ [Next]_vars => CleanInv'
  BY CleanNext
<1> QED
  BY <1>1, <1>2, PTL DEF Spec

\* A finished or blocked item has no owner.
THEOREM NoOwnerWhenFinished == Spec => []FinishedUnowned
<1>1. CleanInv => FinishedUnowned
  BY DEF CleanInv, Closed, FinishedUnowned
<1> QED
  BY <1>1, CleanInvariant, PTL

\* A token is spent once: no claim is archived twice, none is archived and in
\* force.
THEOREM TokensOnce == Spec => []TokensSpentOnce
<1>1. CleanInv => TokensSpentOnce
  BY DEF CleanInv, TokensSound
<1> QED
  BY <1>1, CleanInvariant, PTL

\* What is left of the claims after a recovery has a directory, nothing else has.
LEMMA RecoveredDirsMatch ==
    ASSUME CleanInv
    PROVE  RecoveredDirs = Claimed(Recovered)
  BY DEF CleanInv, RecoveredDirs, Claimed, Recovered, Recoverable

\* claim_next's filter and the tests of _claim_locked agree, so the one item
\* that claim_next tries is granted.
THEOREM FilterAgrees == Spec => []ClaimNextAgrees
<1>1. ASSUME CleanInv
      PROVE  ClaimNextAgrees
  <2> SUFFICES ASSUME NEW a \in Agents, NEW i \in Picks(a, Recovered),
                      AgentFree(a, FALSE, Recovered)
               PROVE  Grantable(a, i, FALSE, Recovered, RecoveredDirs)
    BY DEF ClaimNextAgrees
  <2>1. i \in Eligible(a, Recovered)
    BY DEF Picks
  <2>2. i \notin RecoveredDirs
    BY <1>1, <2>1, RecoveredDirsMatch DEF Eligible, Claimed
  <2> QED
    BY <2>1, <2>2 DEF Eligible, Grantable
<1> QED
  BY <1>1, CleanInvariant, PTL

\* While no process dies, what list shows as READY can be claimed by a free and
\* capable agent when no scope conflicts.
THEOREM ReadyIsGranted == Spec => []ReadyIsClaimable
<1>1. ASSUME CleanInv
      PROVE  ReadyIsClaimable
  <2> SUFFICES ASSUME NEW i \in Items, NEW a \in Agents, Ready(i),
                      AgentFree(a, FALSE, Recovered),
                      RequiredCapabilities[i] \subseteq Capabilities[a],
                      ScopesFree(i, Recovered)
               PROVE  Grantable(a, i, FALSE, Recovered, RecoveredDirs)
    BY DEF ReadyIsClaimable
  <2>1. Recovered[i] = NoClaim
    BY DEF Ready, Recovered
  <2>2. i \notin RecoveredDirs
    BY <1>1, <2>1, RecoveredDirsMatch DEF Claimed
  <2> QED
    BY <2>1, <2>2 DEF Ready, Grantable
<1> QED
  BY <1>1, CleanInvariant, PTL

\* A completed item stays completed, by the same agent, until its file is
\* deleted.
THEOREM DoneForever == Spec => DoneIsForever
<1> DEFINE Kept ==
      \A i \in Items : status[i] = "DONE" =>
          \/ status'[i] = "REMOVED"
          \/ status'[i] = "DONE" /\ completion'[i] = completion[i]
<1>1. CleanInv /\ [Next]_vars => [Kept]_vars
  BY DoneStep DEF CleanInv
<1> QED
  BY <1>1, CleanInvariant, PTL DEF Spec, DoneIsForever

\* Once a cancelled item is unowned, nobody gets it, and nothing writes it until
\* its file is deleted.
THEOREM CancelledLeft == Spec => CancelledNotTakenUp
<1> DEFINE Left ==
      \A i \in Items : status[i] = "CANCELLED" /\ claim[i] = NoClaim =>
          \/ status'[i] = "REMOVED"
          \/ status'[i] = "CANCELLED" /\ claim'[i] = NoClaim
<1>1. ASSUME CleanInv, Next
      PROVE  Left
  <2> SUFFICES ASSUME NEW i \in Items, status[i] = "CANCELLED", claim[i] = NoClaim
               PROVE  \/ status'[i] = "REMOVED"
                      \/ status'[i] = "CANCELLED" /\ claim'[i] = NoClaim
    OBVIOUS
  <2>1. claim'[i] = NoClaim
    BY <1>1, NextEffect, ClaimOrigin DEF CleanInv, Claimed
  <2>2. status'[i] \in {"CANCELLED", "REMOVED"}
    BY <1>1, StatusStep DEF CleanInv
  <2> QED
    BY <2>1, <2>2
<1>2. CleanInv /\ [Next]_vars => [Left]_vars
  BY <1>1
<1> QED
  BY <1>2, CleanInvariant, PTL DEF Spec, CancelledNotTakenUp

\* While its lease runs and its item is TODO, nobody but the owner, or its own
\* session's recovery, ends a claim.
THEOREM LeaseKept == Spec => LeaseHonoured
<1> DEFINE Honoured ==
      \A i \in Claimed(claim) :
          status[i] = "TODO" /\ claim[i].left > 0
          /\ (claim'[i] = NoClaim \/ claim'[i].token # claim[i].token) =>
            /\ claim'[i] = NoClaim
            /\ \E h \in history' :
                 /\ h.token = claim[i].token
                 /\ h.event \in {"released", "completed", "blocked",
                                "session-generation-recovered", "legacy-claim-recovered"}
<1>1. ASSUME CleanInv, Next
      PROVE  Honoured
  <2> SUFFICES ASSUME NEW i \in Claimed(claim), status[i] = "TODO", claim[i].left > 0,
                      claim'[i] = NoClaim \/ claim'[i].token # claim[i].token
               PROVE  /\ claim'[i] = NoClaim
                      /\ \E h \in history' :
                           h.token = claim[i].token /\ h.event \in OwnEvents
    BY DEF OwnEvents
  <2>1. PICK gone \in SUBSET Items, fresh \in SUBSET Items, event \in [Items -> Events] :
               Effect(gone, fresh, event) /\ Justified(gone, fresh, event)
    BY <1>1, NextEffect DEF CleanInv, HasEffect
  <2>2. i \in gone
    BY <2>1 DEF Effect, Claimed, SameOwner
  <2>3. event[i] \in OwnEvents /\ i \notin fresh
    BY <2>1, <2>2 DEF Justified, IsStale
  <2>4. Archive(i, event[i]) \in history' /\ claim'[i] = NoClaim
    BY <2>1, <2>2, <2>3 DEF Effect
  <2> QED
    BY <2>3, <2>4 DEF Archive
<1>2. CleanInv /\ [Next]_vars => [Honoured]_vars
  BY <1>1
<1> QED
  BY <1>2, CleanInvariant, PTL DEF Spec, LeaseHonoured

\* Every completion is in history, under the agent that the item names.
Traced(i) == \E h \in history : h.item = i /\ h.agent = completion[i]

LEMMA TracedStep ==
    ASSUME TypeOK, \A i \in Items : status[i] = "DONE" => Traced(i), Next
    PROVE  \A i \in Items : status'[i] = "DONE" => Traced(i)'
<1>1. \A h \in history : h \in history'
  BY NextEffect DEF HasEffect, Effect
<1>2. ASSUME NEW i \in Items, status'[i] = "DONE", completion'[i] = completion[i],
             status[i] = "DONE"
      PROVE  Traced(i)'
  BY <1>1, <1>2 DEF Traced
<1>3. ASSUME NEW i \in Items, NEW t, Complete(i, t)
      PROVE  \A j \in Items : status'[j] = "DONE" => Traced(j)'
  <2>1. Archive(i, "completed") \in history'
    BY <1>3 DEF Complete, ArchiveClaim
  <2>2. completion'[i] = claim[i].agent
    BY <1>3 DEF Complete, WriteCompleted, TypeOK
  <2>3. Traced(i)'
    BY <2>1, <2>2 DEF Traced, Archive
  <2>4. \A j \in Items : j # i => status'[j] = status[j] /\ completion'[j] = completion[j]
    BY <1>3 DEF Complete, WriteCompleted, TypeOK
  <2> QED
    BY <1>2, <2>3, <2>4
<1>4. ASSUME ~ \E i \in Items, t \in 1 .. issued : Complete(i, t)
      PROVE  \A i \in Items : status'[i] = "DONE" =>
               status[i] = "DONE" /\ completion'[i] = completion[i]
  <2>1. CASE Tick \/ ClaimOperation \/ RecoverStale \/ RecoverGenerationOperation
    BY <2>1 DEF Tick, ClaimOperation, Claim, ClaimNext, RecoverStale,
                RecoverGenerationOperation, RecoverGeneration
  <2>2. CASE OwnerOperation
    BY <1>4, <2>2 DEF OwnerOperation, OwnedCallTooLate, Heartbeat, Release, Block,
                      WriteBlocked, TypeOK
  <2>3. CASE ItemOperation
    BY <2>3, EnqueuedAssumption DEF ItemOperation, Enqueue, Unblock, Cancel, Remove, TypeOK
  <2> QED
    BY <2>1, <2>2, <2>3 DEF Next
<1> QED
  BY <1>2, <1>3, <1>4

\* Every completion can be traced to a claim of the agent that the item names.
THEOREM CompletionTraced == Spec => []CompletionAccounted
<1> DEFINE Inv == \A i \in Items : status[i] = "DONE" => Traced(i)
<1>1. Init => Inv
  BY DEF Init
<1>2. TypeOK /\ Inv /\ [Next]_vars => Inv'
  <2>1. Inv /\ UNCHANGED vars => Inv'
    BY DEF Traced, vars
  <2> QED
    BY <2>1, TracedStep
<1>3. Inv => CompletionAccounted
  BY DEF Traced, CompletionAccounted
<1> QED
  BY <1>1, <1>2, <1>3, TypeCorrect, PTL DEF Spec

-----------------------------------------------------------------------------
(* The promise *)

\* Finishing an item is the only step that changes who finished what; deleting
\* one is the only step that discards.
LEMMA OtherSteps ==
    ASSUME CleanInv, Next,
           ~ \E i \in Items, t \in 1 .. issued : Complete(i, t),
           ~ \E i \in Items : Remove(i), NEW i \in Items
    PROVE  /\ status'[i] = "DONE" <=> status[i] = "DONE"
           /\ status[i] = "DONE" => completion'[i] = completion[i]
           /\ status'[i] = "REMOVED" <=> status[i] = "REMOVED"
<1> USE DEF CleanInv
<1>1. CASE Tick \/ ClaimOperation \/ RecoverStale \/ RecoverGenerationOperation
  BY <1>1 DEF Tick, ClaimOperation, Claim, ClaimNext, RecoverStale,
              RecoverGenerationOperation, RecoverGeneration
<1>2. CASE OwnerOperation
  <2>1. PICK j \in Items, t \in 1 .. issued :
               \/ OwnedCallTooLate(j, t) \/ Heartbeat(j, t) \/ Release(j, t)
               \/ Block(j, t)
    BY <1>2 DEF OwnerOperation
  <2>2. CASE Block(j, t)
    BY <2>2 DEF Block, WriteBlocked, Owns, HoldsToken, Closed, Present, Statuses, TypeOK
  <2> QED
    BY <2>1, <2>2 DEF OwnedCallTooLate, Heartbeat, Release
<1>3. CASE ItemOperation
  BY <1>3, EnqueuedAssumption
     DEF ItemOperation, Enqueue, MayEnqueue, Unblock, Cancel, TypeOK
<1> QED
  BY <1>1, <1>2, <1>3 DEF Next

\* Archiving ends exactly the tokens of the claims that are gone.
LEMMA TokensEnd ==
    ASSUME TypeOK, NEW gone \in SUBSET Items, NEW fresh, NEW event,
           Effect(gone, fresh, event)
    PROVE  Promise!Ended(gone) /\ gone \in SUBSET Promise!Owned
<1> USE NullAssumption
<1>1. \A i \in gone : i \in Items /\ claim[i] # NoClaim
  BY DEF Effect, Claimed
<1>2. \A i \in gone : Archive(i, event[i]).token = TokenOf[i]
  BY <1>1 DEF Archive, TokenOf
<1>3. \A i \in gone : OwnerOf[i] # Nobody
  BY <1>1 DEF OwnerOf, TypeOK, Claims
<1>4. \A h : h \in history' <=> \/ h \in history
                                \/ \E i \in gone : h = Archive(i, event[i])
  BY DEF Effect
<1>5. EndedTokens' = EndedTokens \cup {TokenOf[i] : i \in gone}
  BY <1>2, <1>4 DEF EndedTokens
<1> QED
  BY <1>1, <1>3, <1>5 DEF Promise!Ended, Promise!Owned

LEMMA CompletePromised ==
    ASSUME CleanInv, NEW i \in Items, NEW t, Complete(i, t)
    PROVE  Promise!Serve
<1> USE NullAssumption DEF CleanInv
<1>1. /\ claim[i] # NoClaim /\ Present(i) /\ issued' = issued
      /\ claim' = [claim EXCEPT ![i] = NoClaim]
      /\ history' = history \cup {Archive(i, "completed")}
      /\ status' = [status EXCEPT ![i] = "DONE"]
      /\ completion' = [completion EXCEPT ![i] = claim[i].agent]
  BY DEF Complete, Owns, HoldsToken, WriteCompleted, ArchiveClaim
<1>2. status[i] # "DONE" /\ status[i] # "REMOVED"
  BY <1>1 DEF Closed, Present, Statuses
<1>3. OwnerOf[i] = claim[i].agent /\ TokenOf[i] = claim[i].token /\ OwnerOf[i] # Nobody
  BY <1>1 DEF OwnerOf, TokenOf, TypeOK, Claims
<1>4. EndedTokens' = EndedTokens \cup {TokenOf[j] : j \in {i}}
  <2>1. Archive(i, "completed").token = TokenOf[i]
    BY <1>3 DEF Archive
  <2> QED
    BY <1>1, <2>1 DEF EndedTokens
<1>5. OwnerOf' = [OwnerOf EXCEPT ![i] = Nobody] /\ TokenOf' = [TokenOf EXCEPT ![i] = 0]
  BY <1>1 DEF OwnerOf, TokenOf, TypeOK
<1>6. FinishedBy' = [FinishedBy EXCEPT ![i] = OwnerOf[i]]
  BY <1>1, <1>3 DEF FinishedBy, TypeOK
<1>7. FinishedBy[i] = Nobody /\ i \notin Discarded /\ Discarded' = Discarded
  BY <1>1, <1>2 DEF FinishedBy, Discarded, TypeOK
<1>8. Promise!Finish(i)
  BY <1>1, <1>4, <1>5, <1>6, <1>7 DEF Promise!Finish, Promise!Ended
<1> QED
  BY <1>3, <1>8 DEF Promise!Serve, Promise!Owned

LEMMA RemovePromised ==
    ASSUME CleanInv, NEW i \in Items, Remove(i)
    PROVE  Promise!Serve
<1>1. UNCHANGED <<OwnerOf, TokenOf, EndedTokens, issued>>
  BY DEF Remove, OwnerOf, TokenOf, EndedTokens
<1>2. Discarded' = Discarded \cup {i} /\ FinishedBy' = [FinishedBy EXCEPT ![i] = Nobody]
  BY DEF Remove, CleanInv, TypeOK, Discarded, FinishedBy
<1>3. Promise!Discard(i)
  BY <1>1, <1>2 DEF Promise!Discard
<1> QED
  BY <1>3 DEF Promise!Serve

LEMMA OtherPromised ==
    ASSUME CleanInv, TypeOK', Next,
           ~ \E i \in Items, t \in 1 .. issued : Complete(i, t),
           ~ \E i \in Items : Remove(i)
    PROVE  Promise!Serve
<1> USE DEF CleanInv, SameOwner
<1>1. PICK gone \in SUBSET Items, fresh \in SUBSET Items, event \in [Items -> Events] :
             Effect(gone, fresh, event)
  BY NextEffect DEF HasEffect
<1>2. Promise!Ended(gone) /\ gone \in SUBSET Promise!Owned
  BY <1>1, TokensEnd
<1>3. UNCHANGED <<FinishedBy, Discarded>>
  BY OtherSteps DEF FinishedBy, Discarded
<1>4. CASE fresh = {}
  <2>1. /\ \A i \in gone : claim'[i] = NoClaim
        /\ \A i \in Items \ gone : /\ claim'[i] = NoClaim <=> claim[i] = NoClaim
                                   /\ claim[i] # NoClaim => SameOwner(claim'[i], claim[i])
        /\ issued' = issued
    BY <1>1, <1>4 DEF Effect
  <2>2. OwnerOf' = [i \in Items |-> IF i \in gone THEN Nobody ELSE OwnerOf[i]]
    BY <2>1 DEF OwnerOf
  <2>3. TokenOf' = [i \in Items |-> IF i \in gone THEN 0 ELSE TokenOf[i]]
    BY <2>1 DEF TokenOf
  <2>4. Promise!GiveUp(gone)
    BY <1>2, <1>3, <2>1, <2>2, <2>3 DEF Promise!GiveUp
  <2> QED
    BY <1>2, <2>4 DEF Promise!Serve
<1>5. ASSUME NEW i \in Items, fresh = {i}
      PROVE  Promise!Serve
  <2> DEFINE a == claim'[i].agent
  <2>1. /\ \A j \in gone : j = i \/ claim'[j] = NoClaim
        /\ \A j \in Items \ gone : j # i =>
             /\ claim'[j] = NoClaim <=> claim[j] = NoClaim
             /\ claim[j] # NoClaim => SameOwner(claim'[j], claim[j])
        /\ issued' = issued + 1 /\ status[i] = "TODO"
        /\ i \in gone \/ claim[i] = NoClaim
        /\ claim'[i] # NoClaim /\ claim'[i].token = issued + 1
    BY <1>1, <1>5 DEF Effect
  <2>2. a \in Agents
    BY <2>1 DEF TypeOK, Claims
  <2>3. OwnerOf' = [j \in Items |-> IF j = i THEN a
                                    ELSE IF j \in gone THEN Nobody ELSE OwnerOf[j]]
    BY <2>1 DEF OwnerOf
  <2>4. TokenOf' = [j \in Items |-> IF j = i THEN issued + 1
                                    ELSE IF j \in gone THEN 0 ELSE TokenOf[j]]
    BY <2>1 DEF TokenOf
  <2>5. FinishedBy[i] = Nobody /\ i \notin Discarded /\ i \notin Promise!Owned \ gone
    BY <2>1 DEF FinishedBy, Discarded, OwnerOf, Promise!Owned
  <2> HIDE DEF a
  <2>6. Promise!Get(gone, i, a)
    BY <1>2, <1>3, <2>1, <2>3, <2>4, <2>5 DEF Promise!Get
  <2> QED
    BY <1>2, <2>2, <2>6 DEF Promise!Serve
<1> QED
  BY <1>1, <1>4, <1>5 DEF Effect

\* While no process dies, the queue implements Ownership: whatever operation
\* runs, to the agents it is one step of what was promised, or none.
THEOREM OwnershipKept == Spec => OwnershipPromised
<1>1. Init => Promise!Begin
  BY DEF Init, Promise!Begin, OwnerOf, TokenOf, EndedTokens, FinishedBy, Discarded
<1>2. CleanInv /\ CleanInv' /\ [Next]_vars => [Promise!Serve]_Promise!promises
  <2>1. UNCHANGED vars => UNCHANGED Promise!promises
    BY DEF vars, Promise!promises, OwnerOf, TokenOf, EndedTokens, FinishedBy, Discarded
  <2>2. CleanInv /\ CleanInv' /\ Next => Promise!Serve
    BY CompletePromised, RemovePromised, OtherPromised DEF CleanInv
  <2> QED
    BY <2>1, <2>2
<1> QED
  BY <1>1, <1>2, CleanInvariant, PTL DEF Spec, OwnershipPromised, Promise!PromiseSpec
=============================================================================
