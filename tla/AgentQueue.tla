------------------------------ MODULE AgentQueue ------------------------------
(***************************************************************************)
(* The queue of scripts/agent_queue_store.py and agent_queue_claims.py:    *)
(* durable queue items, and the runtime claims by which one worker at a    *)
(* time owns an item.                                                      *)
(*                                                                         *)
(* Every operation that changes anything runs inside "with self._lock()",  *)
(* so here one operation is one step; RepositoryLock is the model of that  *)
(* lock and says when the assumption is good.  A process that dies inside  *)
(* an operation leaves a prefix of its file writes behind: those prefixes  *)
(* are the Crash steps, which CrashSpec adds to Spec.                      *)
(***************************************************************************)
EXTENDS Naturals, FiniteSets

CONSTANTS
    Items,                 \* queue ids, by their number (Q0001 is 1)
    Priority,              \* Items -> Nat, the "priority" field
    Dependencies,          \* Items -> SUBSET Items
    ExclusiveScopes,       \* Items -> sets of scope keys
    RequiredCapabilities,  \* Items -> sets of capabilities
    Agents,                \* agent ids
    Capabilities,          \* Agents -> the capabilities an agent offers
    Controllers,           \* the agents that may pass --allow-multiple
    Leases,                \* the lease lengths asked for, in clock ticks
    Sessions,              \* owner session hashes
    Generations,           \* owner generations of a session
    Legacy,                \* the owner of a claim without owner metadata
    OwnersOf,              \* Agents -> the owner metadata an agent claims with
    EnqueuedAs,            \* the statuses new items are enqueued with
    MaxClaims,             \* bound: claims issued in a behaviour
    MaxCrashes,            \* bound: processes that die in a behaviour
    NoClaim,               \* there is no claim.json
    Nobody                 \* an item without a completion object

Owners == [session : Sessions, generation : Generations]

\* The contents of a claim.json.  "left" is the time to expiry in ticks.
Claims == [agent : Agents, token : Nat, lease : Leases, left : Nat,
           owner : Owners \cup {Legacy}]

ASSUME ItemsAssumption ==
    /\ Items \subseteq Nat
    /\ Priority \in [Items -> Nat]
    /\ Dependencies \in [Items -> SUBSET Items]
    /\ \A i \in Items : i \notin Dependencies[i]
ASSUME OwnersAssumption == OwnersOf \in [Agents -> SUBSET (Owners \cup {Legacy})]
ASSUME LeasesAssumption == Leases \subseteq Nat \ {0}
ASSUME NullAssumption ==
    /\ NoClaim \notin Claims
    /\ Nobody \notin Agents
ASSUME EnqueuedAssumption == EnqueuedAs \subseteq {"TODO", "BLOCKED", "CANCELLED"}

VARIABLES
    status,      \* the item files: a status, or one of the file states below
    completion,  \* completion.agentId of each item, or Nobody
    claim,       \* the claim.json of each item, or NoClaim
    claimDirs,   \* the items whose claim directory exists
    history,     \* the archived claims
    issued,      \* how many tokens were handed out (a token is its number)
    crashes      \* how many processes died inside an operation

vars == <<status, completion, claim, claimDirs, history, issued, crashes>>

Statuses == {"TODO", "BLOCKED", "DONE", "CANCELLED"}

\* No file yet; a file cut off by a crash; a file deleted in the repository.
FileStates == {"ABSENT", "TORN", "REMOVED"}

Events == {"released", "completed", "blocked", "orphan-recovered",
           "terminal-recovered", "stale-recovered",
           "session-generation-recovered", "legacy-claim-recovered"}

\* A history file.  The code strips the token from it; the model keeps it to
\* tell which claim was archived.
Archives == [item : Items, agent : Agents, token : Nat, event : Events]

TypeOK ==
    /\ status \in [Items -> Statuses \cup FileStates]
    /\ completion \in [Items -> Agents \cup {Nobody}]
    /\ claim \in [Items -> Claims \cup {NoClaim}]
    /\ claimDirs \subseteq Items
    /\ history \subseteq Archives
    /\ issued \in Nat
    /\ crashes \in Nat

-----------------------------------------------------------------------------
(* Reading the files *)

Present(i) == status[i] \in Statuses

\* load_items succeeds: no item file is cut off.
Readable == \A i \in Items : status[i] # "TORN"

\* Every dependency has a file and the dependencies have no cycle: each
\* non-empty set of items has a member that depends on none of the set.
ValidGraph(known) ==
    /\ \A i \in known : Dependencies[i] \subseteq known
    /\ \A S \in SUBSET known :
         S # {} => \E i \in S : Dependencies[i] \cap S = {}

Known == {i \in Items : Present(i)}

\* A slip: a lease that ends a tick early.
StaleEarly(c) == c.left <= 1

IsStale(c) == c.left = 0

Claimed(claims) == {i \in Items : claims[i] # NoClaim}

ActiveClaims(claims) == {i \in Claimed(claims) : ~ IsStale(claims[i])}

\* The claims once the clock has moved on by a tick.
Aged(claims) ==
    [i \in Items |-> IF i \in ActiveClaims(claims)
                     THEN [claims[i] EXCEPT !.left = @ - 1]
                     ELSE claims[i]]

-----------------------------------------------------------------------------
(* Archiving and recovering claims *)

Archive(i, event) ==
    [item |-> i, agent |-> claim[i].agent, token |-> claim[i].token, event |-> event]

\* A slip: claim.json is removed and its directory forgotten.
ArchiveLeavingDirectory(i, event) ==
    /\ history' = history \cup {Archive(i, event)}
    /\ claim' = [claim EXCEPT ![i] = NoClaim]
    /\ UNCHANGED claimDirs

\* _archive_claim: write the history file, then remove the claim directory.
ArchiveClaim(i, event) ==
    /\ history' = history \cup {Archive(i, event)}
    /\ claim' = [claim EXCEPT ![i] = NoClaim]
    /\ claimDirs' = claimDirs \ {i}

\* Slips: one of the two reasons to recover is forgotten.
RecoverableByStatus == {i \in Claimed(claim) : status[i] # "TODO"}

RecoverableByLease == {i \in Claimed(claim) : IsStale(claim[i])}

Recoverable ==
    {i \in Claimed(claim) : status[i] # "TODO" \/ IsStale(claim[i])}

RecoveryEvent(i) ==
    CASE ~ Present(i) -> "orphan-recovered"
      [] status[i] = "TODO" -> "stale-recovered"
      [] OTHER -> "terminal-recovered"

\* _recover_locked archives every recoverable claim; claims is what is left.
Recovered == [i \in Items |-> IF i \in Recoverable THEN NoClaim ELSE claim[i]]

RecoveredDirs == claimDirs \ Recoverable

\* A slip: recovered claims are removed without a history file.
RecoveredSilently == history

RecoveredHistory == history \cup {Archive(i, RecoveryEvent(i)) : i \in Recoverable}

-----------------------------------------------------------------------------
(* Granting a claim *)

\* A slip: the flag is read the wrong way round.
AgentFreeUnlessMultiple(a, multiple, claims) ==
    multiple => \A j \in ActiveClaims(claims) : claims[j].agent # a

AgentFree(a, multiple, claims) ==
    multiple \/ \A j \in ActiveClaims(claims) : claims[j].agent # a

DependenciesDone(i) == \A d \in Dependencies[i] : status[d] = "DONE"

\* The items "list" shows as READY.
Ready(i) == status[i] = "TODO" /\ claim[i] = NoClaim /\ DependenciesDone(i)

\* A slip: a subset test instead of an intersection.
ScopesNotTaken(i, claims) ==
    \A j \in ActiveClaims(claims) :
        Present(j) => ~ (ExclusiveScopes[i] \subseteq ExclusiveScopes[j] /\ ExclusiveScopes[i] # {})

ScopesFree(i, claims) ==
    \A j \in ActiveClaims(claims) :
        Present(j) => ExclusiveScopes[i] \cap ExclusiveScopes[j] = {}

\* The tests of _claim_locked, the exclusive mkdir of the claim directory last.
Grantable(a, i, multiple, claims, dirs) ==
    /\ AgentFree(a, multiple, claims)
    /\ claims[i] = NoClaim
    /\ status[i] = "TODO"
    /\ DependenciesDone(i)
    /\ RequiredCapabilities[i] \subseteq Capabilities[a]
    /\ ScopesFree(i, claims)
    /\ i \notin dirs

\* A slip: claim_next leaves the scopes to _claim_locked.
EligibleButForScopes(a, claims) ==
    {i \in Items : /\ status[i] = "TODO"
                   /\ claims[i] = NoClaim
                   /\ DependenciesDone(i)
                   /\ RequiredCapabilities[i] \subseteq Capabilities[a]}

\* The filter of claim_next's own loop, before it calls _claim_locked.
Eligible(a, claims) ==
    {i \in Items : /\ status[i] = "TODO"
                   /\ claims[i] = NoClaim
                   /\ DependenciesDone(i)
                   /\ RequiredCapabilities[i] \subseteq Capabilities[a]
                   /\ ScopesFree(i, claims)}

Before(i, j) == Priority[i] < Priority[j] \/ (Priority[i] = Priority[j] /\ i <= j)

\* The item that claim_next tries: the first eligible one, if there is any.
Picks(a, claims) ==
    {i \in Eligible(a, claims) : \A j \in Eligible(a, claims) : Before(i, j)}

NewClaim(a, lease, owner) ==
    [agent |-> a, token |-> issued + 1, lease |-> lease, left |-> lease, owner |-> owner]

Grant(a, i, lease, owner, claims, dirs) ==
    /\ issued < MaxClaims
    /\ issued' = issued + 1
    /\ claim' = [claims EXCEPT ![i] = NewClaim(a, lease, owner)]
    /\ claimDirs' = dirs \cup {i}

Refuse(claims, dirs) ==
    /\ claim' = claims
    /\ claimDirs' = dirs
    /\ UNCHANGED issued

MayAskForMultiple(a, multiple) == multiple => a \in Controllers

\* The clock is read once for the recovery and again for the active claims:
\* it may have moved on in between.
LaterReading == {Recovered, Aged(Recovered)}

-----------------------------------------------------------------------------
(* The operations *)

Init ==
    /\ status = [i \in Items |-> "ABSENT"]
    /\ completion = [i \in Items |-> Nobody]
    /\ claim = [i \in Items |-> NoClaim]
    /\ claimDirs = {}
    /\ history = {}
    /\ issued = 0
    /\ crashes = 0

\* Time passes: every lease is a tick closer to its end.
Tick ==
    /\ claim' = Aged(claim)
    /\ UNCHANGED <<status, completion, claimDirs, history, issued, crashes>>

MayEnqueue(i) == status[i] = "ABSENT" /\ Readable /\ ValidGraph(Known \cup {i})

\* A slip: a derived status is stored.
EnqueueReady(i, s) ==
    /\ MayEnqueue(i)
    /\ status' = [status EXCEPT ![i] = "READY"]
    /\ UNCHANGED <<completion, claim, claimDirs, history, issued, crashes>>

Enqueue(i, s) ==
    /\ MayEnqueue(i)
    /\ status' = [status EXCEPT ![i] = s]
    /\ UNCHANGED <<completion, claim, claimDirs, history, issued, crashes>>

\* claim: recover, then grant or refuse.  A refusal keeps the recovery.
Claim(a, i, lease, owner, multiple) ==
    /\ MayAskForMultiple(a, multiple)
    /\ Readable /\ ValidGraph(Known)
    /\ history' = RecoveredHistory
    /\ UNCHANGED <<status, completion, crashes>>
    /\ \E seen \in LaterReading :
         \/ /\ Grantable(a, i, multiple, seen, RecoveredDirs)
            /\ Grant(a, i, lease, owner, seen, RecoveredDirs)
         \/ /\ ~ Grantable(a, i, multiple, seen, RecoveredDirs)
            /\ Refuse(seen, RecoveredDirs)

\* claim_next: as claim, for the first item its own filter lets through.
ClaimNext(a, lease, owner, multiple) ==
    /\ MayAskForMultiple(a, multiple)
    /\ Readable /\ ValidGraph(Known)
    /\ history' = RecoveredHistory
    /\ UNCHANGED <<status, completion, crashes>>
    /\ \E seen \in LaterReading :
         \/ \E i \in Picks(a, seen) :
              /\ Grantable(a, i, multiple, seen, RecoveredDirs)
              /\ Grant(a, i, lease, owner, seen, RecoveredDirs)
         \/ /\ \A i \in Picks(a, seen) : ~ Grantable(a, i, multiple, seen, RecoveredDirs)
            /\ Refuse(seen, RecoveredDirs)

\* _owned_claim lets token t act on item i.
HoldsToken(i, t) == claim[i] # NoClaim /\ claim[i].token = t

Owns(i, t) == HoldsToken(i, t) /\ ~ IsStale(claim[i])

\* A slip: the claim is archived and stays in force.
ReleaseKeepingClaim(i, t) ==
    /\ Owns(i, t)
    /\ history' = history \cup {Archive(i, "released")}
    /\ UNCHANGED <<status, completion, claim, claimDirs, issued, crashes>>

\* _owned_claim with the right token but too late: heartbeat, release, complete
\* and block archive the claim and fail.
OwnedCallTooLate(i, t) ==
    /\ HoldsToken(i, t) /\ IsStale(claim[i])
    /\ ArchiveClaim(i, "stale-recovered")
    /\ UNCHANGED <<status, completion, issued, crashes>>

Heartbeat(i, t) ==
    /\ Owns(i, t)
    /\ claim' = [claim EXCEPT ![i].left = claim[i].lease]
    /\ UNCHANGED <<status, completion, claimDirs, history, issued, crashes>>

Release(i, t) ==
    /\ Owns(i, t)
    /\ ArchiveClaim(i, "released")
    /\ UNCHANGED <<status, completion, issued, crashes>>

\* The item as complete writes it: whatever its status was.
WriteCompleted(i) ==
    /\ Present(i)
    /\ status' = [status EXCEPT ![i] = "DONE"]
    /\ completion' = [completion EXCEPT ![i] = claim[i].agent]

\* A slip: the item is written and the claim kept.
CompleteKeepingClaim(i, t) ==
    /\ Owns(i, t)
    /\ WriteCompleted(i)
    /\ UNCHANGED <<claim, claimDirs, history, issued, crashes>>

Complete(i, t) ==
    /\ Owns(i, t)
    /\ WriteCompleted(i)
    /\ ArchiveClaim(i, "completed")
    /\ UNCHANGED <<issued, crashes>>

WriteBlocked(i) ==
    /\ Present(i)
    /\ status' = [status EXCEPT ![i] = "BLOCKED"]
    /\ completion' = [completion EXCEPT ![i] = Nobody]

\* A slip: the item is written and the claim kept.
BlockKeepingClaim(i, t) ==
    /\ Owns(i, t)
    /\ WriteBlocked(i)
    /\ UNCHANGED <<claim, claimDirs, history, issued, crashes>>

Block(i, t) ==
    /\ Owns(i, t)
    /\ WriteBlocked(i)
    /\ ArchiveClaim(i, "blocked")
    /\ UNCHANGED <<issued, crashes>>

\* A slip: it reopens a cancelled item too.
UnblockCancelled(i) ==
    /\ status[i] \in {"BLOCKED", "CANCELLED"}
    /\ status' = [status EXCEPT ![i] = "TODO"]
    /\ UNCHANGED <<completion, claim, claimDirs, history, issued, crashes>>

Unblock(i) ==
    /\ status[i] = "BLOCKED"
    /\ status' = [status EXCEPT ![i] = "TODO"]
    /\ UNCHANGED <<completion, claim, claimDirs, history, issued, crashes>>

RecoverStale ==
    /\ Readable
    /\ claim' = Recovered
    /\ claimDirs' = RecoveredDirs
    /\ history' = RecoveredHistory
    /\ UNCHANGED <<status, completion, issued, crashes>>

\* A session that was reloaded gives up the claim of another generation.
GenerationEvent(i) == IF claim[i].owner = Legacy THEN "legacy-claim-recovered"
                                                 ELSE "session-generation-recovered"

NeedsRecovery(i, a, owner) ==
    /\ claim[i] # NoClaim
    /\ claim[i].agent = a
    /\ \/ claim[i].owner = Legacy
       \/ /\ claim[i].owner \in Owners
          /\ claim[i].owner.session = owner.session
          /\ claim[i].owner.generation # owner.generation

RecoverGeneration(i, a, owner) ==
    /\ NeedsRecovery(i, a, owner)
    /\ ArchiveClaim(i, GenerationEvent(i))
    /\ UNCHANGED <<status, completion, issued, crashes>>

(* What people and branches do to the item files, without the lock *)

\* Nothing in scripts/ writes CANCELLED: a person does.
Cancel(i) ==
    /\ status[i] \in {"TODO", "BLOCKED"}
    /\ status' = [status EXCEPT ![i] = "CANCELLED"]
    /\ UNCHANGED <<completion, claim, claimDirs, history, issued, crashes>>

\* An item file is deleted.  Its id is not used again.
Remove(i) ==
    /\ Present(i)
    /\ status' = [status EXCEPT ![i] = "REMOVED"]
    /\ completion' = [completion EXCEPT ![i] = Nobody]
    /\ UNCHANGED <<claim, claimDirs, history, issued, crashes>>

ClaimOperation ==
    \E a \in Agents, lease \in Leases, multiple \in BOOLEAN : \E owner \in OwnersOf[a] :
        \/ ClaimNext(a, lease, owner, multiple)
        \/ \E i \in Known : Claim(a, i, lease, owner, multiple)

OwnerOperation ==
    \E i \in Items, t \in 1 .. issued :
        \/ OwnedCallTooLate(i, t)
        \/ Heartbeat(i, t)
        \/ Release(i, t)
        \/ Complete(i, t)
        \/ Block(i, t)

RecoverGenerationOperation ==
    \E i \in Items, a \in Agents, owner \in Owners : RecoverGeneration(i, a, owner)

ItemOperation ==
    \E i \in Items : \/ \E s \in EnqueuedAs : Enqueue(i, s)
                     \/ Unblock(i)
                     \/ Cancel(i)
                     \/ Remove(i)

Next ==
    \/ Tick
    \/ ClaimOperation
    \/ OwnerOperation
    \/ ItemOperation
    \/ RecoverStale
    \/ RecoverGenerationOperation

Spec == Init /\ [][Next]_vars

-----------------------------------------------------------------------------
(* A process dies inside an operation *)

Dies == crashes < MaxCrashes /\ crashes' = crashes + 1

\* The exclusive write of a new item file is not atomic: the file is cut off.
CrashEnqueue(i) ==
    /\ Dies
    /\ MayEnqueue(i)
    /\ status' = [status EXCEPT ![i] = "TORN"]
    /\ UNCHANGED <<completion, claim, claimDirs, history, issued>>

\* The claim directory is made and claim.json is not there yet.
CrashClaim(a, i, multiple) ==
    /\ Dies
    /\ MayAskForMultiple(a, multiple)
    /\ Readable /\ ValidGraph(Known)
    /\ history' = RecoveredHistory
    /\ \E seen \in LaterReading :
         /\ Grantable(a, i, multiple, seen, RecoveredDirs)
         /\ claim' = seen
         /\ claimDirs' = RecoveredDirs \cup {i}
    /\ UNCHANGED <<status, completion, issued>>

\* A slip: the directory is removed before the history file is written.
DieRemovingFirst(done, i, event) ==
    /\ history' = history \cup {Archive(j, RecoveryEvent(j)) : j \in done}
    /\ claim' = [j \in Items |-> IF j \in done \cup {i} THEN NoClaim ELSE claim[j]]
    /\ claimDirs' = claimDirs \ done
    /\ UNCHANGED issued

\* Death in _archive_claim(i), the claims of done archived before: the history
\* file is written or not, claim.json is removed or not, the directory stays.
DieArchiving(done, i, event) ==
    \E written, emptied \in BOOLEAN :
        /\ emptied => written
        /\ history' = history \cup {Archive(j, RecoveryEvent(j)) : j \in done}
                               \cup {Archive(j, event) : j \in {k \in {i} : written}}
        /\ claim' = [j \in Items |-> IF j \in done \/ (j = i /\ emptied)
                                     THEN NoClaim ELSE claim[j]]
        /\ claimDirs' = claimDirs \ done
        /\ UNCHANGED issued

\* Recovery goes through the claims in the order of their ids.
CrashRecover ==
    /\ Dies
    /\ Readable
    /\ \E i \in Recoverable :
         DieArchiving({j \in Recoverable : j < i}, i, RecoveryEvent(i))
    /\ UNCHANGED <<status, completion>>

\* The item file is written before the claim is archived.
CrashComplete(i, t) ==
    /\ Dies
    /\ Owns(i, t)
    /\ WriteCompleted(i)
    /\ DieArchiving({}, i, "completed")

CrashBlock(i, t) ==
    /\ Dies
    /\ Owns(i, t)
    /\ WriteBlocked(i)
    /\ DieArchiving({}, i, "blocked")

CrashRelease(i, t) ==
    /\ Dies
    /\ Owns(i, t)
    /\ DieArchiving({}, i, "released")
    /\ UNCHANGED <<status, completion>>

\* A call that comes too late dies while it archives the claim.
CrashTooLate(i, t) ==
    /\ Dies
    /\ HoldsToken(i, t) /\ IsStale(claim[i])
    /\ DieArchiving({}, i, "stale-recovered")
    /\ UNCHANGED <<status, completion>>

CrashRecoverGeneration(i) ==
    /\ Dies
    /\ \E a \in Agents, owner \in Owners : NeedsRecovery(i, a, owner)
    /\ DieArchiving({}, i, GenerationEvent(i))
    /\ UNCHANGED <<status, completion>>

\* A person deletes the cut-off file; the item can be enqueued again.
DiscardTorn(i) ==
    /\ status[i] = "TORN"
    /\ status' = [status EXCEPT ![i] = "ABSENT"]
    /\ UNCHANGED <<completion, claim, claimDirs, history, issued, crashes>>

CrashStep ==
    \/ CrashRecover
    \/ \E i \in Items :
         \/ CrashEnqueue(i)
         \/ \E a \in Agents, multiple \in BOOLEAN : CrashClaim(a, i, multiple)
         \/ CrashRecoverGeneration(i)
         \/ \E t \in 1 .. issued : \/ CrashComplete(i, t)
                                   \/ CrashBlock(i, t)
                                   \/ CrashRelease(i, t)
                                   \/ CrashTooLate(i, t)

CrashNext ==
    \/ Next
    \/ CrashStep
    \/ \E i \in Items : DiscardTorn(i)

CrashSpec == Init /\ [][CrashNext]_vars

\* Time passes, and someone keeps running recover-stale: every claim and
\* claim-next begins with the same recovery.
CrashFairSpec == CrashSpec /\ WF_vars(Tick) /\ WF_vars(RecoverStale)

-----------------------------------------------------------------------------
(* Properties *)

\* Two live claims never hold the same exclusive scope: _claim_locked compares
\* a new claim only with the claims that are active when it is made, and
\* leases are extended, items edited and claims recovered afterwards.
ScopesExclusive ==
    \A i, j \in ActiveClaims(claim) :
        i # j => ExclusiveScopes[i] \cap ExclusiveScopes[j] = {}

\* Only an agent that may pass --allow-multiple has two live claims.
OneClaimPerWorker ==
    \A i, j \in ActiveClaims(claim) :
        i # j /\ claim[i].agent = claim[j].agent => claim[i].agent \in Controllers

\* While an item is claimed, what it depends on stays finished: a dependency
\* is tested when the claim is made and must not be taken up again after that.
StartedInOrder ==
    \A i \in Claimed(claim) : \A d \in Dependencies[i] :
        status[d] \in {"DONE", "REMOVED"}

\* A finished or blocked item has no owner: complete and block write the item
\* and archive the claim, and no other operation gives it an owner.
FinishedUnowned ==
    \A i \in Items : status[i] \in {"DONE", "BLOCKED"} => claim[i] = NoClaim

\* A token is spent once: no two history files are about the same claim, and no
\* archived claim is in force.  A late or repeated call finds nothing to own.
TokensSpentOnce ==
    /\ \A h, g \in history : h.token = g.token => h = g
    /\ \A i \in Claimed(claim), h \in history : h.token # claim[i].token

\* Every completion can be traced: the agent an item names as having completed
\* it had a claim of that item, which is in history or still on disk.
CompletionAccounted ==
    \A i \in Items : status[i] = "DONE" =>
        \/ \E h \in history : h.item = i /\ h.agent = completion[i]
        \/ claim[i] # NoClaim /\ claim[i].agent = completion[i]

\* What claim_next's own filter picks, _claim_locked grants: the two sets of
\* tests are written twice in the code and the picked item is the only one tried.
ClaimNextAgrees ==
    \A a \in Agents : \A i \in Picks(a, Recovered) :
        AgentFree(a, FALSE, Recovered) => Grantable(a, i, FALSE, Recovered, RecoveredDirs)

\* An item that list shows as READY can be claimed by an agent that is free and
\* capable while no scope conflicts: "READY    eligible and unclaimed"
\* (docs/architecture/agent-workflow.md).
ReadyIsClaimable ==
    \A i \in Items, a \in Agents :
        /\ Ready(i)
        /\ AgentFree(a, FALSE, Recovered)
        /\ RequiredCapabilities[i] \subseteq Capabilities[a]
        /\ ScopesFree(i, Recovered)
        => Grantable(a, i, FALSE, Recovered, RecoveredDirs)

\* A completed item stays completed, by the same agent, until its file is
\* deleted: no late block, release or second completion changes it.
DoneIsForever ==
    [][\A i \in Items : status[i] = "DONE" =>
          \/ status'[i] = "REMOVED"
          \/ status'[i] = "DONE" /\ completion'[i] = completion[i]]_vars

\* Cancelled work is not taken up: only the worker who had it when it was
\* cancelled can still write the item (complete and block ignore the status);
\* once unowned it stays as it is until its file is deleted.
CancelledNotTakenUp ==
    [][\A i \in Items : status[i] = "CANCELLED" /\ claim[i] = NoClaim =>
          \/ status'[i] = "REMOVED"
          \/ status'[i] = "CANCELLED" /\ claim'[i] = NoClaim]_vars

\* While its lease runs and its item is TODO, a claim is ended only by its
\* owner or by its own session's recovery: no other worker takes the item and
\* no recovery drops the claim early.
LeaseHonoured ==
    [][\A i \in Claimed(claim) :
          status[i] = "TODO" /\ claim[i].left > 0 /\ (claim'[i] = NoClaim \/ claim'[i].token # claim[i].token) =>
            /\ claim'[i] = NoClaim
            /\ \E h \in history' :
                 /\ h.token = claim[i].token
                 /\ h.event \in {"released", "completed", "blocked",
                                "session-generation-recovered", "legacy-claim-recovered"}]_vars

\* Abandoned ownership ends, after crashes too: an item is unclaimed again and
\* again, unless someone keeps sending heartbeats for it or a cut-off item file
\* is left where it stops every recovery.
AbandonedIsFreed ==
    \A i \in Items :
        \/ <>[](~ Readable)
        \/ []<>(claim[i] = NoClaim)
        \/ []<><<\E t \in 1 .. MaxClaims : Heartbeat(i, t)>>_vars

\* The queue as its agents see it: who owns and who finished what.
OwnerOf == [i \in Items |-> IF claim[i] = NoClaim THEN Nobody ELSE claim[i].agent]
TokenOf == [i \in Items |-> IF claim[i] = NoClaim THEN 0 ELSE claim[i].token]
EndedTokens == {h.token : h \in history}
FinishedBy == [i \in Items |-> IF status[i] = "DONE" THEN completion[i] ELSE Nobody]
Discarded == {i \in Items : status[i] = "REMOVED"}

Promise == INSTANCE Ownership WITH
    owner <- OwnerOf, token <- TokenOf, ended <- EndedTokens,
    finished <- FinishedBy, discarded <- Discarded, given <- issued

\* While no process dies, the queue keeps its promise: every operation is, to
\* its agents, one step of Ownership or none.
OwnershipPromised == Promise!PromiseSpec

\* What keeps StartedInOrder true, even when processes die: what a claimed item
\* depends on is finished and unowned, so nobody can take it up again.
SettledDependencies ==
    \A i \in Claimed(claim) : \A d \in Dependencies[i] :
        \/ status[d] = "REMOVED"
        \/ status[d] = "DONE" /\ claim[d] = NoClaim

QueueInv ==
    /\ TypeOK
    /\ ScopesExclusive
    /\ OneClaimPerWorker
    /\ SettledDependencies
=============================================================================
