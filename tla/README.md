# Verification of the agent queue and workflow tools

TLA+ modules, TLC configurations and TLAPS proofs for the tools under
`scripts/` of this repository: a file-backed work queue for coding agents
(`agent_queue*.py`), and around it a workflow layer that routes work, records
evidence and finalizes items (`agent_workflow*.py`). Every definition is
translated from the Python source; `PROJECT.json` maps it to the lines it
stands for.

Check everything with `tlc -config <run>.cfg <module>` for each run listed in
`PROJECT.json`, and `tlapm <module>Proofs.tla`.

## 1. The system

| Component | State it keeps | Operations | What makes it correct |
|---|---|---|---|
| Queue items (`agent_queue_store.py`, `agent_queue_claims.py`) | `.agents/queue/items/QNNNN.json`: status TODO, BLOCKED, DONE or CANCELLED, dependencies, scopes, capabilities, completion | enqueue, complete, block, unblock; people edit the files too | items start in dependency order, completion is final and can be traced to its owner |
| Claims (same files) | `.agent-runtime/claims/QNNNN.claim/claim.json`: agent, token, lease, heartbeat, owner session; `history/` of archived claims | claim, claim-next, heartbeat, release, recover, recover-generation | one owner per item, exclusive scopes, one claim per worker, leases honoured, abandoned ownership ends |
| Repository lock (`agent_queue_common.py`) | directory `claim-global.lock` with `owner.json` | `__enter__`, `__exit__` | excludes; is never left behind; a dead owner's lock is broken; waiting ends |
| File writes (`agent_queue_common.py`) | temporary files | `atomic_write_json`, `exclusive_write_json` | a reader never sees half a file |
| Lock-free readers (`list_rows`, `show`, `validate_all`) | none | read items and claims file by file | what they report was true of some moment |
| Dependency graph (`_validate_graph`) | none | depth-first search | accepts exactly the complete acyclic graphs |
| Finalize (`agent_workflow_finalize.py`) | `.agent-runtime/finalize/*.json`: PREPARED, RECONCILIATION_REQUIRED, SYNCED | finalize, resume, acknowledge | an item is completed once, with fresh evidence, and a crash is resumable |
| Event snapshot and delta (same file) | none (the caller keeps a snapshot) | `event_snapshot`, `event_delta` | a delta applied to the old snapshot gives the new one |
| Evidence (`agent_workflow_evidence.py`) | none (a record) | fingerprint, freshness | changed inputs are STALE |
| Contracts (`agent_workflow_contracts.py`) | none | route, escalate, validate budget, packet, handoff | risk flags only make a route heavier; escalation is bounded |
| Governance validator (`validate_agent_governance.py`) | none | reads documents and settings | rejects drifted policy documents |
| Command lines | none | one call each | - |

Interaction. Agents are separate processes that share nothing but files. Every
queue operation that changes something takes the repository lock; `list`,
`show`, `validate`, the event snapshot and the finalize journal do not.
Finalize calls the queue's heartbeat and complete between two writes of its own
journal, after it has compared the evidence with the repository. The contracts are
pure; the documents say which of them a caller asks at which point, and the
handoff they let through is what finalize works with. People and branches change item files with no lock at all; nothing in
`scripts/` ever writes CANCELLED.

What is hard: processes that die between two file writes; leases that end
while an operation runs or a call is delayed; a lock that must be broken when its
owner died and must not be broken otherwise; repeated and late calls; statuses
edited while an item is claimed; readers that see the files of an operation one
by one; a fingerprint taken in several steps of a repository that is being edited;
decisions that are sound one by one and asked for again and again. `PROJECT.json` lists these hazards with the line
at which each bites and the properties that would catch it.

## 2. Modules

| Module | Models |
|---|---|
| `AgentQueue` | items, claims, history and every operation of `QueueStore`, one step per operation, and the prefixes of an operation that a crash leaves |
| `Ownership` | the abstract specification of the queue: who owns and who finished what |
| `MCAgentQueue` | constants for TLC |
| `AgentQueueProofs` | theorems about `AgentQueue` that hold with crashes, and its types |
| `AgentQueueTokensProofs` | theorems about `AgentQueue` while no process dies |
| `Finalize` | finalize and resume, one step per file access and per queue operation, on top of `AgentQueue` |
| `MCFinalize` | constants for TLC |
| `FinalizeProofs` | theorems about `Finalize` |
| `Contracts` | routing, escalation, budgets, packets and handoffs, as operators |
| `Evidence` | fingerprints and their freshness, one step per look at HEAD, the index or a file |
| `Workflow` | a piece of work through the commands of `agent_workflow.py`: composes `Contracts` and `Evidence` |
| `MCWorkflow` | constants for TLC |
| `WorkflowProofs` | theorems about `Contracts`, `Evidence` and `Workflow` |
| `DependencyGraph` | which graphs are complete and acyclic, as definitions |
| `DependencySearch` | the depth-first search of `_validate_graph`, one call or return of `visit` at a time, against `DependencyGraph` |
| `DependencySearchProofs` | theorems about `DependencySearch` |
| `Readers` | list, show, validate, event snapshot and event delta, one step per file, among the writes of the queue; uses `DependencyGraph` |
| `MCReaders` | constants for TLC |
| `ReadersProofs` | theorems about `Readers` |
| `RepositoryLock` | `_RepositoryLock`, one step per system call |
| `MCRepositoryLock` | constants for TLC |
| `RepositoryLockProofs` | theorems about `RepositoryLock` |

### AgentQueue

`status`, `completion` are the item files (`ABSENT`, `TORN`, `REMOVED` say that
there is no file, a cut-off file, a deleted file); `claim` is the `claim.json` of
each item and `claimDirs` the claim directories, which are two things because the
code makes the directory first and removes it last; `history` is the set of
archived claims; `issued` numbers the tokens. A claim's `left` is the time to the
end of its lease in ticks: `now >= heartbeat + lease` is `left = 0`.

Each operation is one step because it runs inside the lock. `Claim` and
`ClaimNext` begin with the recovery, as the code does, and a refusal keeps what
recovery did. The clock is read once for the recovery and again for the active
claims, so it may move on by a tick in between (`LaterReading`). `ClaimNext` has
its own filter (`Eligible`), written separately from the tests of `_claim_locked`
(`Grantable`), as in the code. `OwnedCallTooLate` is the path that heartbeat,
release, complete and block share when the lease is over. Calls that raise and
change nothing are the absence of a step. Inputs: any token issued so far, any
agent, lease and owner; capabilities are those of the agent.

External steps: `Tick`, `Cancel`, `Remove` (an id is not used again after its file
was deleted), `DiscardTorn`. The Crash steps (`CrashSpec`) stop an operation after
some of its writes: a cut-off item file, a claim directory without
`claim.json`, an item written and its claim not archived, a history file without
the removal, a removal that got as far as the file. Every operation that archives a claim has such a
step: recovery, release, complete, block, a call that comes too late, and recovery by
generation.

Abstracted: titles, evidence and other texts; ids as numbers; tokens as numbers,
kept in history (where the code strips them) to tell archived claims apart;
timestamps; the item's `stateHistory`. Dependencies, scopes and capabilities of
an item are constants. Items are not enqueued DONE.

`Ownership` is what the queue promises its agents, without files, leases,
statuses or scopes: an item has one owner, who got it with a token nobody had
before; ownership ends once; an item is finished only by its owner, who thereby
gives it up; a finished or discarded item is never given out again. The
refinement mapping is at the end of `AgentQueue` (`OwnerOf`, `TokenOf`,
`EndedTokens`, `FinishedBy`, `Discarded`): ticks, heartbeats, enqueuing, unblocking
and cancelling are stutters, and a claim is one step in which some owners
lose their items (the recovery) and one agent may get one.

### RepositoryLock

`dir` is what the path names: nothing, or a directory with the owner in
`owner.json`, the temporary files and the age of its mtime. `pc` is the next
system call of each use of the lock. `__enter__` is `mkdir`, then the three
calls of `atomic_write_json` (`ensure`, which makes a vanished directory again,
`temp`, `commit`); when the directory is there, `stat`, `break`, `deadline`.
`__exit__` is the reading of the owner (end of `body`), `unlink` and `rmdir`. All
of them go by path, so a step acts on whatever the path names at that moment. A
use may fail because of an error that leaves `__enter__`, because of the deadline,
because a write fails, or because the process dies. A process that is done or has failed
may use the lock again (`Start`), without end.

### Finalize

`Finalize` extends `AgentQueue` and adds `journal` (the file of each item: key and
state), `marker` (the `lean-finalize:` key among the completion evidence of an
item), `call` (each finalize or resume under way: where it is, its arguments, and
its own copy of the record, what it has found of a fingerprint), `tree` (what each look
at the repository would find now) and `inSync` (the plans whose markers are all in the trackers).

The journal is read and written without the lock, so a call is a process. The
steps of `finalize_item` are `BeginFinalize` (look at the journal; another key
ends the call, the same key turns it into a resume), `Look` and `Check` (freshness), `Beat`,
`Prepare`, `CompleteItem`, `Settle`. Those of `resume_finalize` are `BeginResume`
or `Load`, `ReadItem`, which decides between `Settle` (done, with this key), the
path `Look`, `Check`, `Beat`, `CompleteItem`, `Settle` (still TODO, with a token), `Sync`
(not PREPARED) and an error, and then `Sync` and `Save`. `Beat` and
`CompleteItem` are the queue's own `Heartbeat` and `Complete`; `Refused` is the
queue's refusal of a token, which archives a claim whose lease is over. Between
any two steps there may be any other operation of the queue (`QueueStep`: other
workers complete, block, recover, release, reclaim, delete), an edit of the
tree or the trackers (`Edit`), or the death of a call (`Die`).

Every write of an item file changes what a fingerprint sees
(`TreeFollowsItems`), because items are tracked in git; claims and journals are
not. `seen`, which serves a property, collects what each look could have found since each
claim was made. A fingerprint is a sequence of `Looks` looks: `Look` takes
one, `Check` the last one and compares, and the tree may change between any two. What they
look at, and what is made of it, is in `Evidence`: here `EvidenceOf` says which sequences of
views have the fingerprint of a request. Deaths are those of a call between its steps;
deaths inside the queue's own operations are in `AgentQueue` (`CrashSpec`).
The comparison of trackers at `Settle` is left out: what it
finds is overwritten before anything reads it, or only shown. Requests in
`Repeating` list a check twice; the queue refuses their completion evidence, so
that `CompleteItem` is not possible for them.

### Contracts, Evidence and Workflow

`Contracts` has the pure decisions with the code's order of tests:
`adaptive_worker_count`, `route_work`, `RecoveryAction` (the answer of
`evaluate_escalation`), `BudgetAcceptable`, `PacketAcceptable`,
`HandoffAcceptable`. Effort levels are their ranks, reason codes and phase lists
are left out, and a payload that raises is one that is not acceptable.

`Evidence` has the repository as HEAD, index and work tree, each a content for every
tracked file, and the untracked files. `git_evidence_inputs` runs one process after the
other, and these read one file after the other, so a fingerprint (`probe`) is a sequence of
looks (`Views`, `Look`): rev-parse at HEAD; `diff --cached` at HEAD and at the index; `diff`
at the index and at each tracked file; `ls-files` at which untracked files there are, and then
a look at each of them. `Inputs` is what the fingerprint is of, given what they found;
`MakeRecord` and `Judge` end it. A diff is, for each file, the pair of its
sides, or `NoDiff`: a diff of `git diff --binary` names both sides by their blob
hashes. The digest of the untracked files is given by `DigestOf`, which need not be
injective, as a file of more than 8 MiB counts by its size. `EditWork`, `EditUntracked`, `GitAdd` and
`GitCommit` happen at any time. `saw` and `steady` note, for the properties, the
repositories there were during a fingerprint and whether HEAD and the index kept
still. HEAD and the index are each read at one moment: git replaces both by a rename.

`Workflow` is one piece of work: `phase` is how far it is, `shape` what it was
declared as, `attempt` the effort level, the number of escalations and whether the
context was expanded, `handoff` and `prepared` what was handed off and what
is in the finalize journal. `Route` may be repeated with harder work. The code keeps
none of `attempt`: `escalate` is told each time, and that the caller counts is
what `docs/runtime/lean-agent-workflow.md` says. `PrepareRecord` and `CompleteItem`
are the two ends of a finalize that depend on the handoff, and `Interrupted` is a
finalize that dies between them, after which the resume checks the evidence again;
claims, tokens and the states after completion are in `Finalize`.

### DependencyGraph and Readers

`DependencyGraph` has two definitions, `Complete` (each dependency is an item) and
`Acyclic` (each set of items has one that depends on none of them). `DependencySearch`
is the code that decides them. Its state is what `_validate_graph` has in its variables
and on Python's stack: `graph`, the `mark` of each item (0, 1, 2), the `path` of the
visits under way, for each of them the dependencies its loop has left (`pending`), the
items the outermost loop has left (`unvisited`), and the `report` of a cycle.
`LookForMissing` is the test for missing dependencies; `Start` and `Descend` are a call
of `visit` from the outermost loop and from the loop of a visit (`Visit`: a cycle, a
visit that returns at once, or a new one), `Return` is its end. Both loops take their
items in any order, which includes the code's. `Readers` uses the definitions
where the code runs the search; that the search gives that answer is the invariant
`AnswerRight`.

`Readers` has the files and nothing else of the queue: `item`, `needs`, `claim` (a
directory may be there without its file), `journal`. A process that holds the lock
has decided what to write when it begins (`Begin`) and writes it file by file:
first it archives the claims that recovery takes away, in the order of the ids
(`sweep`, `Sweep`), then come its own writes (`plan`, `Write`): a new item is first an unfinished file (`exclusive_write_json`), a
removal takes `claim.json` before its directory. The conditions of the operations
are those that the files decide; agents, tokens and scopes are in `AgentQueue`, and
an operation refused for their sake is one that does not begin. One reading at a
time (`reader`): the names (`glob`, one look), each item (`ReadItem`, with the search
after the last), for each row, in any order as rows are sorted by priority, whether there
is a claim file, then the file, then the clock by which its lease is judged (`LookForClaim`,
`ReadClaim`, `JudgeClaim`), for an event snapshot each finalize record
(`ReadJournal`). The finished snapshot is `previous`, with which `event_delta`
compares the next. What a reading has of a claim is a copy: once the file was replaced by a
heartbeat, or removed, its lease ends at a time of its own (`copy` is "OLD"). `was`, `events`
and `outdated` note, for the properties, what was so
and what happened during the reading. Items are enqueued as TODO, BLOCKED or DONE; CANCELLED is to a
reader what BLOCKED is, except that it stays. An item whose file is deleted may be enqueued again.

## 3. What the runs check

| Run | Question | Result |
|---|---|---|
| `queue` | Is ownership exclusive and traceable under any order of operations, and is `Ownership` implemented? | holds |
| `queue_crash` | After a process died anywhere inside an operation: does work start in order, are completions traced, does abandoned ownership end? | holds |
| `queue_husk` | Can an item that is listed READY be claimed, after a crash? | violated |
| `lock` | Does the lock exclude and clean up until something fails; does every use end and is a stale lock broken after a fault? | holds |
| `lock_broken` | Does the lock still exclude after one crash? | violated |
| `finalize` | Does the journal tell the truth, and is evidence verified under the claim that completes? | holds |
| `finalize_live` | After a death, is a completion reconciled; is tracker drift noticed? | holds |
| `finalize_late` | Can a completion by finalize always be resumed? | violated |
| `workflow` | Do routes, escalations, evidence and handoffs keep what is said of them over the life of a piece of work? | holds |
| `handoff_stuck` | Can what finalize has prepared be completed? | violated |
| `readers` | Is what the readers report true, are their failures explained, is there a delta and does it lead from one snapshot to the next? | holds |
| `events_removed` | Is there a delta after an item was deleted? | violated |

The properties of `queue`:

- `ScopesExclusive`, `OneClaimPerWorker`: over live claims. They are not true of
  the claims on disk: a claim whose lease ends between the recovery and the next
  clock reading stays on disk and is not counted.
- `FinishedUnowned`, `DoneIsForever`: complete and block write the item before they
  archive the claim and never look at the status.
- `CancelledNotTakenUp`: an item that was cancelled while it was claimed may still be
  completed or blocked (and then unblocked) by the worker who has it, since complete
  and block do not look at the status; what is cancelled and unowned stays as it is.
- `TokensSpentOnce`, `LeaseHonoured`: late and repeated calls, early recovery.
- `OwnershipPromised`: the queue implements `Ownership`.
- `ClaimNextAgrees`, `ReadyIsClaimable`: the tests that `claim_next`, `list` and
  `_claim_locked` write separately agree.

The properties of `queue_crash`: `StartedInOrder` (while an item is claimed its
dependencies stay finished, though the code tests them only when the claim is made;
every claim begins with a recovery that takes the claim of a finished dependency
away before anything that depends on it starts), `CompletionAccounted` and
`AbandonedIsFreed`. With crashes `OwnershipPromised`, `FinishedUnowned`,
`DoneIsForever`, `TokensSpentOnce`, `ClaimNextAgrees` and `ReadyIsClaimable` are lost: an
item may be DONE with a token still good, a claim archived and still in force, a
directory empty. The other safety properties of `queue` are proved to hold with crashes too.

The properties of `lock`: those that a fault takes away (`ExclusiveUntilFault`,
`HolderOwnsDirectory`, `NoLeftover`, `OnlyTimeoutsFail`) say what holds until the first
one; `EveryAttemptEnds` and `StaleLockBroken` hold with it. `EveryAttemptEnds` has an
exception, which shows as soon as processes use the lock again and again: two paths of the
retry loop (the directory is gone when it is looked at, or was stale and was moved away) try
again without a look at the deadline. An attempt can be kept in them for ever, past its 5
seconds, but only if others get into the lock again and again while it tries. The loop does
not spin by itself, and the queue as a whole goes on.

The properties of `Finalize`:

- `SettledIsCompleted`: calls act on copies of records they read some steps
  before; whatever they overwrite, a journal beyond PREPARED is about an item
  completed with that key (or deleted since).
- `VerifiedUnderClaim`: freshness is checked before the heartbeat and the
  completion, and nothing excludes an edit after it, nor one between two looks of
  the check. What holds is that each thing that the fingerprint is made of (HEAD, the
  index, each file) was, at some moment of the claim that completes, as it was when the
  evidence was recorded; what was so only before the claim never completes an item. The
  moments may be different ones: the whole need never have been so.
- `CompletionReconciled`, `DriftNoticed`: what repeated plain resumes achieve.

The properties of `Workflow`:

- `RouteNeverLightens`: whatever is found out about the work - a risk, an open
  decision, another step or item, that it cannot be undone - class, review, planner,
  reviewer and their efforts only rise. The number of workers may fall (a risk caps it),
  and the controller of SMALL work, who does it, has more effort than the controller
  of MEDIUM work, who does not: that is allowed if another role has that effort.
- `WorkersFit`, `EscalationBounded`: limits that several branches share.
- `AttemptsEnd`: failed attempts do not go on for ever, with two exceptions that are
  part of the property: the environment or the tools keep failing
  (REMEDIATE_SAME_LEVEL is not bounded), or context is missing and the packet does not
  allow its expansion (`evaluate_escalation` is not told of the packet, and answers
  EXPAND_CONTEXT each time). Each exception is an answer given again and again: a packet that
  does not allow expansion exempts no other failure.
- `StaleExactlyIfChanged`: with no edit during the fingerprints, FRESH is answered
  exactly if nothing changed - in particular HEAD and two diffs tell apart three trees.
- `FreshWasTrue`: with edits between the looks, FRESH still means of each tracked file that
  in HEAD, the index and the work tree it was, at some moment of the check, as at some
  moment of the record, and of each untracked file that its digest was. For tracked files
  it needs HEAD and the index to keep still: one `git add` between the two diffs
  hides a change from both. It is said of each file and not of the tree: two
  edits while the files are read are enough for the answer FRESH about a tree that never was
  (TLC finds this at once if the quantifiers are exchanged).
- `FinishedIsVerified`: what was completed had no failed check, and its evidence is the
  record that was found fresh last, whatever was handed off, found stale, interrupted
  and resumed before.

The properties of `Readers`:

- `RowsWereTrue`: a row is put together from an item, a claim and the clock, which were read at
  different times, and its dependencies from yet other times. CLAIMED, DONE and BLOCKED
  were so at some moment of the reading; READY, WAITING and STALE_CLAIM were so, or the
  item was finished or blocked meanwhile (its old file and its removed
  claim together look like READY), with these exceptions, which are part of the property:
  - STALE_CLAIM may be shown of a claim that was live at every moment: the reader holds its
    copy of `claim.json` while the owner prolongs the claim, and looks at the clock then.
  - A deletion during the reading can leave any row.
  - After an earlier deletion an item may have been claimed whose dependency is enqueued
    again: a reader who looks
    at the item before the claim is made, or after it ended, shows WAITING though the
    work was claimed at every moment when its dependency was not finished. It takes more
    operations than the bound of the run; the proof brought it to light.
  - After an earlier deletion, what was enqueued again as DONE may be blocked by the owner of
    a claim that outlived the first file: work that waits for it can be shown READY.
- `FailuresExplained`: a reading fails only because of a file in the making or deleted,
  a claim that ended between the look and the read, or a dependency that is gone; never
  because of claims made or prolonged, completions, or finalize records.
- `DeltaApplies`: a delta, applied to the snapshot it was asked from, gives the current one.
- `DeltaPossible`: until an item file is deleted, every id in a delta is among the current
  items, where `event_delta` looks it up: two snapshots are taken file by file, and still
  the later one has all the items of the earlier.
- `NoCycle`: the item files form no cycle, also when a file was deleted and the id
  enqueued again with other dependencies.

The properties of `DependencySearch` (proved of every graph, so that no run in
`PROJECT.json` repeats them; `tlc -config search.cfg DependencySearch` does, over three items):

- `AnswerRight`: the three marks tell a cycle from an item that is met twice.
- `PathIsMarked`: the path and the marks, which are kept separately, agree; otherwise
  `path.index` would raise an error nobody expects.
- `ReportIsCycle`: each item named in the message depends on the next, and the last is the first.
- `DepthBounded`: the recursion is no deeper than there are items, also in a cyclic graph.
- `SearchEnds`: it ends, though it goes over shared dependencies again and again.

Findings. (1) The lock is broken by path after its age was read by path, so after
one crash two waiters can both enter. (2) A claim directory that lost its process
before `claim.json` was written is never recovered, and `claim-next` stumbles over
it for ever. (3) A slower finalize with another payload overwrites the
record of the one that completed the item; the completion can then not be resumed.
(4) A handoff that lists a check twice is let through and prepared, and complete
refuses its evidence as having duplicate entries; the record can neither be resumed
nor, since a corrected handoff is a conflict, replaced. (5) After an item file was
deleted, no delta from an earlier snapshot can be had: `event_delta` looks up the
removed id among the current items. Two further observations are not runs: resume
completes a prepared item with whatever live token of the item it is given, also of
a later claim than the record was prepared with (`docs/runtime/lean-agent-workflow.md`
asks for the original one); and an item cancelled while it is claimed can be completed.

Bounds. Three items are enough for a dependency and, apart from it, a conflict of
scopes; two workers for every kind of competition, one of them a Controller;
three claims let an item be claimed again after a claim of it ended and another
item be claimed beside it; leases of two ticks have a middle. The crash run has
two claims and one crash, leases of one tick; two claims are too few for one
worker to get two of them out of turn, so `OneClaimPerWorker` after a crash is
left to its proof. `queue` has no sessions, so that recovery by generation fires in the crash
run only. The lock runs have three processes, one that dies or holds and two that
race, which use the lock any number of times in `lock`; the staleness limit (2) is longer than the timeout (1) as in the code (30 s and
5 s).

The finalize runs have one item, because journals and keys of different items
never meet. The safe run has two calls (interchangeable, so symmetric), one
request and two claims, so that the claim a record was prepared with can end and
another one complete, and fingerprints of two looks, one of which may find a change; the
live run has two requests with evidence of different
trees, one claim, fingerprints of one look, and one call that dies after any of its steps; one of its requests cannot be
completed for a check listed twice.

The workflow run has one risk flag of each kind (a proof has the rest), every
combination of the Booleans, 1 or 2 steps and 0, 1, 3 or 7 items, so that every branch
of the worker count is met; two escalations; two tracked files of two contents each (which
of them is there at first makes no difference, so that the files are equal then), and an
untracked file that is not there or has one of two contents of the same digest; three edits, enough for one before,
one during and one after a fingerprint or for an add and a commit. The readers' runs
have two items, since a row meets at most its own item, claim and one kind of
dependency, one deleted file, and together three readings, operations and records (two in
`events_removed`): two readings with an operation between or during them, since a delta is
of two, or one with two operations, one that is half done when the
reading begins and one that follows. Items are absent, to do (claimed or not) or done at first; what is
blocked and what is recorded comes from the operations. What these bounds leave out, the theorems about `Readers` cover. The search
run goes through every graph of up to three items, loops and missing dependencies
included: three is the first number with a cycle beside an item that is met twice.
`CHECK_DEADLOCK FALSE` is in the runs of `Workflow` and `DependencySearch`, which end, and
of `Readers`, which stop at these bounds.

Fairness. `AbandonedIsFreed` assumes that time passes and that someone keeps
running a recovery (`WF` of `Tick` and `RecoverStale`): there is no daemon, but
every claim and claim-next begins with the same recovery. The lock's liveness
assumes that the clock moves and that a process that did not die gets to its next
system call; nothing is assumed about who wins. Finalize's liveness assumes
that a call that did not die goes on (`WF` of each call's steps) and that someone
runs a plain `resume-finalize` of each recorded item again and again (`SF`, since
the calls of the model can be taken by others for a while): the documents make that the
operator's task after an interruption. `AttemptsEnd` assumes that an attempt that is
under way ends, in success or in one of the failures (`WF` of `Attempt`). `SearchEnds`
assumes that the one process that runs the search goes on.

`Prompt`. A holder that is alive for more than 30 seconds without touching the
directory loses its lock, by design. The constant `Prompt` states that none does;
the mutual exclusion that is checked and proved depends on it.

## 4. What is proved

For any items, agents, scopes, leases and bounds (`AgentQueueProofs`):

- `CrashTypeCorrect`, `TypeCorrect`: type correctness with and without crashes.
- `CrashInvariant`: `QueueInv` is inductive under `CrashSpec`. Exclusive scopes and
  one claim per worker need no strengthening over live claims: live claims only
  disappear, except when one is granted, and the grant compares with all
  live claims of items that are present. `StartedInOrder` is not inductive: a
  finished dependency could be reopened by its owner. `SettledDependencies` adds
  that the dependency has no owner, and recovery, which every claim begins with,
  establishes it. The proof has one lemma for the steps that only take
  claims away (`QuietStep`) and one for granting (`GrantStep`).
- `CrashScopesExclusive`, `CrashOneClaimPerWorker`, `CrashStartedInOrder` follow.
- `CrashCompletionTraced`: an item is completed only under a claim of the agent it names
  (`DoneByOwner`), and no step forgets a claim (`NextRemembers`): a process that dies while it
  archives has written history before it removes `claim.json`, and a grant only takes the
  place of a claim that recovery has archived.
- `CrashLeaseKept`, `CrashCancelledLeft`: `LeaseHonoured` and `CancelledNotTakenUp`, which the run
  `queue` checks without crashes, hold with them.

For any set of attempts, timeout and staleness limit (`RepositoryLockProofs`):

- `LockTypeCorrect`, faults included.
- `LockInvariant`, from the assumption `Prompt`: until the first fault the directory
  exists exactly while someone holds it, is never stale, and its contents tell how
  far the holder got. `LockExcludes`, `LockOwned`, `LockCleanedUp` and
  `LockFailsByTimeout` follow. That they hold only until the first fault cannot be
  helped: `lock_broken` is the counterexample.

The assumptions on constants (ids are numbers, dependencies are items, leases are
positive, null values are none of the values) are named in the modules and are
evaluated by TLC on every run.

While no process dies (`AgentQueueTokensProofs`), every other property of the
run `queue` is proved, and `CompletionAccounted`: `NoOwnerWhenFinished`, `TokensOnce`, `FilterAgrees`,
`ReadyIsGranted`, `DoneForever`, `CancelledLeft`, `LeaseKept`, `CompletionTraced`, and
`OwnershipKept`, which shows that the queue implements `Ownership`. They rest on one
description of what any operation does to claims and history (`Effect`: some
claims are archived with one event each, at most one is granted, the rest change
only their clocks), which `NextEffect` proves of each operation, and on the
inductive `CleanInv`: tokens are at most `issued` and pairwise different, finished
items have no owner, directories are those of claims.

For any items, calls, requests and trees (`FinalizeProofs`):

- `FinalizeInvariant`: `FinalizeInv` is inductive. `SettledIsCompleted` alone is not:
  a call may be about to write what it read long ago. `Backed` says that what a
  call is about to write is true of the queue, `Verified` that the evidence of a
  call past the freshness check was found, look by look, under its claim if that claim is
  still in force (and for a call that is still looking, what it has found so far). Both are stable under every other step (`WorldStep`): completions
  are not taken back, an old token never owns again, what could be found under a claim only
  grows. The proof has one lemma per step of a call.
- `FinalizeTypeCorrect`, `FinalizeSettled`, `FinalizeVerified` follow.
- `FinalizeImplementsQueue`: `FinalizeSpec => Spec`, so that every theorem about the
  queue holds beneath finalize.

For any contents, packets, limits and lists of checks (`WorkflowProofs`):

- `RouteFitsWork`, `RouteMonotone`: from lemmas about the pure decisions
  (`WorkersBounded`, `HarderIsHeavier`: for any two shapes, the one in no respect easier
  gets the route in no respect lighter) and an invariant that a declared shape is one.
- `EscalationStops`: with the invariant that an attempt has its types; the bound
  on the level is kept because `Exhausted` compares with the highest one.
- `FreshIsUnchanged`: `InputsTell` shows that HEAD and the two diffs determine the
  three trees; `EvidenceInvariant`, that each look found what was so in one of the
  repositories that there were, so that the looks of a fingerprint which saw one
  repository are that repository's.
- `FreshIsTrue`, for any number of files: with `SteadyInvariant`, HEAD and the index of all the
  looks are the same, and so the look at a file alone decides (`EqualFiles`), which was true
  when it was made; `ToldWasTrue` is the same for an untracked file, which is looked at twice.
- `FinishedVerified`: the handoff that was prepared is one that was let through and
  goes with the evidence record in force.

- `WorkflowTyped`: every part of the state has its type.

For any finite graph of any ids (`DependencySearchProofs`):

- `SearchInvariant`: `SearchInv` is inductive. `AnswerRight` alone says nothing before
  the end. What carries it there: the path is a chain of dependencies and holds exactly
  what is marked 1; what a loop has done with is left (marked 2) or is the visit it is
  in (`LoopsDone`); what is left depends only on what is left, and each set of it has
  a way out (`LeftIsDone`). The last part avoids an induction over the graph: an item
  is left when all its dependencies are, so it adds no circle.
- `SearchCorrect`, `SearchPathMarked`, `ReportedCycleReal`, `SearchDepth` follow; the last one
  because a path without repetitions is an injection into the items.

For any finite set of ids and any number of operations, deletions, records and readings
(`ReadersProofs`):

- `FilesInvariant`: `FilesInv` is inductive; it is what holds of the files between two
  writes of an operation. `PlanOK` lists what a process may still have to write at each
  point of each operation, `ClaimsOK` says that a claim is of work that is to do, or was just
  finished, or deleted, and, as long as nothing was deleted, that the dependencies of
  claimed work are done, `GraphOK` that the files, with the one about to be written,
  form no cycle. `NeverCircular` follows.
- `ReadersInvariant` adds what a reading under way has read. `RowsWereTrue` is about the end
  of a reading only, so the invariant has to say at each stage what every row still
  promises: what a row has been read as was so, or what happened since is noted
  (`RowsKept`); a row that will be shown WAITING was waiting, or its item was claimed
  after a deletion, or finished (`RowsWaited`, and `RestWaited` for rows that are not read
  yet); what is shown is true (`ShownOK`). The steps of others are not looked at
  one by one for this: `Happens` says what any of them may do to what a reader
  sees, one lemma per step shows that it is of that kind, and `ReadingDisturbed` that
  nothing of that kind spoils a reading; the steps of the reading itself have a lemma each.
- `ReadersTyped`, `RowsTrue`, `FailuresHaveCauses` and `DeltasPossible` follow, the last from
  `WholeOK`: until a file is deleted, a reading comes to everything that was there before it.
- `DeltasApply`, from the lemma `DeltaLeads` about `event_delta`: what is neither removed nor
  in the delta is the same in both snapshots. It needs no invariant, so it holds of any
  snapshot a caller may have kept, too.

Every invariant and every action property of the passing runs is a theorem. Model-checked only:
liveness (`AbandonedIsFreed`, `EveryAttemptEnds`, `StaleLockBroken`, `CompletionReconciled`,
`DriftNoticed`, `AttemptsEnd`, `SearchEnds`), which is outside the prover's reach.

## 5. Plan

The modules were written in this order, the most important behaviour first:
`AgentQueue` with `Ownership`, `RepositoryLock`, `Finalize`, each with its proofs;
then `Contracts`, `Evidence` and `Workflow`, then `DependencySearch` and `Readers`, with
theirs. What would come next:

1. What is left of `Ownership` when processes die, as a second abstract specification:
   which of its promises `CrashSpec` keeps.
2. What a prepared record needs for its completion to be possible, as a theorem beside the
   counterexample of `handoff_stuck`.
3. The queue's operations split into their file writes and run under a lock that was
   broken (`lock_broken`), to see which of the queue's properties a broken lock costs.

## 6. Not modelled, and why

The governance validator (`validate_agent_governance.py`): it reads documents and
settings and tests them against text patterns, one after the other; it has no state,
and a model of it would be a list of strings. Hashing, subprocesses, argument parsing
and printing: input and output with no state of the program's own; hashes are taken as
injective. Field validators: only where a rule of theirs decides what happens next
(completion evidence has no entry twice). Toolchain facts in a fingerprint: taken as
constant. Clock skew between machines and mtime resolution: the tools are for one
repository on one machine. Directory listings are one look. Claim files damaged by
hand: the code writes and removes them under the lock and never leaves half a one; recovery
would skip it, and every claim refuse. Items enqueued as DONE: `Readers` has them,
`AgentQueue` does not; such an item names whoever enqueued it as having completed it, without
a claim, which `CompletionAccounted` and `Ownership` are not about.
