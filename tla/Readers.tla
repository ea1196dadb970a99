------------------------------- MODULE Readers -------------------------------
(***************************************************************************)
(* The readers of the queue that take no lock: list, show and validate     *)
(* (scripts/agent_queue_store.py), the event snapshot and the event delta  *)
(* (scripts/agent_workflow_finalize.py).  They read one file after         *)
(* another while the one process that has the lock writes files.           *)
(*                                                                         *)
(* An operation of the queue is the list of its writes here; AgentQueue    *)
(* has its conditions on agents, capabilities, scopes and tokens, its      *)
(* history files and its crashes, Finalize the calls behind the journal.   *)
(***************************************************************************)
EXTENDS DependencyGraph, Naturals, Sequences, FiniteSetsExt

CONSTANTS
    Items,         \* queue ids
    MaxRemovals,   \* bound: item files that are deleted by hand
    MaxCalls,      \* bound: operations of the queue, writes of finalize records, readings
    NoReader,      \* no reading is under way
    NoSnapshot,    \* no snapshot was taken yet
    NoDelta        \* event_delta fails

ASSUME ItemsAssumption == Items \subseteq Nat
ASSUME ReaderNullAssumption == NoSnapshot # NoDelta

VARIABLES
    item,      \* each item file: its status, or "NONE" or "TORN"
    needs,     \* the dependencies in each item file
    claim,     \* each claim directory: absent, without claim.json, or its lease
    journal,   \* the state in each finalize record, or "NONE"
    sweep,     \* the claims that the process with the lock has yet to recover
    plan,      \* the writes that it has yet to do then
    removals,  \* how many item files were deleted
    count,     \* how many operations, records and readings there were
    reader,    \* the reading under way, or NoReader
    previous   \* the event snapshot that was taken last, or NoSnapshot

files == <<item, needs, claim, journal, sweep, plan, removals, count>>

rvars == <<files, reader, previous>>

\* One more, within the bound.
Another == count < MaxCalls /\ count' = count + 1

Present(i) == item[i] \notin {"NONE", "TORN"}

Known == {i \in Items : Present(i)}

Graph == [i \in Known |-> needs[i]]

Readable == \A i \in Items : item[i] # "TORN"

ClaimFile(i) == claim[i] \in {"LIVE", "STALE"}

\* A slip: without a claim, the stored status is shown.
DerivedStored(status, statusOf, of, lease) ==
    CASE status = "TODO" /\ lease = "LIVE" -> "CLAIMED"
      [] status = "TODO" /\ lease = "STALE" -> "STALE_CLAIM"
      [] OTHER -> status

\* _derived_status of an item that depends on the items in "of".
Derived(status, statusOf, of, lease) ==
    IF status # "TODO" THEN status
    ELSE IF lease = "LIVE" THEN "CLAIMED"
    ELSE IF lease = "STALE" THEN "STALE_CLAIM"
    ELSE IF \E d \in of : statusOf[d] # "DONE" THEN "WAITING" ELSE "READY"

\* Some items are there already; blocked ones and finalize records come later.
ReadersInit ==
    /\ item \in [Items -> {"NONE", "TODO", "DONE"}]
    /\ needs \in [Items -> SUBSET Items]
    /\ \A i \in Items : item[i] = "NONE" => needs[i] = {}
    /\ Complete(Graph) /\ Acyclic(Graph)
    /\ claim \in [Items -> {"NONE", "LIVE"}]
    /\ \A i \in Items : claim[i] = "LIVE" =>
         item[i] = "TODO" /\ \A d \in needs[i] : item[d] = "DONE"
    /\ journal = [i \in Items |-> "NONE"]
    /\ sweep = {} /\ plan = <<>>
    /\ removals = 0
    /\ count = 0
    /\ reader = NoReader
    /\ previous = NoSnapshot

-----------------------------------------------------------------------------
(* What a reading goes through *)

\* What is so now, for the properties.
Now(i) == IF Present(i) THEN Derived(item[i], item, needs[i], claim[i]) ELSE item[i]

\* The reading's copy of a claim: its lease ends with that of the file, as long as
\* the file is as it was read ("written": the claim files that are written now).
\* After that the lease of the copy may end at any time.
Copied(written) ==
    IF reader.copy # "LIVE" THEN reader.copy
    ELSE IF reader.looked \cap written # {} THEN "OLD"
    ELSE IF \E i \in reader.looked : claim'[i] = "STALE" THEN "STALE"
    ELSE "LIVE"

\* While the files change, the reading's ghosts note what was so and what
\* happened.
Notice(event, written) ==
    reader' = IF reader = NoReader THEN NoReader
              ELSE [reader EXCEPT !.copy = Copied(written),
                                  !.was = [i \in Items |-> @[i] \cup {Now(i)'}],
                                  !.events = @ \cup event]

\* The names that glob finds, taken as one look.
BeginReading ==
    LET found == {i \in Items : item[i] # "NONE"}
    IN  /\ reader = NoReader /\ Another
        /\ reader' = [at |-> IF found = {} THEN "done" ELSE "items",
                      rest |-> found, looked |-> {}, copy |-> "NONE",
                      row |-> <<>>, shown |-> <<>>, state |-> <<>>, outdated |-> {},
                      was |-> [i \in Items |-> {Now(i)}],
                      events |-> IF Readable THEN {} ELSE {"created"}]
        /\ UNCHANGED <<item, needs, claim, journal, sweep, plan, removals, previous>>

ReadingAt(stage) == reader # NoReader /\ reader.at = stage

Found == DOMAIN reader.row

\* The reading has dealt with an item in this stage; after the last, the next one.
Onwards(r, i, next) ==
    IF reader.rest = {i} THEN [r EXCEPT !.at = next, !.rest = DOMAIN r.row]
                         ELSE [r EXCEPT !.rest = @ \ {i}]

Fails(why) == reader' = [reader EXCEPT !.at = why]

\* load_items, in the order of the ids, and _validate_graph after the last item.
ReadItem ==
    LET i == Min(reader.rest)
        row == [j \in Found \cup {i} |->
                  IF j = i THEN [status |-> item[i], needs |-> needs[i]] ELSE reader.row[j]]
        graph == [j \in DOMAIN row |-> row[j].needs]
        last == reader.rest = {i}
    IN  /\ ReadingAt("items")
        /\ \/ ~ Present(i) /\ Fails("no item")
           \/ Present(i) /\ last /\ ~ Accepted(graph) /\ Fails("no graph")
           \/ /\ Present(i) /\ (last => Accepted(graph))
              /\ reader' = Onwards([reader EXCEPT !.row = row], i, "claims")
        /\ UNCHANGED <<files, previous>>

\* The next row, with what the item depends on.
Row(i, of, lease) ==
    LET statusOf == [j \in Found |-> reader.row[j].status]
        derived == Derived(reader.row[i].status, statusOf, of, lease)
        shown == [j \in DOMAIN reader.shown \cup {i} |->
                    IF j = i THEN derived ELSE reader.shown[j]]
    IN  reader' = Onwards([reader EXCEPT !.shown = shown, !.at = "claims", !.looked = {},
                                            !.copy = "NONE", !.outdated = @ \cup
                                              (IF reader.copy = "OLD" THEN {i} ELSE {})],
                          i, "journal")

\* A slip: the dependencies are not looked at.
ShowAlone(i, lease) == Row(i, {}, lease)

Show(i, lease) == Row(i, reader.row[i].needs, lease)

\* _load_claim, its first half: is there a file?  The rows are in the order of
\* their priorities, which may be any.
LookForClaim(i) ==
    /\ ReadingAt("claims") /\ i \in reader.rest
    /\ \/ ClaimFile(i) /\ reader' = [reader EXCEPT !.at = "claim", !.looked = {i}]
       \/ ~ ClaimFile(i) /\ Show(i, "NONE")
    /\ UNCHANGED <<files, previous>>

\* Its second half: the file may be gone.
ReadClaim(i) ==
    /\ ReadingAt("claim") /\ i \in reader.looked
    /\ \/ ClaimFile(i) /\ reader' = [reader EXCEPT !.at = "judge", !.copy = claim[i]]
       \/ ~ ClaimFile(i) /\ Fails("no claim")
    /\ UNCHANGED <<files, previous>>

\* _derived_status looks at the clock after that, and judges the claim as it was
\* read.
JudgeClaim(i) ==
    /\ ReadingAt("judge") /\ i \in reader.looked
    /\ \E lease \in {"LIVE", "STALE"} :
         reader.copy \in {lease, "OLD"} /\ Show(i, lease)
    /\ UNCHANGED <<files, previous>>

\* event_snapshot goes through the rows again; a record is never deleted.
ReadJournal(i) ==
    LET state == [j \in DOMAIN reader.state \cup {i} |->
                    IF j = i THEN journal[i] ELSE reader.state[j]]
    IN  /\ ReadingAt("journal") /\ i \in reader.rest
        /\ reader' = Onwards([reader EXCEPT !.state = state], i, "done")
        /\ UNCHANGED <<files, previous>>

\* The items of an event snapshot.
Snapshot ==
    [i \in Found |-> <<reader.row[i].status, reader.shown[i], reader.state[i]>>]

EndReading ==
    /\ reader # NoReader
    /\ reader.at \in {"done", "no item", "no graph", "no claim"}
    /\ previous' = IF reader.at = "done" THEN Snapshot ELSE previous
    /\ reader' = NoReader
    /\ UNCHANGED files

ReadingStep ==
    \/ BeginReading \/ ReadItem \/ EndReading
    \/ \E i \in Items : \/ LookForClaim(i) \/ ReadClaim(i) \/ JudgeClaim(i)
                       \/ ReadJournal(i)

\* A slip: only what was there before is compared.
ChangedOfKnown(before, now) ==
    {i \in DOMAIN before : i \notin DOMAIN now \/ before[i] # now[i]}

\* The ids whose summaries differ, as in the comprehension of event_delta.
Changed(before, now) ==
    {i \in DOMAIN before \cup DOMAIN now :
        IF i \in DOMAIN before \cap DOMAIN now THEN before[i] # now[i] ELSE TRUE}

\* event_delta looks up each of them in the current snapshot, also what is gone.
event_delta(before, now) ==
    IF Changed(before, now) \subseteq DOMAIN now
    THEN [changed |-> [i \in Changed(before, now) |-> now[i]],
          removed |-> DOMAIN before \ DOMAIN now]
    ELSE NoDelta

-----------------------------------------------------------------------------
(* What happens to the files *)

Item(i, to) == [file |-> "item", of |-> i, to |-> to]
ClaimDir(i, to) == [file |-> "claim", of |-> i, to |-> to]

\* rmtree: claim.json first, then its directory.
Archiving(i) == <<ClaimDir(i, "HUSK"), ClaimDir(i, "NONE")>>

\* A slip: the old file is deleted before the new one is put in its place.
RewriteByDelete(i, to) == <<Item(i, "NONE"), Item(i, to)>>

\* A slip: an item file is written in place.
RewriteInPlace(i, to) == <<Item(i, "TORN"), Item(i, to)>>

\* atomic_write_json
Rewrite(i, to) == <<Item(i, to)>>

Recoverable == {i \in Items : ClaimFile(i) /\ (item[i] # "TODO" \/ claim[i] = "STALE")}

Grantable(i) ==
    /\ item[i] = "TODO"
    /\ claim[i] = "NONE" \/ (ClaimFile(i) /\ i \in Recoverable)
    /\ \A d \in needs[i] : item[d] = "DONE"

\* exclusive_write_json: the file is there before its content.  An item may be
\* enqueued with any status; a CANCELLED one is like a BLOCKED one that stays so.
Enqueue(i, of, status) ==
    /\ item[i] = "NONE" /\ Readable
    /\ Accepted([j \in Known \cup {i} |-> IF j = i THEN of ELSE needs[j]])
    /\ needs' = [needs EXCEPT ![i] = of]
    /\ plan' = <<Item(i, "TORN"), Item(i, status)>>
    /\ UNCHANGED sweep

Claim(i) ==
    /\ Readable /\ Accepted(Graph) /\ i \in Known
    /\ sweep' = Recoverable
    /\ plan' = IF Grantable(i) THEN <<ClaimDir(i, "HUSK"), ClaimDir(i, "LIVE")>> ELSE <<>>
    /\ UNCHANGED needs

RecoverStale == Readable /\ sweep' = Recoverable /\ UNCHANGED <<plan, needs>>

\* heartbeat: the claim file is replaced by one with a new lease.
Heartbeat(i) ==
    /\ claim[i] = "LIVE" /\ plan' = <<ClaimDir(i, "LIVE")>> /\ UNCHANGED <<sweep, needs>>

\* release, recover_generation, and any call of the owner that comes too late.
Release(i) == ClaimFile(i) /\ plan' = Archiving(i) /\ UNCHANGED <<sweep, needs>>

\* complete and block, whatever the status in the item file.
Finish(i, status) ==
    /\ claim[i] = "LIVE" /\ Present(i)
    /\ plan' = Rewrite(i, status) \o Archiving(i)
    /\ UNCHANGED <<sweep, needs>>

Unblock(i) ==
    item[i] = "BLOCKED" /\ plan' = Rewrite(i, "TODO") /\ UNCHANGED <<sweep, needs>>

\* An operation has the lock and has decided what to write.
Begin ==
    /\ sweep = {} /\ plan = <<>> /\ Another
    /\ \/ \E i \in Items : \/ \E of \in SUBSET (Items \ {i}) :
                                \E status \in {"TODO", "BLOCKED", "DONE"} : Enqueue(i, of, status)
                           \/ Claim(i) \/ Heartbeat(i) \/ Release(i) \/ Unblock(i)
                           \/ \E status \in {"DONE", "BLOCKED"} : Finish(i, status)
       \/ RecoverStale
    /\ sweep' # {} \/ plan' # <<>>
    /\ UNCHANGED <<item, claim, journal, removals, reader, previous>>

\* What a write means to the reading: a file in the making, a claim that ends.
EventOf(w) ==
    CASE w.file = "item" /\ item[w.of] = "NONE" -> {"created"}
      [] w.file = "claim" /\ w.to = "HUSK" /\ ClaimFile(w.of) -> {"unclaimed"}
      [] OTHER -> {}

\* The claim file that a write changes.
ClaimWritten(w) == IF w.file = "claim" THEN {w.of} ELSE {}

\* _recover_locked archives the next claim, in the order of the ids.
Sweep ==
    LET i == Min(sweep)
        w == Archiving(i)[IF ClaimFile(i) THEN 1 ELSE 2]
    IN  /\ sweep # {}
        /\ sweep' = IF ClaimFile(i) THEN sweep ELSE sweep \ {i}
        /\ claim' = [claim EXCEPT ![i] = w.to]
        /\ UNCHANGED <<item, needs, journal, plan, removals, count, previous>>
        /\ Notice(EventOf(w), ClaimWritten(w))

\* The process does the next of its writes.
Write ==
    LET w == Head(plan)
    IN  /\ sweep = {} /\ plan # <<>> /\ plan' = Tail(plan)
        /\ \/ /\ w.file = "item"
              /\ item' = [item EXCEPT ![w.of] = w.to] /\ UNCHANGED claim
           \/ /\ w.file = "claim"
              /\ claim' = [claim EXCEPT ![w.of] = w.to] /\ UNCHANGED item
        /\ UNCHANGED <<needs, journal, sweep, removals, count, previous>>
        /\ Notice(EventOf(w), ClaimWritten(w))

\* A lease ends.
Expire(i) ==
    /\ claim[i] = "LIVE" /\ claim' = [claim EXCEPT ![i] = "STALE"]
    /\ UNCHANGED <<item, needs, journal, sweep, plan, removals, count, previous>>
    /\ Notice({}, {})

\* finalize and resume-finalize write a record without the lock; when they do,
\* is left to Finalize.
RecordOrder ==
    {<<"NONE", "PREPARED">>, <<"PREPARED", "RECONCILIATION_REQUIRED">>,
     <<"RECONCILIATION_REQUIRED", "SYNCED">>, <<"SYNCED", "RECONCILIATION_REQUIRED">>}

Record(i, state) ==
    /\ <<journal[i], state>> \in RecordOrder
    /\ Another
    /\ journal' = [journal EXCEPT ![i] = state]
    /\ UNCHANGED <<item, needs, claim, sweep, plan, removals, previous>>
    /\ Notice({}, {})

\* A person, or another branch, deletes an item file.
DeleteItem(i) ==
    /\ Present(i) /\ removals < MaxRemovals
    /\ item' = [item EXCEPT ![i] = "NONE"]
    /\ removals' = removals + 1
    /\ UNCHANGED <<needs, claim, journal, sweep, plan, count, previous>>
    /\ Notice({"removed"}, {})

ReadersNext ==
    \/ ReadingStep
    \/ Begin \/ Sweep \/ Write
    \/ \E i \in Items : \/ Expire(i) \/ DeleteItem(i)
                        \/ \E s \in {"PREPARED", "RECONCILIATION_REQUIRED", "SYNCED"} : Record(i, s)

ReadersSpec == ReadersInit /\ [][ReadersNext]_rvars

-----------------------------------------------------------------------------
(* Properties *)

ReadersTypeOK ==
    /\ item \in [Items -> {"NONE", "TORN", "TODO", "BLOCKED", "DONE"}]
    /\ needs \in [Items -> SUBSET Items]
    /\ claim \in [Items -> {"NONE", "HUSK", "LIVE", "STALE"}]
    /\ journal \in [Items -> {"NONE", "PREPARED", "RECONCILIATION_REQUIRED", "SYNCED"}]
    /\ ReadingAt("done") =>
         reader.shown \in [Found -> {"CLAIMED", "STALE_CLAIM", "READY", "WAITING",
                                    "BLOCKED", "DONE"}]

\* Rows that were read at different times are still not made up: an item shown
\* as claimed, done or blocked was so at some moment of the reading; one shown
\* as ready, waiting or with a stale claim was so too, or was finished or blocked
\* meanwhile.  A claim is judged by the copy that was read: while the reader held
\* it, the claim that it shows as stale may have been prolonged, or ended, before
\* the lease was over.  After a deletion, work may be claimed whose dependency is
\* enqueued anew: such an item can be shown as waiting when it was only claimed;
\* and the owner of a claim that outlived its item may block what was enqueued
\* as done: work that waits for it can be shown as ready.  (A deletion meanwhile
\* can leave anything.)
RowsWereTrue ==
    ReadingAt("done") /\ "removed" \notin reader.events =>
        \A i \in Found :
            \/ reader.shown[i] \in reader.was[i]
            \/ /\ reader.shown[i] \in {"READY", "WAITING", "STALE_CLAIM"}
               /\ reader.was[i] \cap {"DONE", "BLOCKED"} # {}
            \/ /\ reader.shown[i] = "STALE_CLAIM" /\ i \in reader.outdated
               /\ "CLAIMED" \in reader.was[i]
            \/ /\ reader.shown[i] = "WAITING" /\ removals > 0
               /\ reader.was[i] \cap {"CLAIMED", "STALE_CLAIM"} # {}
            \/ /\ reader.shown[i] = "READY" /\ removals > 0
               /\ "WAITING" \in reader.was[i]

\* A reading that nobody disturbs succeeds, and the lock-free ones are disturbed
\* by little: a file in the making or deleted, a claim that ends between the look
\* and the read.  Making or prolonging claims, completing, blocking and
\* unblocking do not disturb them, nor does finalizing.
FailuresExplained ==
    reader # NoReader =>
        /\ reader.at = "no item" => reader.events \cap {"created", "removed"} # {}
        /\ reader.at = "no graph" => removals > 0
        /\ reader.at = "no claim" => "unclaimed" \in reader.events

\* A delta says all there is to say: with the previous snapshot it gives the
\* current one.
DeltaApplies ==
    ReadingAt("done") /\ previous # NoSnapshot =>
        LET delta == event_delta(previous, Snapshot)
            kept == DOMAIN previous \ delta.removed
        IN  delta # NoDelta =>
                Snapshot = [i \in kept \cup DOMAIN delta.changed |->
                              IF i \in DOMAIN delta.changed THEN delta.changed[i]
                                                            ELSE previous[i]]

\* "After completion/blocker/reconnect or meaningful event, request delta", with
\* a prior snapshot (docs/runtime/lean-agent-workflow.md:114): there is one.
DeltaAnswered ==
    ReadingAt("done") /\ previous # NoSnapshot =>
        event_delta(previous, Snapshot) # NoDelta

\* As long as no item file was deleted, each id in a delta can be looked up.
DeltaPossible ==
    ReadingAt("done") /\ previous # NoSnapshot /\ removals = 0 =>
        Changed(previous, Snapshot) \subseteq DOMAIN Snapshot

\* The item files never depend on each other in a circle, also when one is
\* deleted and enqueued again with other dependencies.
NoCycle == Acyclic(Graph)
=============================================================================
