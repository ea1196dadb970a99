------------------------------- MODULE Finalize -------------------------------
(***************************************************************************)
(* finalize and resume-finalize of scripts/agent_workflow_finalize.py: an  *)
(* item is completed through the queue between two writes of a journal.    *)
(*                                                                         *)
(* The journal is read and written without a lock, so a call is a process  *)
(* here: one step for each file it reads or writes and for each operation  *)
(* of the queue, which AgentQueue models.  A call may stop for ever after  *)
(* any step, and other calls, workers and edits happen in between.         *)
(***************************************************************************)
EXTENDS AgentQueue, Sequences

CONSTANTS
    Calls,        \* finalize and resume calls that may be under way at a time
    Requests,     \* finalize payloads: one for each idempotency key
    ItemOf,       \* Requests -> Items
    Looks,        \* how many looks a fingerprint is put together from
    Views,        \* what a look at the repository may find
    Trees,        \* states of the repository: what each look would find in it
    EvidenceOf,   \* for each request, the lists of views with its fingerprint
    Plans,        \* sync plans
    PlanOf,       \* Requests -> Plans
    Repeating,    \* the requests whose completion evidence has an entry twice
    MaxDeaths,    \* bound: calls that die in a behaviour
    NoCall,       \* a call that is not under way
    NoRecord,     \* there is no journal file
    NoRequest     \* an item that finalize has not completed

States == {"PREPARED", "RECONCILIATION_REQUIRED", "SYNCED"}

\* A journal file.
Records == [key : Requests, state : States]

\* A record that has not been written yet.
Drafts == [key : Requests, state : {"DRAFT"}]

Steps == {"check", "beat", "prepare", "complete", "settle", "load", "item",
          "sync", "save"}

\* Where a call is, its arguments (token 0 is none), its copy of the record, and
\* what its looks at the repository found.
CallStates == [pc : Steps, kind : {"finalize", "resume"}, item : Items,
               token : Nat, ack : BOOLEAN, record : Records \cup Drafts,
               found : Seq(Views)]

ASSUME RequestsAssumption ==
    /\ ItemOf \in [Requests -> Items]
    /\ Looks \in Nat \ {0}
    /\ Trees \subseteq [1 .. Looks -> Views]
    /\ EvidenceOf \in [Requests -> SUBSET [1 .. Looks -> Views]]
    /\ PlanOf \in [Requests -> Plans]
    /\ Repeating \subseteq Requests
ASSUME FinalizeNullAssumption ==
    /\ NoCall \notin CallStates
    /\ NoRecord \notin Records
    /\ NoRequest \notin Requests

VARIABLES
    journal,   \* the journal file of each item, or NoRecord
    marker,    \* the idempotency key in the completion evidence of each item
    call,      \* the calls under way
    tree,      \* what each look would find now
    inSync,    \* the plans whose markers are all in the tracker files
    seen,      \* what each look could find since each claim in force was made
    deaths     \* how many calls died

fvars == <<vars, journal, marker, call, tree, inSync, seen, deaths>>

FinalizeTypeOK ==
    /\ TypeOK
    /\ journal \in [Items -> Records \cup {NoRecord}]
    /\ marker \in [Items -> Requests \cup {NoRequest}]
    /\ call \in [Calls -> CallStates \cup {NoCall}]
    /\ tree \in Trees
    /\ inSync \subseteq Plans
    /\ seen \in [Items -> [1 .. Looks -> SUBSET Views]]
    /\ deaths \in Nat

FinalizeInit ==
    /\ Init
    /\ journal = [i \in Items |-> NoRecord]
    /\ marker = [i \in Items |-> NoRequest]
    /\ call = [c \in Calls |-> NoCall]
    /\ tree \in Trees
    /\ inSync = {}
    /\ seen = [i \in Items |-> [n \in 1 .. Looks |-> {}]]
    /\ deaths = 0

-----------------------------------------------------------------------------
(* Steps of a call *)

At(c, pc) == call[c] # NoCall /\ call[c].pc = pc

Go(c, pc) == call' = [call EXCEPT ![c].pc = pc]

End(c) == call' = [call EXCEPT ![c] = NoCall]

\* The call has read or changed its copy of the record.
GoWith(c, pc, record) ==
    call' = [call EXCEPT ![c] = [@ EXCEPT !.pc = pc, !.record = record]]

\* The views of a claim begin anew when there is another claim, or none.
Watch ==
    seen' = [i \in Items |-> [n \in 1 .. Looks |->
        IF claim'[i] = NoClaim THEN {}
        ELSE IF claim[i] # NoClaim /\ claim'[i].token = claim[i].token
             THEN seen[i][n] \cup {tree'[n]} ELSE {tree'[n]}]]

QuietQueue == UNCHANGED <<vars, marker, tree, seen>>

World == <<inSync, deaths>>

\* The item files are tracked, so writing one changes the fingerprint.
TreeFollowsItems == tree' \in IF status' = status THEN {tree} ELSE Trees \ {tree}

\* finalize begins with a look at the journal: a record with another key is a
\* conflict and ends it, one with the same key is resumed.
BeginFinalize(c, r, t) ==
    LET found == journal[ItemOf[r]]
        Starts(pc, kind) == call' = [call EXCEPT ![c] =
            [pc |-> pc, kind |-> kind, item |-> ItemOf[r], token |-> t,
             ack |-> FALSE, record |-> [key |-> r, state |-> "DRAFT"], found |-> <<>>]]
    IN  /\ call[c] = NoCall
        /\ \/ found = NoRecord /\ Starts("check", "finalize")
           \/ found # NoRecord /\ found.key = r /\ Starts("load", "resume")
        /\ QuietQueue /\ UNCHANGED <<journal, World>>

\* resume begins with the journal too.
BeginResume(c, i, t, ack) ==
    /\ call[c] = NoCall
    /\ journal[i] # NoRecord
    /\ call' = [call EXCEPT ![c] =
         [pc |-> "item", kind |-> "resume", item |-> i, token |-> t,
          ack |-> ack, record |-> journal[i], found |-> <<>>]]
    /\ QuietQueue /\ UNCHANGED <<journal, World>>

\* resume reads the journal again; a record is never deleted.
Load(c) ==
    LET found == journal[call[c].item]
    IN  /\ At(c, "load") /\ found # NoRecord
        /\ GoWith(c, "item", found)
        /\ QuietQueue /\ UNCHANGED <<journal, World>>

\* Slips: the marker in the queue is not compared; a token is asked for.
ReconcilableUnmarked(c) ==
    call[c].record.state = "PREPARED" /\ status[call[c].item] = "DONE"

ReconcilableByToken(c) ==
    /\ call[c].record.state = "PREPARED" /\ status[call[c].item] = "DONE"
    /\ marker[call[c].item] = call[c].record.key
    /\ call[c].token # 0

\* The item was completed by the operation the record is about.
Reconcilable(c) ==
    /\ call[c].record.state = "PREPARED" /\ status[call[c].item] = "DONE"
    /\ marker[call[c].item] = call[c].record.key

\* The item is still to be completed.
Continuable(c) ==
    /\ call[c].record.state = "PREPARED" /\ status[call[c].item] = "TODO"
    /\ call[c].token # 0

\* The queue was done with before: only the trackers are compared.
Reconciled(c) == call[c].record.state # "PREPARED" /\ Present(call[c].item)

\* resume reads the item; in every other case it raises an error.
ReadItem(c) ==
    /\ At(c, "item")
    /\ \/ Reconciled(c) /\ Go(c, "sync")
       \/ Reconcilable(c) /\ Go(c, "settle")
       \/ Continuable(c) /\ Go(c, "check")
       \/ ~ (Reconciled(c) \/ Reconcilable(c) \/ Continuable(c)) /\ End(c)
    /\ QuietQueue /\ UNCHANGED <<journal, World>>

\* git_evidence_inputs looks at the repository again and again: at HEAD, the
\* index, one file after the other.  Nothing keeps it still in between.
Look(c) ==
    /\ At(c, "check") /\ Len(call[c].found) < Looks - 1
    /\ call' = [call EXCEPT ![c].found = Append(@, tree[Len(@) + 1])]
    /\ QuietQueue /\ UNCHANGED <<journal, World>>

\* What was found when the last look is taken too.
FoundBy(c) == Append(call[c].found, tree[Looks])

\* A slip: the evidence of a prepared record is not compared.
FreshOrPrepared(c) ==
    call[c].record.state = "PREPARED" \/ FoundBy(c) \in EvidenceOf[call[c].record.key]

\* evidence_freshness: what was found has the fingerprint of the evidence.
Fresh(c) == FoundBy(c) \in EvidenceOf[call[c].record.key]

\* The last look, and the comparison.
Check(c) ==
    /\ At(c, "check") /\ Len(call[c].found) = Looks - 1
    /\ \/ Fresh(c) /\ Go(c, "beat")
       \/ ~ Fresh(c) /\ End(c)
    /\ QuietQueue /\ UNCHANGED <<journal, World>>

\* The queue refuses the call's token: another claim, or none, is in force, or
\* this one is archived because its lease is over.
Refused(c) ==
    /\ \/ OwnedCallTooLate(call[c].item, call[c].token)
       \/ ~ HoldsToken(call[c].item, call[c].token) /\ UNCHANGED vars
    /\ End(c)
    /\ UNCHANGED <<marker, tree>>

\* The heartbeat tells whether the token owns the item.  finalize goes on to
\* prepare, resume to complete.
Beat(c) ==
    /\ At(c, "beat")
    /\ \/ /\ Heartbeat(call[c].item, call[c].token)
          /\ Go(c, IF call[c].kind = "finalize" THEN "prepare" ELSE "complete")
          /\ UNCHANGED <<marker, tree>>
       \/ Refused(c)
    /\ Watch
    /\ UNCHANGED <<journal, World>>

\* A slip: the copy is written as it is.
WriteCopy(c, state) == journal' = [journal EXCEPT ![call[c].item] = call[c].record]

Write(c, state) ==
    journal' = [journal EXCEPT ![call[c].item] = [call[c].record EXCEPT !.state = state]]

Prepare(c) ==
    /\ At(c, "prepare")
    /\ Write(c, "PREPARED")
    /\ Go(c, "complete")
    /\ QuietQueue /\ UNCHANGED World

\* Complete with the key among the completion evidence, which the queue refuses
\* before it looks at the token if it has an entry twice.
CompleteItem(c) ==
    /\ At(c, "complete")
    /\ \/ /\ call[c].record.key \notin Repeating
          /\ Complete(call[c].item, call[c].token)
          /\ marker' = [marker EXCEPT ![call[c].item] = call[c].record.key]
          /\ TreeFollowsItems
          /\ Go(c, "settle")
       \/ call[c].record.key \notin Repeating /\ Refused(c)
       \/ /\ \/ call[c].record.key \in Repeating
             \/ Owns(call[c].item, call[c].token) /\ ~ Present(call[c].item)
          /\ End(c)
          /\ UNCHANGED <<vars, marker, tree>>
    /\ Watch
    /\ UNCHANGED <<journal, World>>

\* The queue is done.  finalize ends here, resume goes on to the trackers.
Settle(c) ==
    /\ At(c, "settle")
    /\ Write(c, "RECONCILIATION_REQUIRED")
    /\ \/ call[c].kind = "finalize" /\ End(c)
       \/ /\ call[c].kind = "resume"
          /\ GoWith(c, "sync", [call[c].record EXCEPT !.state = "RECONCILIATION_REQUIRED"])
    /\ QuietQueue /\ UNCHANGED World

\* _sync_status, taken as one look at the trackers: no marker of the record's
\* plan is missing.
SyncComplete(c) == PlanOf[call[c].record.key] \in inSync

\* A slip: only an acknowledgement changes the state.
SyncStateKept(c) == IF call[c].ack THEN "SYNCED" ELSE call[c].record.state

\* The state to write, from the one read and what the trackers say.
SyncState(c) ==
    CASE call[c].ack -> "SYNCED"
      [] ~ call[c].ack /\ call[c].record.state = "SYNCED" /\ ~ SyncComplete(c) ->
             "RECONCILIATION_REQUIRED"
      [] OTHER -> call[c].record.state

\* What follows from the trackers: an acknowledgement may fail.
Sync(c) ==
    /\ At(c, "sync")
    /\ \/ call[c].ack /\ ~ SyncComplete(c) /\ End(c)
       \/ /\ call[c].ack => SyncComplete(c)
          /\ GoWith(c, "save", [call[c].record EXCEPT !.state = SyncState(c)])
    /\ QuietQueue /\ UNCHANGED <<journal, World>>

Save(c) ==
    /\ At(c, "save")
    /\ Write(c, call[c].record.state)
    /\ End(c)
    /\ QuietQueue /\ UNCHANGED World

CallStep(c) ==
    \/ Load(c) \/ ReadItem(c) \/ Look(c) \/ Check(c) \/ Beat(c) \/ Prepare(c)
    \/ CompleteItem(c) \/ Settle(c) \/ Sync(c) \/ Save(c)

\* A finalize without a token is left out: it is refused before it changes
\* anything, or is a resume without a token.
BeginStep(c) ==
    \/ \E r \in Requests, t \in 1 .. issued : BeginFinalize(c, r, t)
    \/ \E i \in Items, t \in 0 .. issued, ack \in BOOLEAN : BeginResume(c, i, t, ack)

Die(c) ==
    /\ call[c] # NoCall
    /\ deaths < MaxDeaths
    /\ deaths' = deaths + 1
    /\ End(c)
    /\ QuietQueue /\ UNCHANGED <<journal, inSync>>

(* The world around *)

\* Any other operation of the queue.  An item that it completes, reopens or
\* deletes has no key among its completion evidence.
QueueStep ==
    /\ Next
    /\ marker' = [i \in Items |-> IF status'[i] = status[i] THEN marker[i] ELSE NoRequest]
    /\ TreeFollowsItems
    /\ Watch
    /\ UNCHANGED <<journal, call, World>>

\* Someone edits the repository, the trackers included.
Edit ==
    /\ tree' \in Trees \ {tree}
    /\ inSync' \in SUBSET Plans
    /\ UNCHANGED <<vars, journal, marker, call, deaths>>
    /\ Watch

FinalizeNext ==
    \/ \E c \in Calls : BeginStep(c) \/ CallStep(c) \/ Die(c)
    \/ QueueStep
    \/ Edit

FinalizeSpec == FinalizeInit /\ [][FinalizeNext]_fvars

\* A call that does not die goes on, and a plain resume-finalize of each
\* recorded item is run again and again.
FinalizeFairSpec ==
    /\ FinalizeSpec
    /\ \A c \in Calls : WF_fvars(CallStep(c))
    /\ \A i \in Items : SF_fvars(\E c \in Calls : BeginResume(c, i, 0, FALSE))

-----------------------------------------------------------------------------
(* Properties *)

\* A record beyond PREPARED is about an item that was completed, once, with that
\* record's key: whatever other calls read and wrote in between, a journal never
\* reports a completion that the queue does not have.
SettledIsCompleted ==
    \A i \in Items : journal[i] # NoRecord /\ journal[i].state # "PREPARED" =>
        \/ status[i] = "DONE" /\ marker[i] = journal[i].key
        \/ status[i] = "REMOVED"

\* Who completes an item has evidence with a fingerprint that could be taken
\* during the claim it completes with: each view that makes it up was there at
\* some moment of that claim.  (Not all at one moment: an edit between two looks
\* may give the fingerprint of a tree that never was.  And not at the end: an
\* edit after the freshness check is not excluded.)
VerifiedUnderClaim ==
    [][\A i \in Items : marker'[i] \notin {marker[i], NoRequest} =>
          \E found \in EvidenceOf[marker'[i]] :
             \A n \in 1 .. Looks : found[n] \in seen[i][n]]_fvars

\* The item is completed and the journal does not say so yet.
Unreconciled(i) ==
    /\ status[i] = "DONE" /\ journal[i] # NoRecord
    /\ marker[i] = journal[i].key /\ journal[i].state = "PREPARED"

\* A completion whose call died before it wrote so is found again: resume moves
\* the record on, without any token (unless a late call has put another key in
\* the journal; see CompletionRecorded).
CompletionReconciled == \A i \in Items : []<> ~ Unreconciled(i)

\* The journal says SYNCED and a tracker has lost a marker.
Drifted(i) ==
    /\ journal[i] # NoRecord /\ journal[i].state = "SYNCED" /\ Present(i)
    /\ PlanOf[journal[i].key] \notin inSync

\* "External tracker drift never remains silently SYNCED."
DriftNoticed == \A i \in Items : []<> ~ Drifted(i)

Quiet == \A c \in Calls : call[c] = NoCall

\* When no call is under way, the journal of an item that finalize completed
\* has the key of that completion, so that "a crash after queue completion can
\* be resumed" (agent_workflow_finalize.py:4).
CompletionRecorded ==
    Quiet => \A i \in Items : status[i] = "DONE" /\ marker[i] # NoRequest =>
                 journal[i].key = marker[i]
=============================================================================
