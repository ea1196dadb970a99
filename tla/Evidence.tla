------------------------------- MODULE Evidence -------------------------------
(***************************************************************************)
(* Evidence fingerprints of scripts/agent_workflow_evidence.py.            *)
(*                                                                         *)
(* A fingerprint is put together from HEAD, the staged diff (HEAD against  *)
(* the index), the unstaged diff (the index against the work tree) and a   *)
(* digest of the untracked files.  Each is taken by a process of its own,  *)
(* which looks at HEAD, at the index, or at one file after the other.      *)
(* Nothing keeps the repository still in between, so each look is a step,  *)
(* and edits, "git add" and commits of anyone may come between two.        *)
(* The toolchain facts, which are part of the fingerprint too, are taken   *)
(* to stay the same.                                                       *)
(***************************************************************************)
EXTENDS Naturals, Sequences

CONSTANTS
    Tracked,     \* how many tracked files there are
    Others,      \* how many untracked files there may be
    Contents,    \* contents of a tracked file (one may stand for its absence)
    Untracked,   \* contents of an untracked file
    Digests,     \* their digests
    DigestOf,    \* the digest of each: of a large file only its size counts
    Checkouts,   \* what the repository may be at first
    MaxEdits,    \* bound: changes of the repository in a behaviour
    NoDiff,      \* an empty diff
    NoFile,      \* the untracked file does not exist
    NoProbe,     \* no fingerprint is being taken
    NoRecord     \* no evidence record was made

\* The files, in the order in which they are read.
Files == 1 .. Tracked
OtherFiles == 1 .. Others

FileStates == [Files -> Contents]
OtherStates == [OtherFiles -> Untracked \cup {NoFile}]

\* A commit is told by what is in it.
Trees == [head : FileStates, index : FileStates, work : FileStates, untracked : OtherStates]

ASSUME EvidenceAssumption ==
    /\ Tracked \in Nat /\ Others \in Nat /\ MaxEdits \in Nat
    /\ NoDiff \notin Contents \X Contents
    /\ NoFile \notin Untracked \cup Digests
    /\ \A u \in Untracked : DigestOf[u] \in Digests
    /\ Checkouts \subseteq {t \in Trees : t.head = t.index /\ t.index = t.work}

-----------------------------------------------------------------------------
(* What a fingerprint is made of *)

\* What the looks find, one after the other: rev-parse sees HEAD; diff --cached
\* sees HEAD and the index; diff sees the index and each file; ls-files sees
\* which untracked files there are, and then each of them is read.
Existing(t) == {n \in OtherFiles : t.untracked[n] # NoFile}

Views(t) ==
    <<t.head, t.head, t.index, t.index>> \o t.work \o <<Existing(t)>> \o t.untracked

AllLooks == 5 + Tracked + Others

WorkView(found, f) == found[4 + f]
NamesView(found) == found[5 + Tracked]
OtherView(found, n) == found[5 + Tracked + n]

\* The diff of a file names both of its sides, and is empty between equal ones.
Diff(from, to) == IF from = to THEN NoDiff ELSE <<from, to>>

\* What _untracked_digest tells of a file: one that is gone is passed over.
Told(u) == IF u \in Untracked THEN DigestOf[u] ELSE NoFile

UntrackedDigest(found) ==
    [n \in OtherFiles |-> IF n \in NamesView(found) THEN Told(OtherView(found, n)) ELSE NoFile]

\* A slip: one diff of the work tree against HEAD.
InputsByHead(found) ==
    [head |-> found[1], staged |-> NoDiff,
     unstaged |-> [f \in Files |-> Diff(found[2][f], WorkView(found, f))],
     untracked |-> UntrackedDigest(found)]

\* What git_evidence_inputs makes of what the looks found.
Inputs(found) ==
    [head |-> found[1],
     staged |-> [f \in Files |-> Diff(found[2][f], found[3][f])],
     unstaged |-> [f \in Files |-> Diff(found[4][f], WorkView(found, f))],
     untracked |-> UntrackedDigest(found)]

VARIABLES
    tree,      \* the repository
    probe,     \* the fingerprint being taken, or NoProbe
    record,    \* the evidence record, or NoRecord
    verdict,   \* what the last check answered, or "NONE"
    edits      \* how often the repository changed

evars == <<tree, probe, record, verdict, edits>>

\* A probe has what was found so far.  Two things are kept for the
\* properties: the repositories there were during it, and whether what the diffs
\* compare with (HEAD, the index) was left alone.
Began(use) == [use |-> use, found |-> <<>>, saw |-> {tree}, steady |-> TRUE]

EvidenceInit ==
    /\ tree \in Checkouts
    /\ probe = NoProbe
    /\ record = NoRecord
    /\ verdict = "NONE"
    /\ edits = 0

-----------------------------------------------------------------------------
(* Taking a fingerprint *)

\* make_evidence_record ("record") and evidence_freshness ("check").
BeginProbe(use) ==
    /\ probe = NoProbe
    /\ use = "check" => record # NoRecord
    /\ probe' = Began(use)
    /\ verdict' = "NONE"
    /\ UNCHANGED <<tree, record, edits>>

\* The next look.
Look ==
    /\ probe # NoProbe
    /\ Len(probe.found) < AllLooks
    /\ probe' = [probe EXCEPT !.found = Append(@, Views(tree)[Len(@) + 1])]
    /\ UNCHANGED <<tree, record, verdict, edits>>

AllSeen == probe # NoProbe /\ Len(probe.found) = AllLooks

MakeRecord ==
    /\ AllSeen /\ probe.use = "record"
    /\ record' = [inputs |-> Inputs(probe.found), saw |-> probe.saw, steady |-> probe.steady]
    /\ probe' = NoProbe
    /\ UNCHANGED <<tree, verdict, edits>>

\* A slip: HEAD is not compared.
AnswerByDiffs ==
    IF [Inputs(probe.found) EXCEPT !.head = record.inputs.head] = record.inputs
    THEN "FRESH" ELSE "STALE"

Answer == IF Inputs(probe.found) = record.inputs THEN "FRESH" ELSE "STALE"

Judge ==
    /\ AllSeen /\ probe.use = "check"
    /\ verdict' = Answer
    /\ probe' = NoProbe
    /\ UNCHANGED <<tree, record, edits>>

-----------------------------------------------------------------------------
(* What others do to the repository *)

Changes(t, steady) ==
    /\ edits < MaxEdits /\ edits' = edits + 1
    /\ t # tree /\ tree' = t
    /\ probe' = IF probe = NoProbe THEN NoProbe
                ELSE [probe EXCEPT !.saw = @ \cup {t}, !.steady = @ /\ steady]
    /\ UNCHANGED <<record, verdict>>

EditWork(f, c) == Changes([tree EXCEPT !.work[f] = c], TRUE)
EditUntracked(n, u) == Changes([tree EXCEPT !.untracked[n] = u], TRUE)
GitAdd(f) == Changes([tree EXCEPT !.index[f] = tree.work[f]], FALSE)
GitCommit == Changes([tree EXCEPT !.head = tree.index], FALSE)

EditStep ==
    \/ \E f \in Files, c \in Contents : EditWork(f, c)
    \/ \E n \in OtherFiles, u \in Untracked \cup {NoFile} : EditUntracked(n, u)
    \/ \E f \in Files : GitAdd(f)
    \/ GitCommit

ProbeStep == Look \/ MakeRecord \/ Judge

EvidenceNext ==
    \/ \E use \in {"record", "check"} : BeginProbe(use)
    \/ ProbeStep
    \/ EditStep

EvidenceSpec == EvidenceInit /\ [][EvidenceNext]_evars

-----------------------------------------------------------------------------
(* Properties *)

SameFile(f, t, u) ==
    t.head[f] = u.head[f] /\ t.index[f] = u.index[f] /\ t.work[f] = u.work[f]

SameOther(n, t, u) == Told(t.untracked[n]) = Told(u.untracked[n])

Same(t, u) ==
    /\ \A f \in Files : SameFile(f, t, u)
    /\ \A n \in OtherFiles : SameOther(n, t, u)

Judged == probe # NoProbe /\ verdict' # "NONE" /\ probe' = NoProbe

\* "Changed input returns STALE": between a record and a check that nothing
\* disturbed, the answer is FRESH exactly if the tracked files are the same in
\* HEAD, the index and the work tree, and the untracked ones as far as the
\* digest tells.  That HEAD and two diffs tell three trees apart is not obvious.
StaleExactlyIfChanged ==
    [][Judged =>
         \A t \in record.saw, u \in probe.saw : record.saw = {t} /\ probe.saw = {u} =>
             (verdict' = "FRESH" <=> Same(t, u))]_evars

\* Edits between the looks are no harm to any one file: if HEAD and the index
\* were left alone while the record was made and while it was checked, FRESH
\* means of each tracked file that at some moment of the check it was as at some
\* moment of the record; and of each untracked file in any case.  (The moments
\* are different ones for different files: two edits while the files are read
\* are enough for the answer FRESH about a whole that never was.  And one git
\* add between the two diffs is enough to lose the rest.)
FreshWasTrue ==
    [][Judged /\ verdict' = "FRESH" =>
         /\ record.steady /\ probe.steady =>
              \A f \in Files : \E t \in record.saw, u \in probe.saw : SameFile(f, t, u)
         /\ \A n \in OtherFiles : \E t \in record.saw, u \in probe.saw : SameOther(n, t, u)]_evars
=============================================================================
